------------------------ MODULE StripeBillingProofs ------------------------
(***************************************************************************)
(* The subscription record for any timelines, any number of regions and    *)
(* any failures: whatever order events and calls take, the record moves    *)
(* forward, no event replaces another that the listener has not heard of,  *)
(* Stripe stops delivering only what the listener has heard of, and on an  *)
(* orderly timeline the record ends in Stripe's last state.                *)
(***************************************************************************)
EXTENDS StripeBilling, TLAPS

\* The call is about to compare and set.
Saving(h) == step[h] \in {"save", "resave", "clearing"}

\* The listener has heard of event e for what it is.
Answered(e) ==
    \/ told[e] \cap {"applied", "dropped"} # {}
    \/ Kind(e) = "deleted" /\ "replay" \in told[e]

\* A record has no mark but its own, and has none once the listener knows.
Marked(r) ==
    /\ r.pending \in {NoEvent, r.last}
    /\ r.pending = NoEvent => "applied" \in told[r.last]

\* Where a call stands, and what it has told the listener by then.
CallFits(h) ==
    /\ step[h] # "idle" => Event(h) \in 1..emitted
    /\ step[h] = "idle" => draft[h] = NoRecord
    /\ step[h] \in {"resave", "reload"} => snapshot[h] \in States
    /\ step[h] \in {"clear", "clearing"} => record # NoRecord /\ outcome[h] = "applied"
    /\ step[h] = "emit" /\ draft[h] # NoRecord => record # NoRecord /\ outcome[h] = "applied"
    /\ step[h] \in {"complete", "clear", "clearing"} => outcome[h] \in told[Event(h)]
    /\ step[h] \in {"emit", "complete"} =>
          \/ outcome[h] \in {"applied", "dropped"}
          \/ outcome[h] = "replay" /\ Kind(Event(h)) = "deleted"
    /\ step[h] = "replay" => claims[Event(h)] = <<"done">>

\* What a call is about to save may follow the stored record, if that is still
\* the one it has loaded.
DraftFits(h) ==
    Saving(h) =>
        /\ draft[h] \in Records /\ Marked(draft[h])
        /\ record = NoRecord => base[h] = 0 /\ draft[h].version = 0
        /\ record # NoRecord => base[h] <= record.version
        /\ record # NoRecord /\ record.version = base[h] /\ draft[h].version = base[h] + 1 =>
              /\ draft[h].at >= record.at
              /\ draft[h].last = record.last \/ "applied" \in told[record.last]

\* The newest event of a subscription exists, as far as Stripe is.
HasNewest ==
    \A sub \in Subs : LET past == {e \in 1..emitted : Sub(e) = sub}
                      IN past # {} => \E e \in past : \A d \in past : d <= e

\* The inductive invariant.
IInv ==
    /\ TypeOK /\ HasNewest
    /\ record # NoRecord => Marked(record)
    /\ \A e \in AllEvents : claims[e] = <<"done">> => Answered(e)
    /\ \A e \in acked : Answered(e)
    /\ \A h \in Calls : CallFits(h) /\ DraftFits(h)

---------------------------------------------------------------------------
(* Worlds, events and records                                              *)

\* What the assumption says of the world of a behaviour.
LEMMA WorldFacts ==
    ASSUME world \in Worlds
    PROVE  /\ Len(Timeline) \in Nat /\ Events = 1..Len(Timeline) /\ NoEvent \notin Events
           /\ Events \subseteq AllEvents
           /\ \A e \in Events : At(e) \in Nat /\ To(e) \in States /\ Sub(e) \in Subs
           /\ MaxCasRetries \in Nat \ {0} /\ MaxFaults \in Nat
BY BillingAssumption DEF BillingAssumption, Timeline, Events, NoEvent, AllEvents, At, To,
   Sub, Subs, MaxCasRetries, MaxFaults

\* The events of all worlds are positive.
LEMMA EventFacts ==
    /\ \A e \in AllEvents : e \in Nat \ {0}
    /\ \A h \in Calls : Event(h) \in AllEvents
    /\ <<"free">> \notin Calls /\ <<"done">> \notin Calls
<1>1. \A e \in AllEvents : e \in Nat \ {0}
  BY BillingAssumption DEF BillingAssumption, AllEvents
<1>2. \A h \in Calls : Event(h) \in AllEvents
  BY DEF Calls, AllEvents, Event
<1>3. \A h \in Calls : Len(h) = 2
  BY DEF Calls
<1> QED BY <1>1, <1>2, <1>3

\* An emitted event is an event of this world.
LEMMA IsEmitted ==
    ASSUME TypeOK, NEW h \in Calls, Event(h) <= emitted
    PROVE  Event(h) \in 1..emitted /\ Event(h) \in Events
BY WorldFacts, EventFacts DEF TypeOK

\* A record is not the missing one.
LEMMA RecordFacts ==
    ASSUME NEW r \in Records
    PROVE  /\ r # NoRecord /\ r.sub \in Subs /\ r.state \in States /\ r.at \in Nat
           /\ r.last \in Events /\ r.pending \in Events \cup {NoEvent} /\ r.version \in Nat
<1>1. r # NoRecord
  BY DEF Records, NoRecord
<1> QED BY <1>1 DEF Records

---------------------------------------------------------------------------
(* One call moves                                                          *)

\* What call h does concerns no other call's locals.
Touches(h) ==
    /\ step' = [step EXCEPT ![h] = step'[h]] /\ base' = [base EXCEPT ![h] = base'[h]]
    /\ draft' = [draft EXCEPT ![h] = draft'[h]] /\ outcome' = [outcome EXCEPT ![h] = outcome'[h]]
    /\ tries' = [tries EXCEPT ![h] = tries'[h]]
    /\ snapshot' = [snapshot EXCEPT ![h] = snapshot'[h]]

\* The locals of call h have their types.
LocalsOK(h) ==
    /\ step[h] \in Steps /\ base[h] \in Nat /\ draft[h] \in Records \cup {NoRecord}
    /\ outcome[h] \in Outcomes /\ tries[h] \in 0..MaxCasRetries
    /\ snapshot[h] \in States \cup {"none"}

\* The world stays as it is.
LEMMA SameWorld ==
    ASSUME world' = world
    PROVE  /\ Events' = Events /\ Records' = Records /\ Subs' = Subs /\ Timeline' = Timeline
           /\ MaxCasRetries' = MaxCasRetries /\ MaxFaults' = MaxFaults
           /\ \A e : Kind(e)' = Kind(e) /\ At(e)' = At(e) /\ To(e)' = To(e) /\ Sub(e)' = Sub(e)
BY DEF Events, Records, Subs, Timeline, MaxCasRetries, MaxFaults, Kind, At, To, Sub

\* The listener forgets nothing.
LEMMA AnsweredStays ==
    ASSUME TypeOK, world' = world, NEW e \in AllEvents, Answered(e), told[e] \subseteq told'[e]
    PROVE  Answered(e)'
BY SameWorld DEF Answered

\* The other calls keep their types.
LEMMA LocalTypes ==
    ASSUME TypeOK, NEW h \in Calls, Touches(h), LocalsOK(h)', world' = world
    PROVE  /\ step' \in [Calls -> Steps] /\ base' \in [Calls -> Nat]
           /\ draft' \in [Calls -> Records \cup {NoRecord}]
           /\ outcome' \in [Calls -> Outcomes] /\ tries' \in [Calls -> 0..MaxCasRetries]
           /\ snapshot' \in [Calls -> States \cup {"none"}]
           /\ \A g \in Calls \ {h} :
                /\ step'[g] = step[g] /\ base'[g] = base[g] /\ draft'[g] = draft[g]
                /\ outcome'[g] = outcome[g] /\ snapshot'[g] = snapshot[g]
<1>1. /\ step'[h] \in Steps /\ base'[h] \in Nat /\ draft'[h] \in Records \cup {NoRecord}
      /\ outcome'[h] \in Outcomes /\ tries'[h] \in 0..MaxCasRetries
      /\ snapshot'[h] \in States \cup {"none"}
  BY SameWorld DEF LocalsOK
<1> QED BY <1>1 DEF TypeOK, Touches

\* What a save stores, and what it means for the others.
LEMMA Stored ==
    ASSUME IInv, NEW h \in Calls, Saving(h), SaveIfVersion(draft[h], base[h])
    PROVE  /\ record' = draft[h] /\ record' \in Records /\ record' # NoRecord /\ Marked(draft[h])
           /\ record = NoRecord => record'.version = 0
           /\ record # NoRecord =>
                /\ record'.version = record.version + 1 /\ record'.at >= record.at
                /\ record'.last = record.last \/ "applied" \in told[record.last]
<1>1. /\ DraftFits(h) /\ record' = draft[h] /\ draft[h] \in Records
  BY DEF IInv, SaveIfVersion, DraftFits
<1>2. record' # NoRecord /\ Marked(draft[h])
  BY <1>1, RecordFacts DEF DraftFits
<1> QED BY <1>1, <1>2 DEF DraftFits, SaveIfVersion

\* A mark that fits keeps fitting.
LEMMA MarkedStays ==
    ASSUME TypeOK, NEW r \in Records, Marked(r), \A e \in AllEvents : told[e] \subseteq told'[e]
    PROVE  r.pending \in {NoEvent, r.last} /\ (r.pending = NoEvent => "applied" \in told'[r.last])
<1>1. r.last \in AllEvents
  BY RecordFacts, WorldFacts DEF TypeOK
<1> QED BY <1>1 DEF Marked

\* Another call keeps fitting.
LEMMA OthersFit ==
    ASSUME IInv, NEW h \in Calls, NEW g \in Calls, world' = world, emitted' = emitted,
           step'[g] = step[g], base'[g] = base[g], draft'[g] = draft[g],
           outcome'[g] = outcome[g], snapshot'[g] = snapshot[g],
           \A e \in AllEvents : told[e] \subseteq told'[e],
           \A e \in AllEvents : claims[e] = <<"done">> => claims'[e] = <<"done">>,
           record' = record \/ (Saving(h) /\ SaveIfVersion(draft[h], base[h]))
    PROVE  CallFits(g)' /\ DraftFits(g)'
<1>1. /\ CallFits(g) /\ DraftFits(g) /\ TypeOK /\ Event(g) \in AllEvents
  BY EventFacts DEF IInv
<1>2. record # NoRecord => record' # NoRecord
  BY Stored
<1>3. CallFits(g)'
  BY <1>1, <1>2, SameWorld DEF CallFits
<1>4. ASSUME Saving(g) PROVE DraftFits(g)'
  <2>1. /\ draft[g] \in Records /\ Marked(draft[g]) /\ Records' = Records
        /\ draft[g].version \in Nat /\ base[g] \in Nat
    BY <1>1, <1>4, SameWorld, RecordFacts DEF DraftFits, TypeOK
  <2>2. Marked(draft[g])'
    <3>1. draft[g].pending \in {NoEvent, draft[g].last}
      BY <2>1 DEF Marked
    <3>2. draft[g].pending = NoEvent => "applied" \in told'[draft[g].last]
      BY <1>1, <2>1, MarkedStays
    <3>3. PICK r \in Records : r = draft[g]
      BY <2>1
    <3>4. draft'[g] = r
      BY <3>3
    <3> QED BY <3>1, <3>2 DEF Marked
  <2>3. CASE record' = record
    <3>1. record # NoRecord => record.last \in AllEvents
      BY <1>1, RecordFacts, WorldFacts DEF TypeOK
    <3> QED BY <1>1, <1>4, <2>1, <2>2, <2>3, <3>1 DEF DraftFits
  <2>4. CASE Saving(h) /\ SaveIfVersion(draft[h], base[h])
    <3>1. /\ record' # NoRecord
          /\ record = NoRecord => record'.version = 0 /\ base[g] = 0 /\ draft[g].version = 0
          /\ record # NoRecord => record'.version = record.version + 1
                                  /\ base[g] <= record.version /\ record.version \in Nat
      BY <1>1, <1>4, <2>4, Stored, RecordFacts DEF DraftFits, TypeOK
    <3>2. /\ base[g] <= record'.version
          /\ ~(record'.version = base[g] /\ draft[g].version = base[g] + 1)
      BY <2>1, <3>1
    <3> QED BY <1>4, <2>1, <2>2, <3>1, <3>2 DEF DraftFits
  <2> QED BY <2>3, <2>4
<1>5. ASSUME ~Saving(g) PROVE DraftFits(g)'
  BY <1>5 DEF Saving, DraftFits
<1> QED BY <1>3, <1>4, <1>5

\* The step of a call leaves the invariant true if what it does to itself fits
\* and what it tells, completes and acknowledges is so.
LEMMA CallMoves ==
    ASSUME IInv, NEW h \in Calls, Touches(h), LocalsOK(h)', CallFits(h)', DraftFits(h)',
           world' = world, emitted' = emitted, faults' \in 0..MaxFaults,
           claims' \in [AllEvents -> Holders], told' \in [AllEvents -> SUBSET Outcomes],
           acked' \subseteq Events,
           \A e \in AllEvents : told[e] \subseteq told'[e],
           \A e \in AllEvents : claims[e] = <<"done">> => claims'[e] = <<"done">>,
           \A e \in AllEvents : claims'[e] = <<"done">> => claims[e] = <<"done">> \/ Answered(e)',
           \A e \in acked' : e \in acked \/ Answered(e)',
           record' = record \/ (Saving(h) /\ SaveIfVersion(draft[h], base[h]))
    PROVE  IInv'
<1>1. /\ TypeOK /\ HasNewest /\ acked \subseteq AllEvents
      /\ Records' = Records /\ Events' = Events
      /\ MaxCasRetries' = MaxCasRetries /\ MaxFaults' = MaxFaults /\ Timeline' = Timeline
  <2>1. TypeOK /\ HasNewest
    BY DEF IInv
  <2> QED BY <2>1, WorldFacts, SameWorld DEF TypeOK
<1>2. record' \in Records \cup {NoRecord}
  BY <1>1, Stored DEF TypeOK
<1>3. TypeOK'
  <2>1. /\ step' \in [Calls -> Steps] /\ base' \in [Calls -> Nat]
        /\ draft' \in [Calls -> Records \cup {NoRecord}]
        /\ outcome' \in [Calls -> Outcomes] /\ tries' \in [Calls -> 0..MaxCasRetries]
        /\ snapshot' \in [Calls -> States \cup {"none"}]
    BY <1>1, LocalTypes
  <2> QED BY <1>1, <1>2, <2>1 DEF TypeOK
<1>4. HasNewest'
  BY <1>1, SameWorld DEF HasNewest
<1>5. ASSUME record' # NoRecord PROVE Marked(record)'
  <2>1. PICK r \in Records : r = record'
    BY <1>2, <1>5
  <2>2. Marked(r)
    <3>1. CASE record' = record
      <4>1. r = record /\ record # NoRecord
        BY <1>5, <2>1, <3>1
      <4>2. Marked(record)
        BY <4>1 DEF IInv
      <4> QED BY <4>1, <4>2 DEF Marked
    <3>2. CASE Saving(h) /\ SaveIfVersion(draft[h], base[h])
      <4>1. r = draft[h] /\ Marked(draft[h])
        BY <2>1, <3>2, Stored
      <4> QED BY <4>1 DEF Marked
    <3> QED BY <3>1, <3>2
  <2>3. r.pending \in {NoEvent, r.last} /\ (r.pending = NoEvent => "applied" \in told'[r.last])
    BY <1>1, <2>2, MarkedStays
  <2> QED BY <2>1, <2>3 DEF Marked
<1>6. ASSUME NEW e \in AllEvents, Answered(e) PROVE Answered(e)'
  BY <1>1, <1>6, AnsweredStays
<1>7. /\ \A e \in AllEvents : claims'[e] = <<"done">> => Answered(e)'
      /\ \A e \in acked' : Answered(e)'
  BY <1>1, <1>6 DEF IInv
<1>8. ASSUME NEW g \in Calls PROVE CallFits(g)' /\ DraftFits(g)'
  <2>1. CASE g = h
    BY <2>1
  <2>2. CASE g # h
    <3>1. /\ step'[g] = step[g] /\ base'[g] = base[g] /\ draft'[g] = draft[g]
          /\ outcome'[g] = outcome[g] /\ snapshot'[g] = snapshot[g]
      BY <1>1, <2>2, LocalTypes
    <3> QED BY <3>1, OthersFit
  <2> QED BY <2>1, <2>2
<1> QED BY <1>3, <1>4, <1>5, <1>7, <1>8 DEF IInv

\* A call that only changes its locals.
LEMMA LocalMoves ==
    ASSUME IInv, NEW h \in Calls, Touches(h), LocalsOK(h)', CallFits(h)', DraftFits(h)',
           faults' \in 0..MaxFaults, UNCHANGED <<world, emitted, record, claims, told, acked>>
    PROVE  IInv'
<1>1. TypeOK
  BY DEF IInv
<1>2. /\ claims' \in [AllEvents -> Holders] /\ told' \in [AllEvents -> SUBSET Outcomes]
      /\ acked' \subseteq Events
      /\ \A e \in AllEvents : told[e] \subseteq told'[e]
      /\ \A e \in AllEvents : claims[e] = <<"done">> => claims'[e] = <<"done">>
      /\ \A e \in AllEvents : claims'[e] = <<"done">> => claims[e] = <<"done">>
      /\ \A e \in acked' : e \in acked
      /\ record' = record
  BY <1>1 DEF TypeOK
<1> QED BY <1>2, CallMoves

---------------------------------------------------------------------------
(* What a handler decides                                                  *)

\* What the invariant says of one call.
LEMMA Of ==
    ASSUME IInv, NEW h \in Calls
    PROVE  /\ TypeOK /\ LocalsOK(h) /\ CallFits(h) /\ DraftFits(h) /\ Event(h) \in AllEvents
           /\ record \in Records \cup {NoRecord} /\ record.version \in Nat
           /\ record # NoRecord => record \in Records /\ Marked(record)
           /\ faults \in 0..MaxFaults
           /\ step[h] # "idle" => Event(h) \in Events /\ Event(h) <= emitted
<1>1. TypeOK /\ CallFits(h) /\ DraftFits(h) /\ Event(h) \in AllEvents
  BY EventFacts DEF IInv
<1>2. LocalsOK(h)
  BY <1>1 DEF TypeOK, LocalsOK
<1>3. record.version \in Nat
  BY <1>1, RecordFacts DEF TypeOK, NoRecord
<1>4. record # NoRecord => record \in Records /\ Marked(record)
  BY <1>1 DEF TypeOK, IInv
<1>5. step[h] # "idle" => Event(h) \in Events /\ Event(h) <= emitted
  BY <1>1, IsEmitted DEF CallFits, TypeOK
<1> QED BY <1>1, <1>2, <1>3, <1>4, <1>5 DEF TypeOK

\* A call that saves nothing: what it emits is fit to be told.
LEMMA NotifyMoves ==
    ASSUME IInv, NEW h \in Calls, step[h] # "idle", NEW o \in {"applied", "dropped", "replay"},
           o = "replay" => Kind(Event(h)) = "deleted",
           Notify(h, o), UNCHANGED <<world, emitted, record, claims, told, acked, faults>>
    PROVE  IInv'
<1>1. /\ TypeOK /\ LocalsOK(h) /\ CallFits(h) /\ record.version \in Nat
      /\ faults' \in 0..MaxFaults
  BY Of
<1>2. /\ Touches(h) /\ step'[h] = "emit" /\ outcome'[h] = o /\ draft'[h] = NoRecord
      /\ base'[h] = record.version /\ tries'[h] = tries[h] /\ snapshot'[h] = snapshot[h]
  BY <1>1 DEF Notify, Go, Hold, Touches, TypeOK
<1>3. LocalsOK(h)'
  BY <1>1, <1>2, SameWorld DEF LocalsOK, Steps, Outcomes
<1>4. CallFits(h)'
  BY <1>1, <1>2, SameWorld DEF CallFits
<1>5. DraftFits(h)'
  BY <1>2 DEF DraftFits, Saving
<1> QED BY <1>1, <1>2, <1>3, <1>4, <1>5, LocalMoves

\* A call that fails before it has saved.
LEMMA ThrowMoves ==
    ASSUME IInv, NEW h \in Calls, step[h] # "idle", Throw(h),
           UNCHANGED <<world, emitted, record, claims, told, acked, faults>>
    PROVE  IInv'
<1>1. /\ TypeOK /\ LocalsOK(h) /\ CallFits(h) /\ record.version \in Nat
      /\ faults' \in 0..MaxFaults
  BY Of
<1>2. /\ Touches(h) /\ step'[h] = "release" /\ outcome'[h] = "none" /\ draft'[h] = NoRecord
      /\ base'[h] = record.version /\ tries'[h] = tries[h] /\ snapshot'[h] = snapshot[h]
  BY <1>1 DEF Throw, Go, Hold, Touches, TypeOK
<1>3. LocalsOK(h)'
  BY <1>1, <1>2, SameWorld DEF LocalsOK, Steps, Outcomes
<1>4. CallFits(h)'
  BY <1>1, <1>2, SameWorld DEF CallFits
<1>5. DraftFits(h)'
  BY <1>2 DEF DraftFits, Saving
<1> QED BY <1>1, <1>2, <1>3, <1>4, <1>5, LocalMoves

\* The record an event writes may follow the one that was loaded.
LEMMA AppliedFits ==
    ASSUME IInv, NEW e \in Events, NEW state \in States,
           record = NoRecord \/ (At(e) >= record.at /\ ~Blocked(e) /\ Bound(e) /\ record.last # e)
    PROVE  /\ Applied(e, state) \in Records /\ Marked(Applied(e, state))
           /\ record = NoRecord => record.version = 0 /\ Applied(e, state).version = 0
           /\ record # NoRecord =>
                /\ Applied(e, state).at >= record.at
                /\ "applied" \in told[record.last]
<1>1. /\ TypeOK /\ e # NoEvent /\ At(e) \in Nat /\ Sub(e) \in Subs
      /\ record # NoRecord => record \in Records /\ Marked(record) /\ record.version \in Nat
  BY WorldFacts, RecordFacts DEF IInv, TypeOK
<1>2. /\ Applied(e, state).at = At(e) /\ Applied(e, state).last = e
      /\ Applied(e, state).pending = e
      /\ Applied(e, state).version = IF record = NoRecord THEN 0 ELSE record.version + 1
  BY DEF Applied, Record
<1>3. Applied(e, state) \in Records
  BY <1>1 DEF Applied, Record, Records
<1>4. Marked(Applied(e, state))
  BY <1>1, <1>2 DEF Marked
<1>5. record # NoRecord => "applied" \in told[record.last]
  BY <1>1 DEF Blocked, Marked
<1> QED BY <1>2, <1>3, <1>4, <1>5 DEF NoRecord

\* A call is about to save the record its event writes.
LEMMA ApplyMoves ==
    ASSUME IInv, NEW h \in Calls, step[h] # "idle", NEW s \in {"save", "resave"},
           NEW state \in States, s = "resave" => snapshot[h] \in States,
           \/ record = NoRecord
           \/ At(Event(h)) >= record.at /\ ~Blocked(Event(h)) /\ Bound(Event(h))
                                        /\ record.last # Event(h),
           Go(h, s, "applied"), Hold(h, Applied(Event(h), state)),
           UNCHANGED <<world, emitted, record, claims, tries, snapshot, told, acked, faults>>
    PROVE  IInv'
<1>1. /\ TypeOK /\ LocalsOK(h) /\ CallFits(h) /\ record.version \in Nat
      /\ faults' \in 0..MaxFaults /\ Event(h) \in Events
  BY Of
<1>2. PICK d \in Records : d = Applied(Event(h), state)
  BY <1>1, AppliedFits
<1>3. /\ Marked(d)
      /\ record = NoRecord => record.version = 0 /\ d.version = 0
      /\ record # NoRecord => d.at >= record.at /\ "applied" \in told[record.last]
  BY <1>1, <1>2, AppliedFits
<1>4. /\ Touches(h) /\ step'[h] = s /\ outcome'[h] = "applied" /\ draft'[h] = d
      /\ base'[h] = record.version /\ tries'[h] = tries[h] /\ snapshot'[h] = snapshot[h]
  BY <1>1, <1>2 DEF Go, Hold, Touches, TypeOK
<1>5. LocalsOK(h)'
  BY <1>1, <1>4, SameWorld DEF LocalsOK, Steps, Outcomes
<1>6. CallFits(h)'
  BY <1>1, <1>4, SameWorld DEF CallFits
<1>7. Marked(draft[h])'
  BY <1>3, <1>4 DEF Marked
<1>8. DraftFits(h)'
  BY <1>1, <1>3, <1>4, <1>7, SameWorld DEF DraftFits
<1> QED BY <1>1, <1>4, <1>5, <1>6, <1>8, LocalMoves

---------------------------------------------------------------------------
(* Load, save and reconcile                                                *)

\* The record is loaded.
LEMMA LoadSteps ==
    ASSUME IInv, NEW h \in Calls,
           \/ LoadRejected(h) \/ LoadDropped(h) \/ LoadInvoice(h)
           \/ LoadAlreadyCanceled(h) \/ LoadApplies(h)
    PROVE  IInv'
<1>1. /\ TypeOK /\ Event(h) \in AllEvents
      /\ record # NoRecord => record \in Records
      /\ step[h] # "idle" => Event(h) \in Events
  BY Of
<1>2. CASE LoadRejected(h)
  BY <1>2, ThrowMoves DEF LoadRejected
<1>3. CASE LoadDropped(h)
  BY <1>3, NotifyMoves DEF LoadDropped
<1>4. CASE LoadInvoice(h)
  BY <1>4, NotifyMoves DEF LoadInvoice
<1>5. CASE LoadAlreadyCanceled(h)
  BY <1>5, NotifyMoves DEF LoadAlreadyCanceled, AlreadyCanceled
<1>6. CASE LoadApplies(h)
  <2>1. /\ step[h] = "load" /\ Go(h, "save", "applied") /\ Event(h) \in Events
        /\ UNCHANGED <<world, emitted, record, claims, tries, snapshot, told, acked, faults>>
        /\ Applies(Event(h))
    BY <1>1, <1>6 DEF LoadApplies
  <2>2. (IF record = NoRecord THEN To(Event(h)) ELSE Target(Event(h))) \in States
    <3>1. To(Event(h)) \in States /\ (record # NoRecord => record.state \in States)
      BY <1>1, <2>1, WorldFacts, RecordFacts DEF TypeOK
    <3>2. record # NoRecord => Target(Event(h)) \in States
      BY <3>1 DEF Target, States
    <3> QED BY <3>1, <3>2
  <2>3. PICK state \in States :
          state = IF record = NoRecord THEN To(Event(h)) ELSE Target(Event(h))
    BY <2>2
  <2>4. Hold(h, Applied(Event(h), state))
    BY <1>6, <2>3 DEF LoadApplies
  <2>5. \/ record = NoRecord
        \/ At(Event(h)) >= record.at /\ ~Blocked(Event(h)) /\ Bound(Event(h))
                                     /\ record.last # Event(h)
    <3> SUFFICES ASSUME record # NoRecord
                 PROVE  At(Event(h)) >= record.at /\ ~Blocked(Event(h)) /\ Bound(Event(h))
                                                  /\ record.last # Event(h)
      OBVIOUS
    <3>1. Newer(Event(h))
      BY <2>1 DEF Applies
    <3>2. At(Event(h)) \in Nat /\ record.at \in Nat
      BY <1>1, <2>1, WorldFacts, RecordFacts DEF TypeOK
    <3> QED BY <3>1, <3>2 DEF Newer, Older
  <2> QED BY <2>1, <2>4, <2>5, ApplyMoves
<1> QED BY <1>2, <1>3, <1>4, <1>5, <1>6

\* This event was saved before.
LEMMA RepeatedSteps ==
    ASSUME IInv, NEW h \in Calls, LoadRepeated(h) \/ ReloadRepeated(h)
    PROVE  IInv'
<1>1. /\ TypeOK /\ LocalsOK(h) /\ CallFits(h) /\ record.version \in Nat
      /\ faults' \in 0..MaxFaults
      /\ step[h] \in {"load", "reload"} /\ record # NoRecord /\ record \in Records
  BY Of DEF LoadRepeated, ReloadRepeated, Repeated, Bound
<1>2. /\ Touches(h) /\ step'[h] = "emit" /\ outcome'[h] = "applied" /\ draft'[h] = record
      /\ base'[h] = record.version /\ tries'[h] = tries[h] /\ snapshot'[h] = snapshot[h]
      /\ UNCHANGED <<world, emitted, record, claims, told, acked, faults>>
  BY <1>1 DEF LoadRepeated, ReloadRepeated, Go, Hold, Touches, TypeOK
<1>3. LocalsOK(h)'
  BY <1>1, <1>2, SameWorld DEF LocalsOK, Steps, Outcomes
<1>4. CallFits(h)'
  BY <1>1, <1>2, SameWorld DEF CallFits
<1>5. DraftFits(h)'
  BY <1>2 DEF DraftFits, Saving
<1> QED BY <1>1, <1>2, <1>3, <1>4, <1>5, LocalMoves

\* Stripe is asked, and answers with the newest state of the subscription.
LEMMA RetrieveSteps ==
    ASSUME IInv, NEW h \in Calls, LoadEqual(h) \/ Retrieve(h)
    PROVE  IInv'
<1>1. /\ TypeOK /\ LocalsOK(h) /\ CallFits(h) /\ record.version \in Nat
      /\ faults' \in 0..MaxFaults /\ step[h] \in {"load", "retrieve"}
      /\ UNCHANGED <<world, emitted, record, claims, told, acked, faults>>
  BY Of DEF LoadEqual, Retrieve
<1>2. CASE LoadEqual(h)
  <2>1. /\ Touches(h) /\ step'[h] = "retrieve" /\ outcome'[h] = "none" /\ draft'[h] = NoRecord
        /\ base'[h] = record.version /\ tries'[h] = 0 /\ snapshot'[h] = snapshot[h]
    BY <1>1, <1>2 DEF LoadEqual, Go, Hold, Touches, TypeOK
  <2>2. LocalsOK(h)'
    BY <1>1, <2>1, SameWorld, WorldFacts DEF LocalsOK, Steps, Outcomes, TypeOK
  <2>3. CallFits(h)'
    BY <1>1, <2>1, SameWorld DEF CallFits
  <2>4. DraftFits(h)'
    BY <2>1 DEF DraftFits, Saving
  <2> QED BY <1>1, <2>1, <2>2, <2>3, <2>4, LocalMoves
<1>3. CASE Retrieve(h)
  <2>1. Truth(Sub(Event(h))) \in States
    <3>1. Event(h) \in 1..emitted /\ Event(h) \in Events /\ Sub(Event(h)) \in Subs
          /\ \A e \in 1..emitted : To(e) \in States
      <4>1. Event(h) \in 1..emitted /\ Event(h) \in Events
        BY <1>1, <1>3, Of DEF CallFits, Retrieve
      <4>2. 1..emitted \subseteq Events
        BY <1>1, WorldFacts DEF TypeOK
      <4>3. \A e \in Events : To(e) \in States /\ Sub(e) \in Subs
        BY <1>1, WorldFacts DEF TypeOK
      <4> QED BY <4>1, <4>2, <4>3
    <3>2. PICK sub \in Subs : sub = Sub(Event(h))
      BY <3>1
    <3>3. \E e \in {x \in 1..emitted : Sub(x) = sub} :
             \A d \in {x \in 1..emitted : Sub(x) = sub} : d <= e
      BY <3>1, <3>2 DEF IInv, HasNewest
    <3>4. Truth(sub) \in States
      BY <3>1, <3>3 DEF Truth
    <3> QED BY <3>2, <3>4
  <2>2. /\ Touches(h) /\ step'[h] = "reload" /\ outcome'[h] = "none" /\ draft'[h] = draft[h]
        /\ base'[h] = base[h] /\ tries'[h] = tries[h] /\ snapshot'[h] = Truth(Sub(Event(h)))
    BY <1>1, <1>3 DEF Retrieve, Go, Touches, TypeOK
  <2>3. LocalsOK(h)'
    BY <1>1, <2>1, <2>2, SameWorld DEF LocalsOK, Steps, Outcomes
  <2>4. CallFits(h)'
    BY <1>1, <2>1, <2>2, SameWorld DEF CallFits
  <2>5. DraftFits(h)'
    BY <2>2 DEF DraftFits, Saving
  <2> QED BY <1>1, <2>2, <2>3, <2>4, <2>5, LocalMoves
<1> QED BY <1>2, <1>3

\* The record is loaded again.
LEMMA ReloadSteps ==
    ASSUME IInv, NEW h \in Calls, ReloadMoved(h) \/ ReloadRejected(h) \/ ReloadApplies(h)
    PROVE  IInv'
<1>1. CASE ReloadMoved(h)
  BY <1>1, NotifyMoves DEF ReloadMoved
<1>2. CASE ReloadRejected(h)
  BY <1>2, ThrowMoves DEF ReloadRejected
<1>3. CASE ReloadApplies(h)
  <2>1. /\ step[h] = "reload" /\ Go(h, "resave", "applied")
        /\ UNCHANGED <<world, emitted, record, claims, tries, snapshot, told, acked, faults>>
        /\ Equal(Event(h)) /\ snapshot[h] \in States /\ Event(h) \in Events
    BY <1>3, Of DEF ReloadApplies, CallFits
  <2>2. PICK state \in States : state = snapshot[h]
    BY <2>1
  <2>3. Hold(h, Applied(Event(h), state))
    BY <1>3, <2>2 DEF ReloadApplies
  <2>4. At(Event(h)) >= record.at /\ ~Blocked(Event(h)) /\ Bound(Event(h))
                                  /\ record.last # Event(h)
    <3>1. TypeOK
      BY Of
    <3> QED BY <2>1, <3>1, WorldFacts DEF Equal, TypeOK
  <2> QED BY <2>1, <2>3, <2>4, ApplyMoves
<1> QED BY <1>1, <1>2, <1>3

\* A compare-and-set is lost.
LEMMA LostSteps ==
    ASSUME IInv, NEW h \in Calls, SaveLostDropped(h) \/ SaveLostRetried(h) \/ ClearLost(h)
    PROVE  IInv'
<1>1. /\ TypeOK /\ LocalsOK(h) /\ CallFits(h) /\ faults' \in 0..MaxFaults
  BY Of DEF SaveLostDropped, SaveLostRetried, ClearLost
<1>2. CASE SaveLostDropped(h)
  BY <1>2, NotifyMoves DEF SaveLostDropped
<1>3. CASE SaveLostRetried(h) \/ ClearLost(h)
  <2>1. /\ Touches(h)
        /\ \/ step[h] = "save" /\ step'[h] \in {"load", "release"} /\ outcome'[h] = "none"
           \/ step[h] = "resave" /\ step'[h] \in {"reload", "release"} /\ outcome'[h] = "none"
           \/ step[h] = "clearing" /\ step'[h] = "clear" /\ outcome'[h] = outcome[h]
           \/ step[h] = "clearing" /\ step'[h] = "release" /\ outcome'[h] = "none"
        /\ tries'[h] = tries[h] + 1 /\ tries[h] + 1 <= MaxCasRetries
        /\ draft'[h] = draft[h] /\ base'[h] = base[h] /\ snapshot'[h] = snapshot[h]
        /\ UNCHANGED <<world, emitted, record, claims, told, acked, faults>>
    <3>1. MaxCasRetries \in Nat /\ tries[h] \in Nat
      BY <1>1, WorldFacts DEF TypeOK, LocalsOK
    <3> QED BY <1>1, <1>3, <3>1 DEF SaveLostRetried, ClearLost, Go, Touches, TypeOK
  <2>2. LocalsOK(h)'
    BY <1>1, <2>1, SameWorld, WorldFacts DEF LocalsOK, Steps, Outcomes, TypeOK
  <2>3. CallFits(h)'
    BY <1>1, <2>1, SameWorld DEF CallFits
  <2>4. DraftFits(h)'
    BY <2>1 DEF DraftFits, Saving
  <2> QED BY <1>1, <2>1, <2>2, <2>3, <2>4, LocalMoves
<1> QED BY <1>2, <1>3

---------------------------------------------------------------------------
(* Save, tell, clear and end                                               *)

\* A compare-and-set succeeds.
LEMMA SaveSteps ==
    ASSUME IInv, NEW h \in Calls, Saved(h) \/ Cleared(h)
    PROVE  IInv'
<1>1. /\ TypeOK /\ LocalsOK(h) /\ CallFits(h) /\ faults' \in 0..MaxFaults
      /\ Saving(h) /\ SaveIfVersion(draft[h], base[h])
      /\ UNCHANGED <<world, emitted, claims, told, acked>>
  BY Of DEF Saved, Cleared, Saving
<1>2. /\ Touches(h)
      /\ \/ step'[h] = "emit" /\ outcome'[h] = "applied"
         \/ step[h] = "clearing" /\ step'[h] = "complete" /\ outcome'[h] = outcome[h]
      /\ draft'[h] = draft[h] /\ base'[h] = base[h] /\ tries'[h] = tries[h]
      /\ snapshot'[h] = snapshot[h]
  BY <1>1 DEF Saved, Cleared, Go, Touches, TypeOK
<1>3. record' # NoRecord
  BY <1>1, Stored
<1>4. LocalsOK(h)'
  BY <1>1, <1>2, SameWorld DEF LocalsOK, Steps, Outcomes
<1>5. CallFits(h)'
  BY <1>1, <1>2, <1>3, SameWorld DEF CallFits, Saving
<1>6. DraftFits(h)'
  BY <1>2 DEF DraftFits, Saving
<1>7. /\ claims' \in [AllEvents -> Holders] /\ told' \in [AllEvents -> SUBSET Outcomes]
      /\ acked' \subseteq Events
      /\ \A e \in AllEvents : told[e] \subseteq told'[e]
      /\ \A e \in AllEvents : claims'[e] = <<"done">> <=> claims[e] = <<"done">>
      /\ \A e \in acked' : e \in acked
  BY <1>1 DEF TypeOK
<1> QED BY <1>1, <1>2, <1>4, <1>5, <1>6, <1>7, CallMoves

\* The listener resolves.
LEMMA TellSteps ==
    ASSUME IInv, NEW h \in Calls, Emitted(h) \/ Replayed(h)
    PROVE  IInv'
<1>1. /\ TypeOK /\ LocalsOK(h) /\ CallFits(h) /\ faults' \in 0..MaxFaults
      /\ Event(h) \in AllEvents /\ Event(h) \in Events /\ step[h] \in {"emit", "replay"}
      /\ Tell(h) /\ UNCHANGED <<world, emitted, record, claims>>
  BY Of DEF Emitted, Replayed
<1>2. /\ told' \in [AllEvents -> SUBSET Outcomes]
      /\ \A e \in AllEvents : told[e] \subseteq told'[e]
      /\ outcome[h] \in told'[Event(h)]
  BY <1>1 DEF Tell, TypeOK, LocalsOK
<1>3. /\ claims' \in [AllEvents -> Holders] /\ claims' = claims /\ acked \subseteq Events
      /\ 0 \in 0..MaxCasRetries
  BY <1>1, WorldFacts DEF TypeOK
<1>4. CASE Emitted(h)
  <2>1. /\ Touches(h) /\ step'[h] \in {"clear", "complete"} /\ outcome'[h] = outcome[h]
        /\ step'[h] = "clear" => draft[h] # NoRecord
        /\ draft'[h] = draft[h] /\ base'[h] = base[h] /\ tries'[h] = 0
        /\ snapshot'[h] = snapshot[h] /\ acked' = acked /\ step[h] = "emit"
    BY <1>1, <1>4 DEF Emitted, Go, Touches, TypeOK
  <2>2. LocalsOK(h)'
    BY <1>1, <1>3, <2>1, SameWorld DEF LocalsOK, Steps
  <2>3. CallFits(h)'
    BY <1>1, <1>2, <2>1, SameWorld DEF CallFits
  <2>4. DraftFits(h)'
    BY <2>1 DEF DraftFits, Saving
  <2> QED BY <1>1, <1>2, <1>3, <2>1, <2>2, <2>3, <2>4, CallMoves
<1>5. CASE Replayed(h)
  <2>1. /\ Touches(h) /\ step'[h] = "idle" /\ outcome'[h] = "none" /\ draft'[h] = NoRecord
        /\ base'[h] = 0 /\ tries'[h] = 0 /\ snapshot'[h] = "none"
        /\ acked' = acked \cup {Event(h)} /\ step[h] = "replay"
    BY <1>1, <1>5 DEF Replayed, End, Go, Touches, TypeOK
  <2>2. LocalsOK(h)'
    BY <1>1, <1>3, <2>1, SameWorld DEF LocalsOK, Steps, Outcomes
  <2>3. CallFits(h)'
    BY <2>1 DEF CallFits
  <2>4. DraftFits(h)'
    BY <2>1 DEF DraftFits, Saving
  <2>5. Answered(Event(h))
    BY <1>1, <2>1 DEF IInv, CallFits
  <2>6. Answered(Event(h))'
    <3>1. PICK e \in AllEvents : e = Event(h)
      BY <1>1
    <3>2. Answered(e)'
      BY <1>1, <1>2, <2>5, <3>1, AnsweredStays
    <3> QED BY <3>1, <3>2
  <2>7. /\ acked' \subseteq Events
        /\ \A e \in acked' : e \in acked \/ Answered(e)'
    BY <1>1, <1>3, <2>1, <2>6
  <2> QED BY <1>1, <1>2, <1>3, <2>1, <2>2, <2>3, <2>4, <2>7, CallMoves
<1> QED BY <1>4, <1>5

\* clearPendingSubscriptionEvent loads the record.
LEMMA ClearStep ==
    ASSUME IInv, NEW h \in Calls, Clear(h)
    PROVE  IInv'
<1>1. /\ TypeOK /\ LocalsOK(h) /\ CallFits(h) /\ faults' \in 0..MaxFaults
      /\ step[h] = "clear" /\ UNCHANGED <<world, emitted, record, claims, told, acked>>
      /\ record \in Records /\ Marked(record) /\ record # NoRecord /\ record.version \in Nat
      /\ Event(h) \in Events
  BY Of DEF Clear, CallFits
<1>2. CASE Go(h, "complete", outcome[h]) \/ Go(h, "release", "none")
  <2>1. UNCHANGED <<base, draft, tries, snapshot>>
    BY <1>1, <1>2 DEF Clear, Go, TypeOK
  <2>2. /\ Touches(h)
        /\ \/ step'[h] = "complete" /\ outcome'[h] = outcome[h]
           \/ step'[h] = "release" /\ outcome'[h] = "none"
    BY <1>1, <1>2, <2>1 DEF Go, Touches, TypeOK
  <2>3. LocalsOK(h)'
    BY <1>1, <2>1, <2>2, SameWorld DEF LocalsOK, Steps, Outcomes
  <2>4. CallFits(h)'
    BY <1>1, <2>1, <2>2, SameWorld DEF CallFits
  <2>5. DraftFits(h)'
    BY <2>2 DEF DraftFits, Saving
  <2> QED BY <1>1, <2>2, <2>3, <2>4, <2>5, LocalMoves
<1>3. CASE ~(Go(h, "complete", outcome[h]) \/ Go(h, "release", "none"))
  <2>1. /\ record.pending = Event(h) /\ Go(h, "clearing", outcome[h])
        /\ Hold(h, Record(record.sub, record.state, record.at, record.last,
                          NoEvent, record.version + 1))
        /\ UNCHANGED <<tries, snapshot>>
    BY <1>3 DEF Clear
  <2>2. PICK d \in Records : d = Record(record.sub, record.state, record.at, record.last,
                                        NoEvent, record.version + 1)
    <3>1. /\ record.sub \in Subs /\ record.state \in States /\ record.at \in Nat
          /\ record.last \in Events /\ NoEvent \in Events \cup {NoEvent}
          /\ record.version + 1 \in Nat
      BY <1>1, RecordFacts
    <3> QED BY <3>1 DEF Record, Records
  <2>3. /\ d.at = record.at /\ d.last = record.last /\ d.pending = NoEvent
        /\ d.version = record.version + 1 /\ record.at \in Nat
    BY <1>1, <2>2, RecordFacts DEF Record
  <2>4. /\ Touches(h) /\ step'[h] = "clearing" /\ outcome'[h] = outcome[h] /\ draft'[h] = d
        /\ base'[h] = record.version /\ tries'[h] = tries[h] /\ snapshot'[h] = snapshot[h]
    BY <1>1, <2>1, <2>2 DEF Go, Hold, Touches, TypeOK
  <2>5. LocalsOK(h)'
    BY <1>1, <2>4, SameWorld DEF LocalsOK, Steps
  <2>6. CallFits(h)'
    BY <1>1, <2>4, SameWorld DEF CallFits
  <2>7. "applied" \in told[record.last]
    <3>1. record.last = Event(h)
      BY <1>1, <2>1, WorldFacts DEF Marked, TypeOK
    <3> QED BY <1>1, <3>1 DEF CallFits
  <2>8. Marked(draft[h])'
    BY <1>1, <2>3, <2>4, <2>7 DEF Marked
  <2>9. DraftFits(h)'
    BY <1>1, <2>3, <2>4, <2>8, SameWorld DEF DraftFits
  <2> QED BY <1>1, <2>4, <2>5, <2>6, <2>9, LocalMoves
<1> QED BY <1>2, <1>3

\* A call is idle again, and its claim is as it was, free or, if its event was
\* answered, completed.
LEMMA EndMoves ==
    ASSUME IInv, NEW h \in Calls, End(h), UNCHANGED <<world, emitted, record, told>>,
           faults' \in 0..MaxFaults, NEW claim \in {claims[Event(h)], <<"free">>, <<"done">>},
           claims[Event(h)] = <<"done">> => claim = <<"done">>,
           claim = <<"done">> => claims[Event(h)] = <<"done">> \/ Answered(Event(h)),
           claims' = [claims EXCEPT ![Event(h)] = claim],
           acked' = acked \/ (acked' = acked \cup {Event(h)} /\ Answered(Event(h))
                                                             /\ Event(h) \in Events)
    PROVE  IInv'
<1>1. TypeOK /\ Event(h) \in AllEvents
  BY Of
<1>2. /\ Touches(h) /\ step'[h] = "idle" /\ outcome'[h] = "none" /\ draft'[h] = NoRecord
      /\ base'[h] = 0 /\ tries'[h] = 0 /\ snapshot'[h] = "none"
  BY <1>1 DEF End, Go, Touches, TypeOK
<1>3. LocalsOK(h)'
  BY <1>1, <1>2, SameWorld, WorldFacts DEF LocalsOK, Steps, Outcomes, TypeOK
<1>4. CallFits(h)'
  BY <1>2 DEF CallFits
<1>5. DraftFits(h)'
  BY <1>2 DEF DraftFits, Saving
<1>6. \A e \in AllEvents : Answered(e) => Answered(e)'
  <2>1. ASSUME NEW e \in AllEvents, Answered(e) PROVE Answered(e)'
    BY <1>1, <2>1, AnsweredStays
  <2> QED BY <2>1
<1>7. /\ claims' \in [AllEvents -> Holders] /\ told' \in [AllEvents -> SUBSET Outcomes]
      /\ acked' \subseteq Events
      /\ \A e \in AllEvents : told[e] \subseteq told'[e]
      /\ \A e \in AllEvents : claims[e] = <<"done">> => claims'[e] = <<"done">>
      /\ \A e \in AllEvents : claims'[e] = <<"done">> => claims[e] = <<"done">> \/ Answered(e)
      /\ \A e \in acked' : e \in acked \/ (Answered(e) /\ e \in AllEvents)
  BY <1>1 DEF TypeOK, Holders
<1> QED BY <1>2, <1>3, <1>4, <1>5, <1>6, <1>7, CallMoves

\* dispatch begins with a claim.
LEMMA ClaimSteps ==
    ASSUME IInv, NEW h \in Calls, Claim(h) \/ ClaimCompleted(h)
    PROVE  IInv'
<1>1. /\ TypeOK /\ LocalsOK(h) /\ CallFits(h) /\ faults' \in 0..MaxFaults
      /\ Event(h) \in AllEvents /\ Delivered(h) /\ step[h] = "idle"
      /\ UNCHANGED <<world, emitted, record, base, draft, tries, snapshot, told, acked, faults>>
  BY Of DEF Claim, ClaimCompleted
<1>2. Event(h) \in 1..emitted
  BY <1>1, IsEmitted DEF Delivered
<1>3. /\ Touches(h)
      /\ \/ step'[h] = "emit" /\ outcome'[h] = "applied"
         \/ step'[h] = "load" /\ outcome'[h] = "none"
         \/ step'[h] = "replay" /\ outcome'[h] = "replay" /\ claims[Event(h)] = <<"done">>
      /\ draft'[h] = draft[h] /\ base'[h] = base[h] /\ tries'[h] = tries[h]
      /\ snapshot'[h] = snapshot[h]
  BY <1>1 DEF Claim, ClaimCompleted, Go, Touches, TypeOK
<1>4. /\ claims' \in [AllEvents -> Holders]
      /\ \A e \in AllEvents : claims'[e] = <<"done">> <=> claims[e] = <<"done">>
  <2>1. CASE Claim(h)
    <3>1. /\ claims' = [claims EXCEPT ![Event(h)] = h] /\ claims[Event(h)] = <<"free">>
          /\ claims \in [AllEvents -> Holders]
      BY <1>1, <2>1 DEF Claim, TypeOK
    <3>2. h # <<"done">> /\ <<"free">> # <<"done">> /\ h \in Holders
      BY EventFacts DEF Holders
    <3> QED BY <1>1, <3>1, <3>2
  <2>2. CASE ClaimCompleted(h)
    BY <1>1, <2>2 DEF ClaimCompleted, TypeOK
  <2> QED BY <2>1, <2>2
<1>5. LocalsOK(h)'
  BY <1>1, <1>3, SameWorld DEF LocalsOK, Steps, Outcomes
<1>6. CallFits(h)'
  BY <1>1, <1>2, <1>3, <1>4, SameWorld DEF CallFits
<1>7. DraftFits(h)'
  BY <1>3 DEF DraftFits, Saving
<1>8. /\ told' \in [AllEvents -> SUBSET Outcomes] /\ acked' \subseteq Events
      /\ \A e \in AllEvents : told[e] \subseteq told'[e]
      /\ \A e \in acked' : e \in acked
  BY <1>1 DEF TypeOK
<1> QED BY <1>1, <1>3, <1>4, <1>5, <1>6, <1>7, <1>8, CallMoves

\* A call fails behind its claim: the catch block follows.
LEMMA CatchMoves ==
    ASSUME IInv, NEW h \in Calls, Go(h, "release", "none"), step[h] # "idle",
           UNCHANGED <<world, emitted, base, draft, tries, snapshot, acked>>,
           faults' \in 0..MaxFaults,
           told' = told \/ (step[h] = "emit" /\ Tell(h)),
           \/ claims' = claims
           \/ /\ claims' = [claims EXCEPT ![Event(h)] = <<"done">>]
              /\ Answered(Event(h)) /\ told' = told,
           record' = record \/ (Saving(h) /\ SaveIfVersion(draft[h], base[h]))
    PROVE  IInv'
<1>1. /\ TypeOK /\ LocalsOK(h) /\ CallFits(h) /\ Event(h) \in AllEvents
  BY Of
<1>2. /\ Touches(h) /\ step'[h] = "release" /\ outcome'[h] = "none"
      /\ draft'[h] = draft[h] /\ base'[h] = base[h] /\ tries'[h] = tries[h]
      /\ snapshot'[h] = snapshot[h]
  BY <1>1 DEF Go, Touches, TypeOK
<1>3. LocalsOK(h)'
  BY <1>1, <1>2, SameWorld DEF LocalsOK, Steps, Outcomes
<1>4. CallFits(h)'
  BY <1>1, <1>2 DEF CallFits
<1>5. DraftFits(h)'
  BY <1>2 DEF DraftFits, Saving
<1>6. /\ told' \in [AllEvents -> SUBSET Outcomes]
      /\ \A e \in AllEvents : told[e] \subseteq told'[e]
  BY <1>1 DEF Tell, TypeOK, LocalsOK
<1>7. \A e \in AllEvents : Answered(e) => Answered(e)'
  <2>1. ASSUME NEW e \in AllEvents, Answered(e) PROVE Answered(e)'
    BY <1>1, <1>6, <2>1, AnsweredStays
  <2> QED BY <2>1
<1>8. /\ claims' \in [AllEvents -> Holders] /\ acked' \subseteq Events
      /\ \A e \in AllEvents : claims[e] = <<"done">> => claims'[e] = <<"done">>
      /\ \A e \in AllEvents : claims'[e] = <<"done">> => claims[e] = <<"done">> \/ Answered(e)
      /\ \A e \in acked' : e \in acked
  BY <1>1 DEF TypeOK, Holders
<1> QED BY <1>2, <1>3, <1>4, <1>5, <1>6, <1>7, <1>8, CallMoves

\* What a call that completes has told the listener.
LEMMA CompleteIsAnswered ==
    ASSUME IInv, NEW h \in Calls, step[h] = "complete"
    PROVE  Answered(Event(h))
BY Of DEF CallFits, Answered

\* dispatch ends: with a completed claim, in the catch block or with its process.
LEMMA EndSteps ==
    ASSUME IInv, NEW h \in Calls, Complete(h) \/ Release(h) \/ Crash(h)
    PROVE  IInv'
<1>1. /\ TypeOK /\ LocalsOK(h) /\ CallFits(h) /\ Event(h) \in AllEvents /\ step[h] # "idle"
      /\ Event(h) \in Events /\ h # <<"done">> /\ h # <<"free">>
  BY Of, EventFacts DEF Complete, Release, Crash
<1>2. faults' \in 0..MaxFaults
  BY <1>1, WorldFacts DEF Complete, Release, Crash, Fault, TypeOK
<1>3. CASE Complete(h)
  <2>1. /\ step[h] = "complete" /\ Answered(Event(h))
        /\ UNCHANGED <<world, emitted, record, told, faults>>
    BY <1>3, CompleteIsAnswered DEF Complete
  <2>2. CASE claims[Event(h)] = h
    BY <1>1, <1>2, <1>3, <2>1, <2>2, EndMoves DEF Complete
  <2>3. CASE claims[Event(h)] # h
    BY <1>1, <1>2, <1>3, <2>1, <2>3, CatchMoves DEF Complete
  <2> QED BY <2>2, <2>3
<1>4. CASE Release(h) \/ Crash(h)
  <2>1. End(h) /\ UNCHANGED <<world, emitted, record, told, acked>>
    BY <1>4 DEF Release, Crash
  <2>2. \/ claims[Event(h)] = h /\ claims' = [claims EXCEPT ![Event(h)] = <<"free">>]
        \/ claims' = claims
    BY <1>4 DEF Release, Crash
  <2>3. PICK claim \in {claims[Event(h)], <<"free">>, <<"done">>} :
          /\ claims' = [claims EXCEPT ![Event(h)] = claim]
          /\ claims[Event(h)] = <<"done">> => claim = <<"done">>
          /\ claim = <<"done">> => claims[Event(h)] = <<"done">>
    <3>1. CASE claims[Event(h)] = h /\ claims' = [claims EXCEPT ![Event(h)] = <<"free">>]
      <4>1. <<"free">> # <<"done">>
        OBVIOUS
      <4> QED BY <1>1, <3>1, <4>1
    <3>2. CASE claims' = claims
      BY <1>1, <3>2 DEF TypeOK
    <3> QED BY <2>2, <3>1, <3>2
  <2> QED BY <1>2, <2>1, <2>3, EndMoves
<1> QED BY <1>3, <1>4

\* A store, Stripe or the listener fails a call.
LEMMA FailsStep ==
    ASSUME IInv, NEW h \in Calls, Fails(h)
    PROVE  IInv'
<1>1. TypeOK /\ Event(h) \in AllEvents
  BY Of
<1>2. /\ faults' \in 0..MaxFaults /\ step[h] # "idle" /\ Go(h, "release", "none")
      /\ UNCHANGED <<world, emitted, base, draft, tries, snapshot, acked>>
  BY <1>1, WorldFacts DEF Fails, Fault, TypeOK
<1>3. CASE UNCHANGED <<record, told, claims>>
  BY <1>2, <1>3, CatchMoves
<1>4. CASE step[h] = "emit" /\ Tell(h) /\ UNCHANGED <<record, claims>>
  BY <1>2, <1>4, CatchMoves
<1>5. CASE /\ step[h] \in {"save", "resave", "clearing"} /\ SaveIfVersion(draft[h], base[h])
           /\ UNCHANGED <<told, claims>>
  BY <1>2, <1>5, CatchMoves DEF Saving
<1>6. CASE /\ step[h] = "complete" /\ claims' = [claims EXCEPT ![Event(h)] = <<"done">>]
           /\ UNCHANGED <<record, told>>
  BY <1>2, <1>6, CompleteIsAnswered, CatchMoves
<1> QED BY <1>3, <1>4, <1>5, <1>6 DEF Fails

\* A claim is lost.
LEMMA LossSteps ==
    ASSUME IInv, NEW h \in Calls, Stall(h) \/ Lapse(h)
    PROVE  IInv'
<1>1. /\ TypeOK /\ LocalsOK(h) /\ CallFits(h) /\ Event(h) \in AllEvents
      /\ h # <<"done">> /\ DraftFits(h)
  BY Of, EventFacts
<1>2. /\ claims[Event(h)] = h /\ claims' = [claims EXCEPT ![Event(h)] = <<"free">>]
      /\ UNCHANGED <<world, emitted, record, told, acked>>
      /\ UNCHANGED <<step, base, draft, outcome, tries, snapshot>>
  BY DEF Stall, Lapse, calls
<1>3. faults' \in 0..MaxFaults
  BY <1>1, WorldFacts DEF Stall, Lapse, Fault, TypeOK
<1>4. Touches(h)
  BY <1>1, <1>2 DEF Touches, TypeOK
<1>5. LocalsOK(h)'
  BY <1>1, <1>2, SameWorld DEF LocalsOK
<1>6. CallFits(h)'
  BY <1>1, <1>2, SameWorld DEF CallFits
<1>7. DraftFits(h)'
  BY <1>1, <1>2, SameWorld DEF DraftFits, Saving, Marked
<1>8. /\ claims' \in [AllEvents -> Holders]
      /\ \A e \in AllEvents : claims[e] = <<"done">> => claims'[e] = <<"done">>
      /\ \A e \in AllEvents : claims'[e] = <<"done">> => claims[e] = <<"done">>
  <2>1. <<"free">> # <<"done">>
    OBVIOUS
  <2> QED BY <1>1, <1>2, <2>1 DEF TypeOK, Holders
<1>9. /\ told' \in [AllEvents -> SUBSET Outcomes] /\ acked' \subseteq Events
      /\ \A e \in AllEvents : told[e] \subseteq told'[e]
      /\ \A e \in acked' : e \in acked
  BY <1>1, <1>2 DEF TypeOK
<1> QED BY <1>2, <1>3, <1>4, <1>5, <1>6, <1>7, <1>8, <1>9, CallMoves

---------------------------------------------------------------------------
(* The invariant                                                           *)

\* Stripe goes on.
LEMMA StripeStep ==
    ASSUME IInv, StripeMoves
    PROVE  IInv'
<1>1. /\ TypeOK /\ emitted < Len(Timeline) /\ emitted' = emitted + 1
      /\ UNCHANGED <<world, record, claims, told, acked, faults>>
      /\ UNCHANGED <<step, base, draft, outcome, tries, snapshot>>
  BY DEF IInv, StripeMoves, calls
<1>2. /\ emitted \in Nat /\ emitted' \in 0..Len(Timeline)
      /\ 1..emitted' = 1..emitted \cup {emitted + 1}
  BY <1>1, WorldFacts DEF TypeOK
<1>3. TypeOK'
  BY <1>1, <1>2, SameWorld DEF TypeOK
<1>4. HasNewest'
  <2> SUFFICES ASSUME NEW sub \in Subs, {e \in 1..emitted' : Sub(e) = sub} # {}
               PROVE  \E e \in {e \in 1..emitted' : Sub(e) = sub} :
                         \A d \in {d \in 1..emitted' : Sub(d) = sub} : d <= e
    BY <1>1, SameWorld DEF HasNewest
  <2>1. CASE Sub(emitted + 1) = sub
    <3>1. emitted + 1 \in {x \in 1..emitted' : Sub(x) = sub}
      BY <1>2, <2>1
    <3>2. \A d \in {x \in 1..emitted' : Sub(x) = sub} : d <= emitted + 1
      BY <1>1, <1>2
    <3> QED BY <3>1, <3>2
  <2>2. CASE Sub(emitted + 1) # sub
    <3>1. {x \in 1..emitted' : Sub(x) = sub} = {x \in 1..emitted : Sub(x) = sub}
      BY <1>2, <2>2
    <3>2. {x \in 1..emitted : Sub(x) = sub} # {} =>
            \E e \in {x \in 1..emitted : Sub(x) = sub} :
               \A d \in {x \in 1..emitted : Sub(x) = sub} : d <= e
      BY DEF IInv, HasNewest
    <3> QED BY <3>1, <3>2
  <2> QED BY <2>1, <2>2
<1>5. ASSUME NEW h \in Calls PROVE CallFits(h)' /\ DraftFits(h)'
  <2>1. CallFits(h) /\ DraftFits(h)
    BY DEF IInv
  <2>2. CallFits(h)'
    BY <1>1, <1>2, <2>1, SameWorld DEF CallFits
  <2>3. DraftFits(h)'
    BY <1>1, <2>1, SameWorld DEF DraftFits, Saving, Marked
  <2> QED BY <2>2, <2>3
<1>6. \A e : Answered(e)' <=> Answered(e)
  BY <1>1, SameWorld DEF Answered
<1>7. record' # NoRecord => Marked(record)'
  BY <1>1 DEF IInv, Marked
<1> QED BY <1>1, <1>3, <1>4, <1>5, <1>6, <1>7 DEF IInv

\* Nothing happens.
LEMMA StutterStep ==
    ASSUME IInv, UNCHANGED vars
    PROVE  IInv'
<1>1. /\ UNCHANGED <<world, emitted, record, claims, told, acked, faults>>
      /\ UNCHANGED <<step, base, draft, outcome, tries, snapshot>>
  BY DEF vars, calls
<1>2. TypeOK' /\ HasNewest'
  <2>1. TypeOK /\ HasNewest
    BY DEF IInv
  <2>2. TypeOK'
    BY <1>1, <2>1, SameWorld DEF TypeOK
  <2>3. HasNewest'
    BY <1>1, <2>1, SameWorld DEF HasNewest
  <2> QED BY <2>2, <2>3
<1>3. ASSUME NEW h \in Calls PROVE CallFits(h)' /\ DraftFits(h)'
  BY <1>1, SameWorld DEF IInv, CallFits, DraftFits, Saving, Marked
<1>4. \A e : Answered(e)' <=> Answered(e)
  BY <1>1, SameWorld DEF Answered
<1>5. record' # NoRecord => Marked(record)'
  BY <1>1 DEF IInv, Marked
<1> QED BY <1>1, <1>2, <1>3, <1>4, <1>5 DEF IInv

\* Before the first delivery.
LEMMA InitEstablishes == Init => IInv
<1> SUFFICES ASSUME Init PROVE IInv
  OBVIOUS
<1>1. world \in Worlds /\ MaxCasRetries \in Nat /\ MaxFaults \in Nat /\ Len(Timeline) \in Nat
  BY WorldFacts DEF Init
<1>2. TypeOK
  BY <1>1 DEF Init, TypeOK, Holders, Steps, Outcomes
<1>3. HasNewest
  BY DEF Init, HasNewest
<1>4. ASSUME NEW e \in AllEvents PROVE claims[e] # <<"done">>
  <2>1. <<"free">> # <<"done">>
    OBVIOUS
  <2> QED BY <2>1 DEF Init
<1>5. ASSUME NEW h \in Calls PROVE CallFits(h) /\ DraftFits(h)
  BY DEF Init, CallFits, DraftFits, Saving
<1> QED BY <1>2, <1>3, <1>4, <1>5 DEF IInv, Init

\* The inductive step.
LEMMA InvariantStep ==
    ASSUME IInv, [Next]_vars
    PROVE  IInv'
<1>1. ASSUME NEW h \in Calls, Dispatch(h) PROVE IInv'
  <2>1. CASE Claim(h) \/ ClaimCompleted(h)
    BY <2>1, ClaimSteps
  <2>2. CASE LoadRejected(h) \/ LoadDropped(h) \/ LoadInvoice(h) \/ LoadAlreadyCanceled(h)
             \/ LoadApplies(h)
    BY <2>2, LoadSteps
  <2>3. CASE LoadRepeated(h) \/ ReloadRepeated(h)
    BY <2>3, RepeatedSteps
  <2>4. CASE LoadEqual(h) \/ Retrieve(h)
    BY <2>4, RetrieveSteps
  <2>5. CASE ReloadMoved(h) \/ ReloadRejected(h) \/ ReloadApplies(h)
    BY <2>5, ReloadSteps
  <2>6. CASE SaveLostDropped(h) \/ SaveLostRetried(h) \/ ClearLost(h)
    BY <2>6, LostSteps
  <2>7. CASE Saved(h) \/ Cleared(h)
    BY <2>7, SaveSteps
  <2>8. CASE Emitted(h) \/ Replayed(h)
    BY <2>8, TellSteps
  <2>9. CASE Clear(h)
    BY <2>9, ClearStep
  <2>10. CASE Complete(h) \/ Release(h)
    BY <2>10, EndSteps
  <2> QED
    BY <1>1, <2>1, <2>2, <2>3, <2>4, <2>5, <2>6, <2>7, <2>8, <2>9, <2>10 DEF Dispatch
<1>2. ASSUME NEW h \in Calls, Fails(h) \/ Crash(h) \/ Stall(h) \/ Lapse(h) PROVE IInv'
  BY <1>2, FailsStep, EndSteps, LossSteps
<1> QED BY <1>1, <1>2, StripeStep, StutterStep DEF Next

\* Every state of the dispatcher satisfies the invariant.
LEMMA Invariant == Spec => []IInv
BY InitEstablishes, InvariantStep, PTL DEF Spec

\* Only a compare-and-set that finds the version it expects changes the record.
LEMMA RecordChanges ==
    ASSUME Next, record' # record
    PROVE  \E h \in Calls : Saving(h) /\ SaveIfVersion(draft[h], base[h])
<1>1. PICK h \in Calls : Dispatch(h) \/ Fails(h)
  BY DEF Next, Crash, Stall, Lapse, StripeMoves
<1>2. CASE Saved(h) \/ Cleared(h) \/ Fails(h)
  BY <1>1, <1>2 DEF Saved, Cleared, Fails, Saving
<1>3. CASE ~(Saved(h) \/ Cleared(h) \/ Fails(h))
  <2>1. record' = record
    BY <1>1, <1>3 DEF Dispatch, Claim, ClaimCompleted, LoadRejected, LoadDropped, LoadInvoice,
       LoadRepeated, LoadAlreadyCanceled, LoadApplies, LoadEqual, SaveLostDropped,
       SaveLostRetried, Retrieve, ReloadMoved, ReloadRejected, ReloadRepeated, ReloadApplies,
       Emitted, Replayed, Clear, ClearLost, Complete, Release
  <2> QED BY <2>1
<1> QED BY <1>2, <1>3

\* The record, the claims, the calls and what the listener has heard keep their
\* types, for any timelines, regions and failures.
THEOREM BillingTypeCorrect == Spec => []TypeOK
<1>1. IInv => TypeOK
  BY DEF IInv
<1> QED BY <1>1, Invariant, PTL

\* dispatch() returns, and Stripe stops delivering, only when the listener has
\* heard of the event for what it is.
THEOREM AcknowledgedAreTold == Spec => []AckedEventsAreTold
<1>1. IInv => AckedEventsAreTold
  BY DEF IInv, AckedEventsAreTold, Answered
<1> QED BY <1>1, Invariant, PTL

\* pendingEventId: no event replaces another one in the record before the
\* listener has heard of it.
THEOREM AppliedAreTold == Spec => AppliedEventsAreTold
<1>1. ASSUME IInv, [Next]_vars
      PROVE  [record # NoRecord /\ record'.last # record.last =>
                "applied" \in told[record.last]]_vars
  <2>1. CASE record' = record
    BY <2>1
  <2>2. CASE record' # record
    <3>1. Next
      BY <1>1, <2>2 DEF vars
    <3>2. PICK h \in Calls : Saving(h) /\ SaveIfVersion(draft[h], base[h])
      BY <2>2, <3>1, RecordChanges
    <3> QED BY <1>1, <3>2, Stored
  <2> QED BY <2>1, <2>2
<1> QED BY <1>1, Invariant, PTL DEF Spec, AppliedEventsAreTold

\* The record moves to newer events and higher versions only, whatever was
\* loaded before it is saved.
THEOREM RecordMovesForward == Spec => RecordNeverGoesBack
<1>1. ASSUME IInv, [Next]_vars
      PROVE  [record # NoRecord =>
                record'.at >= record.at /\ record'.version >= record.version]_vars
  <2> SUFFICES ASSUME record # NoRecord
               PROVE  record'.at >= record.at /\ record'.version >= record.version
    OBVIOUS
  <2>1. record \in Records /\ record.at \in Nat /\ record.version \in Nat
    BY <1>1, RecordFacts DEF IInv, TypeOK
  <2>2. CASE record' = record
    BY <2>1, <2>2
  <2>3. CASE record' # record
    <3>1. Next
      BY <1>1, <2>3 DEF vars
    <3>2. PICK h \in Calls : Saving(h) /\ SaveIfVersion(draft[h], base[h])
      BY <2>3, <3>1, RecordChanges
    <3> QED BY <1>1, <2>1, <3>2, Stored
  <2> QED BY <2>2, <2>3
<1> QED BY <1>1, Invariant, PTL DEF Spec, RecordNeverGoesBack
---------------------------------------------------------------------------
(* Timelines the record follows to their end                               *)

\* Events whose handlers save the record, and those that change its state.
Writes(e) == Kind(e) \notin {"invoice", "other"}
Changes(e) == Writes(e) /\ Kind(e) # "trial_will_end"

\* The type of an event and the state it carries agree.
SaysItsState(e) ==
    /\ Kind(e) = "deleted" => To(e) = "canceled"
    /\ Kind(e) = "paused" => To(e) = "paused"
    /\ Kind(e) = "resumed" => To(e) = "active"

\* Stripe has one subscription, whose state last changes with event L, in a
\* second of its own, from states that TRANSITIONS lets go there.  A created
\* event comes first; before a cancellation no two changes share a second, and
\* a notice of the trial's end follows L only if the state has been the same
\* from the start.
LastChange(L) ==
    /\ Changes(L)
    /\ \A d, e \in Events : Sub(d) = Sub(e)
    /\ \A e \in Events : SaysItsState(e)
    /\ Kind(L) = "created" => L = 1
    /\ \A e \in Events : e < L =>
          /\ Writes(e) => At(e) < At(L)
          /\ isValidTransition(To(e), To(L))
    /\ \A e \in Events : e > L =>
          /\ Writes(e) => At(e) > At(L)
          /\ ~Changes(e) /\ To(e) = To(L)
          /\ Writes(e) => \A d \in Events : To(d) = To(L)
    /\ Kind(L) = "deleted" =>
          \A c, d \in Events : c < L /\ d < L /\ c # d /\ Writes(c) /\ Writes(d) => At(c) # At(d)

Orderly == \E L \in Events : LastChange(L)

\* A record some event has written, L at the latest if it is that recent.
Fit(L, r) ==
    /\ r.last \in Events /\ Writes(r.last) /\ r.at = At(r.last)
    /\ \E k \in Events : r.state = To(k)
    /\ r.at >= At(L) => r.state = To(L)

\* The record holds what L says.
Settled(L) ==
    /\ record # NoRecord
    /\ record.at >= At(L) \/ (Kind(L) = "deleted" /\ record.state = "canceled")

\* A cancellation that is saved is not undone by what a call is about to save.
KeepsCanceled(L, h) ==
    Kind(L) = "deleted" /\ Saving(h) /\ record # NoRecord /\ record.version = base[h]
        /\ draft[h].version = base[h] + 1 /\ record.state = "canceled"
    => draft[h].state = "canceled"

\* What a call saves fits, and it leaves L only when the record is settled.
CallSettles(L, h) ==
    /\ Saving(h) => Fit(L, draft[h])
    /\ step[h] \in {"save", "resave"} => draft[h].at = At(Event(h))
    /\ KeepsCanceled(L, h)
    /\ step[h] \in {"load", "save"} => Kind(Event(h)) # "other"
    /\ step[h] \in {"retrieve", "reload", "resave"} =>
          /\ Writes(Event(h)) /\ Event(h) # L
          /\ Kind(L) = "deleted" => Event(h) > L
    /\ step[h] \in {"reload", "resave"} =>
          /\ \E k \in Events : snapshot[h] = To(k)
          /\ Event(h) > L => snapshot[h] = To(L)
    /\ step[h] \in {"emit", "clear", "clearing", "complete"} /\ Event(h) = L => Settled(L)

\* The inductive invariant of convergence.
Settles(L) ==
    /\ record # NoRecord => Fit(L, record)
    /\ L \in acked \/ claims[L] = <<"done">> => Settled(L)
    /\ \A h \in Calls : CallSettles(L, h)

\* The timeline stays as it is.
LEMMA SameLast ==
    ASSUME world' = world, NEW L
    PROVE  LastChange(L)' <=> LastChange(L)
BY DEF LastChange, Changes, Writes, SaysItsState, isValidTransition, TRANSITIONS, Kind, At, To,
   Sub, Timeline, Events

\* Times and places of events order them the same way around L.
LEMMA AroundLast ==
    ASSUME TypeOK, NEW L \in Events, LastChange(L), NEW e \in Events
    PROVE  /\ Writes(e) /\ At(e) >= At(L) => e >= L
           /\ Writes(e) /\ At(e) = At(L) => e = L
           /\ Writes(e) /\ e >= L => At(e) >= At(L)
           /\ e >= L => To(e) = To(L)
           /\ e > L => ~Changes(e)
           /\ isValidTransition(To(e), To(L))
<1>1. /\ L \in Nat /\ e \in Nat /\ At(L) \in Nat /\ At(e) \in Nat
  BY WorldFacts DEF TypeOK
<1>2. CASE e < L
  <2>1. (Writes(e) => At(e) < At(L)) /\ isValidTransition(To(e), To(L))
    BY <1>2 DEF LastChange
  <2> QED BY <1>1, <1>2, <2>1
<1>3. CASE e > L
  <2>1. (Writes(e) => At(e) > At(L)) /\ ~Changes(e) /\ To(e) = To(L)
    BY <1>3 DEF LastChange
  <2> QED BY <1>1, <1>3, <2>1 DEF isValidTransition
<1>4. CASE e = L
  BY <1>1, <1>4 DEF isValidTransition
<1> QED BY <1>1, <1>2, <1>3, <1>4

\* With one subscription no event is foreign, and none binds the record again.
LEMMA OneSubscription ==
    ASSUME TypeOK, NEW L \in Events, LastChange(L), record # NoRecord, NEW e \in Events
    PROVE  record.sub = Sub(e) /\ ~Foreign(e) /\ ~Rebinds(e) /\ Bound(e)
<1>1. record.sub \in Subs
  BY RecordFacts DEF TypeOK
<1>2. PICK d \in Events : record.sub = Sub(d)
  BY <1>1 DEF Subs, Sub
<1>3. record.sub = Sub(e)
  BY <1>2 DEF LastChange
<1> QED BY <1>3 DEF Foreign, Rebinds, Bound

\* What fits keeps fitting.
LEMMA FitStays ==
    ASSUME world' = world, NEW L, NEW r
    PROVE  Fit(L, r)' <=> Fit(L, r)
BY DEF Fit, Writes, Kind, At, To, Timeline, Events

\* What the invariant says of the record.
LEMMA RecordFits ==
    ASSUME IInv, NEW L \in Events, LastChange(L), Settles(L), record # NoRecord
    PROVE  /\ TypeOK /\ record \in Records /\ record.last \in Events /\ Writes(record.last)
           /\ record.at = At(record.last) /\ record.at \in Nat /\ At(L) \in Nat
           /\ record.last \in Nat /\ L \in Nat
           /\ record.at >= At(L) <=> record.last >= L
           /\ record.at >= At(L) => record.state = To(L)
           /\ \E k \in Events : record.state = To(k)
<1>1. /\ TypeOK /\ record \in Records /\ record.at \in Nat /\ At(L) \in Nat /\ L \in Nat
  BY RecordFacts, WorldFacts DEF IInv, TypeOK
<1>2. Fit(L, record)
  BY DEF Settles
<1>3. PICK e \in Events : e = record.last
  BY <1>2 DEF Fit
<1>4. e \in Nat /\ Writes(e) /\ record.at = At(e)
  BY <1>1, <1>2, <1>3, WorldFacts DEF Fit, TypeOK
<1>5. record.at >= At(L) <=> e >= L
  BY <1>1, <1>4, AroundLast
<1>6. (record.at >= At(L) => record.state = To(L)) /\ \E k \in Events : record.state = To(k)
  BY <1>2 DEF Fit
<1> QED BY <1>1, <1>3, <1>4, <1>5, <1>6

\* No event but L has its second, so a record that is neither older nor newer
\* holds it.
LEMMA LastIsAlone ==
    ASSUME IInv, NEW L \in Events, LastChange(L), Settles(L)
    PROVE  ~Equal(L)
<1> SUFFICES ASSUME Equal(L) PROVE FALSE
  OBVIOUS
<1>1. record # NoRecord /\ record.last # L /\ At(L) = record.at
  BY DEF Equal, Bound
<1>2. PICK e \in Events : e = record.last
  BY <1>1, RecordFits
<1>3. TypeOK /\ Writes(e) /\ At(e) = At(L)
  BY <1>1, <1>2, RecordFits
<1>4. e = L
  BY <1>3, AroundLast
<1> QED BY <1>1, <1>2, <1>4

\* L is never out of order: the record may go from any state it is in to L's.
LEMMA LastIsAccepted ==
    ASSUME IInv, NEW L \in Events, LastChange(L), Settles(L), Newer(L)
    PROVE  Accepts(L) /\ LegalEdge(L) /\ Target(L) = To(L)
<1>1. record # NoRecord
  BY DEF Newer, Bound
<1>2. /\ TypeOK /\ record.at \in Nat /\ At(L) \in Nat /\ record.last \in Nat /\ L \in Nat
      /\ record.last \in Events /\ record.at = At(record.last) /\ Writes(record.last)
  BY <1>1, RecordFits
<1>3. ~(record.at >= At(L))
  BY <1>2 DEF Newer, Older, Equal
<1>4. Kind(L) # "created"
  <2> SUFFICES ASSUME Kind(L) = "created" PROVE FALSE
    OBVIOUS
  <2>1. L = 1 /\ record.last >= 1
    BY <1>2, WorldFacts DEF LastChange, TypeOK
  <2> QED BY <1>1, <1>3, <2>1, RecordFits
<1>5. Accepts(L)
  BY <1>4 DEF Accepts
<1>6. Target(L) = To(L)
  <2>1. Changes(L) /\ SaysItsState(L)
    BY DEF LastChange
  <2> QED BY <2>1 DEF Target, Changes, Writes, SaysItsState
<1>7. PICK k \in Events : record.state = To(k)
  BY <1>1, RecordFits
<1>8. isValidTransition(record.state, To(L))
  BY <1>2, <1>7, AroundLast
<1> QED BY <1>5, <1>6, <1>8 DEF LegalEdge

\* A settled record stays settled: it only moves on, and no call undoes the
\* cancellation.
LEMMA SettledStays ==
    ASSUME IInv, NEW L \in Events, LastChange(L), Settles(L), NEW h \in Calls,
           world' = world, Settled(L),
           record' = record \/ (Saving(h) /\ SaveIfVersion(draft[h], base[h]))
    PROVE  Settled(L)'
<1>1. At(L)' = At(L) /\ Kind(L)' = Kind(L)
  BY SameWorld
<1>2. CASE record' = record
  BY <1>1, <1>2 DEF Settled
<1>3. CASE Saving(h) /\ SaveIfVersion(draft[h], base[h])
  <2>1. /\ record # NoRecord /\ record.at \in Nat /\ At(L) \in Nat /\ record.version \in Nat
        /\ record' = draft[h] /\ record' # NoRecord /\ record' \in Records
        /\ record'.at >= record.at /\ record'.version = record.version + 1
    BY <1>3, Stored, RecordFits, RecordFacts DEF Settled
  <2>2. record'.at \in Nat
    BY <2>1, RecordFacts
  <2>3. record.version = base[h]
    BY <1>3, <2>1 DEF SaveIfVersion
  <2>4. CASE record.at >= At(L)
    <3>1. record'.at >= At(L)
      BY <2>1, <2>2, <2>4
    <3> QED BY <1>1, <2>1, <3>1 DEF Settled
  <2>5. CASE Kind(L) = "deleted" /\ record.state = "canceled"
    <3>1. KeepsCanceled(L, h)
      BY DEF Settles, CallSettles
    <3>2. draft[h].state = "canceled"
      BY <1>3, <2>1, <2>3, <2>5, <3>1 DEF KeepsCanceled
    <3> QED BY <1>1, <2>1, <2>5, <3>2 DEF Settled
  <2> QED BY <2>4, <2>5 DEF Settled
<1> QED BY <1>2, <1>3

\* Another call leaves L only when the record is settled.
LEMMA OthersSettle ==
    ASSUME IInv, NEW L \in Events, LastChange(L), Settles(L), NEW h \in Calls, NEW g \in Calls,
           world' = world, step'[g] = step[g], base'[g] = base[g], draft'[g] = draft[g],
           snapshot'[g] = snapshot[g],
           record' = record \/ (Saving(h) /\ SaveIfVersion(draft[h], base[h]))
    PROVE  CallSettles(L, g)'
<1>1. CallSettles(L, g) /\ DraftFits(g) /\ TypeOK
  BY DEF Settles, IInv
<1>2. Saving(g)' => Fit(L, draft[g])'
  BY <1>1 DEF CallSettles, Saving, Fit, Writes, Kind, At, To, Timeline, Events
<1>3. KeepsCanceled(L, g)'
  <2>1. CASE record' = record
    BY <1>1, <2>1, SameWorld DEF CallSettles, KeepsCanceled, Saving
  <2>2. CASE Saving(h) /\ SaveIfVersion(draft[h], base[h])
    <3> SUFFICES ASSUME Saving(g) PROVE record'.version # base[g] \/ draft[g].version # base[g] + 1
      BY DEF KeepsCanceled, Saving
    <3>1. /\ draft[g].version \in Nat /\ base[g] \in Nat
          /\ record = NoRecord => base[g] = 0 /\ draft[g].version = 0
          /\ record # NoRecord => base[g] <= record.version /\ record.version \in Nat
      BY <1>1, RecordFacts DEF DraftFits, TypeOK
    <3>2. record # NoRecord => record'.version = record.version + 1
      BY <2>2, Stored
    <3> QED BY <3>1, <3>2
  <2> QED BY <2>1, <2>2
<1>4. Settled(L) => Settled(L)'
  BY SettledStays
<1>5. \A e : Writes(e)' = Writes(e)
  BY SameWorld DEF Writes
<1>6. /\ step'[g] \in {"save", "resave"} => draft'[g].at = At(Event(g))'
      /\ step'[g] \in {"load", "save"} => Kind(Event(g))' # "other"
      /\ step'[g] \in {"retrieve", "reload", "resave"} =>
            /\ Writes(Event(g))' /\ Event(g) # L
            /\ Kind(L)' = "deleted" => Event(g) > L
      /\ step'[g] \in {"emit", "clear", "clearing", "complete"} /\ Event(g) = L => Settled(L)'
  BY <1>1, <1>4, <1>5, SameWorld DEF CallSettles
<1>7. step'[g] \in {"reload", "resave"} =>
        /\ \E k \in Events' : snapshot'[g] = To(k)'
        /\ Event(g) > L => snapshot'[g] = To(L)'
  BY <1>1, SameWorld DEF CallSettles
<1> QED BY <1>2, <1>3, <1>6, <1>7 DEF CallSettles

\* The step of a call leaves the invariant true if what the call is about to do
\* is fit, and it is done with L only when the record is settled.
LEMMA CallGoes ==
    ASSUME IInv, NEW L \in Events, LastChange(L), Settles(L), NEW h \in Calls, world' = world,
           \A g \in Calls \ {h} :
              /\ step'[g] = step[g] /\ base'[g] = base[g] /\ draft'[g] = draft[g]
              /\ snapshot'[g] = snapshot[g],
           CallSettles(L, h)',
           record' = record \/ (Saving(h) /\ SaveIfVersion(draft[h], base[h])),
           L \in acked' => L \in acked \/ Settled(L)',
           claims'[L] = <<"done">> => claims[L] = <<"done">> \/ Settled(L)'
    PROVE  Settles(L)'
<1>1. Settled(L) => Settled(L)'
  BY SettledStays
<1>2. L \in acked' \/ claims'[L] = <<"done">> => Settled(L)'
  BY <1>1 DEF Settles
<1>3. record' # NoRecord => Fit(L, record)'
  <2>1. CASE record' = record
    BY <2>1 DEF Settles, Fit, Writes, Kind, At, To, Timeline, Events
  <2>2. CASE Saving(h) /\ SaveIfVersion(draft[h], base[h])
    <3>1. record' = draft[h] /\ Fit(L, draft[h])
      BY <2>2, Stored DEF Settles, CallSettles
    <3> QED BY <3>1 DEF Fit, Writes, Kind, At, To, Timeline, Events
  <2> QED BY <2>1, <2>2
<1>4. ASSUME NEW g \in Calls PROVE CallSettles(L, g)'
  <2>1. CASE g = h
    BY <2>1
  <2>2. CASE g # h
    BY <2>2, OthersSettle
  <2> QED BY <2>1, <2>2
<1> QED BY <1>2, <1>3, <1>4 DEF Settles

\* A call that saves nothing next: it goes to emit, clear or complete L only
\* when the record is settled, to retrieve or reload as its event allows.
LEMMA CallLeaves ==
    ASSUME NEW L, NEW h \in Calls, ~Saving(h)',
           step'[h] = "load" => Kind(Event(h))' # "other",
           step'[h] \notin {"retrieve", "reload"},
           step'[h] \in {"emit", "clear", "complete"} /\ Event(h) = L => Settled(L)'
    PROVE  CallSettles(L, h)'
BY DEF CallSettles, KeepsCanceled, Saving

\* The state a newer event gives the record: one Stripe has been in, L's if the
\* event is as recent as L, and canceled if the record is.
LEMMA TargetLeads ==
    ASSUME IInv, NEW L \in Events, LastChange(L), Settles(L),
           NEW e \in Events, Writes(e), Applies(e),
           NEW state, state = IF record = NoRecord THEN To(e) ELSE Target(e)
    PROVE  /\ \E k \in Events : state = To(k)
           /\ At(e) >= At(L) => state = To(L)
           /\ record # NoRecord /\ record.state = "canceled" => state = "canceled"
<1>1. TypeOK
  BY DEF IInv
<1>2. /\ L \in Nat /\ e \in Nat /\ SaysItsState(e) /\ Changes(L)
      /\ At(e) >= At(L) => e >= L
      /\ e >= L => To(e) = To(L)
  BY <1>1, AroundLast, WorldFacts DEF LastChange, TypeOK
<1>3. CASE record = NoRecord
  BY <1>2, <1>3
<1>4. CASE record # NoRecord
  <2>1. Newer(e) /\ LegalEdge(e) /\ ~Rebinds(e) /\ state = Target(e)
    BY <1>1, <1>4, OneSubscription DEF Applies
  <2>2. record.state = "canceled" => state = "canceled"
    BY <2>1 DEF LegalEdge, isValidTransition, TRANSITIONS
  <2>3. CASE Changes(e)
    <3>1. Target(e) = To(e)
      BY <1>2, <2>3 DEF Target, Changes, Writes, SaysItsState
    <3> QED BY <1>2, <1>4, <2>1, <2>2, <3>1
  <2>4. CASE ~Changes(e)
    <3>1. Kind(e) = "trial_will_end"
      BY <2>4 DEF Changes
    <3>2. Target(e) = record.state
      BY <3>1 DEF Target
    <3>3. PICK k \in Events : record.state = To(k)
      BY <1>4, RecordFits
    <3>4. ASSUME At(e) >= At(L) PROVE To(k) = To(L)
      <4>1. e > L
        BY <1>2, <2>4, <3>4
      <4> QED BY <4>1 DEF LastChange
    <3> QED BY <2>1, <2>2, <3>2, <3>3, <3>4
  <2> QED BY <2>3, <2>4
<1> QED BY <1>3, <1>4

\* Only a notice that follows a cancellation shares its second with the record.
LEMMA PeersFollowCancellation ==
    ASSUME IInv, NEW L \in Events, LastChange(L), Settles(L),
           NEW e \in Events, Writes(e), Equal(e)
    PROVE  e # L /\ (Kind(L) = "deleted" => e > L)
<1>1. e # L
  BY LastIsAlone
<1>2. /\ TypeOK /\ L \in Nat /\ e \in Nat /\ At(e) \in Nat
      /\ record # NoRecord /\ record.last # e /\ At(e) = record.at
  BY WorldFacts DEF IInv, TypeOK, Equal, Bound
<1>3. PICK d \in Events : d = record.last
  BY <1>2, RecordFits
<1>4. /\ Writes(d) /\ At(d) = At(e) /\ d # e /\ d \in Nat
      /\ record.at >= At(L) <=> d >= L
  BY <1>2, <1>3, RecordFits
<1>5. ASSUME Kind(L) = "deleted", ~(e > L) PROVE FALSE
  <2>1. e < L
    BY <1>1, <1>2, <1>5
  <2>2. At(e) < At(L) /\ At(L) \in Nat
    <3>1. At(L) \in Nat
      BY <1>2, WorldFacts DEF TypeOK
    <3> QED BY <2>1, <3>1 DEF LastChange
  <2>3. d < L
    BY <1>2, <1>4, <2>2
  <2> QED BY <1>4, <1>5, <2>1, <2>3 DEF LastChange
<1> QED BY <1>1, <1>5

\* A call is about to save what its event makes of the record.
LEMMA AppliedSettles ==
    ASSUME IInv, NEW L \in Events, LastChange(L), Settles(L), NEW h \in Calls,
           world' = world, record' = record, Event(h) \in Events, Writes(Event(h)),
           NEW state, draft'[h] = Applied(Event(h), state), base'[h] = record.version,
           \E k \in Events : state = To(k),
           At(Event(h)) >= At(L) => state = To(L),
           record # NoRecord /\ record.state = "canceled" /\ Kind(L) = "deleted"
              => state = "canceled",
           \/ step'[h] = "save"
           \/ /\ step'[h] = "resave" /\ snapshot'[h] = state /\ Event(h) # L
              /\ Kind(L) = "deleted" => Event(h) > L
    PROVE  CallSettles(L, h)'
<1>1. /\ draft'[h].last = Event(h) /\ draft'[h].at = At(Event(h)) /\ draft'[h].state = state
  BY DEF Applied, Record
<1>2. Fit(L, draft[h])'
  <2>1. PICK d : d = draft'[h]
    OBVIOUS
  <2>2. Fit(L, d)
    BY <1>1, <2>1 DEF Fit
  <2> QED BY <2>1, <2>2 DEF Fit, Writes, Kind, At, To, Timeline, Events
<1>3. KeepsCanceled(L, h)'
  BY <1>1, SameWorld DEF KeepsCanceled
<1>4. Writes(Event(h))' /\ Kind(Event(h))' # "other"
  BY SameWorld DEF Writes
<1>5. ASSUME step'[h] = "resave"
      PROVE  /\ \E k \in Events' : snapshot'[h] = To(k)'
             /\ Event(h) > L => snapshot'[h] = To(L)'
  <2>1. TypeOK /\ L \in Nat /\ Event(h) \in Nat /\ At(L) \in Nat /\ At(Event(h)) \in Nat
    BY WorldFacts DEF IInv, TypeOK
  <2>2. Event(h) > L => At(Event(h)) >= At(L)
    BY <2>1 DEF LastChange
  <2> QED BY <1>5, <2>2, SameWorld
<1> QED BY <1>1, <1>2, <1>3, <1>4, <1>5, SameWorld DEF CallSettles

\* A step of one call leaves the locals of the others alone.
LEMMA OthersStay ==
    ASSUME TypeOK, NEW h \in Calls, Touches(h)
    PROVE  \A g \in Calls \ {h} :
              /\ step'[g] = step[g] /\ base'[g] = base[g] /\ draft'[g] = draft[g]
              /\ snapshot'[g] = snapshot[g]
BY DEF TypeOK, Touches

\* A call that changes no more than its locals.
LEMMA CallGoesOn ==
    ASSUME IInv, NEW L \in Events, LastChange(L), Settles(L), NEW h \in Calls, Touches(h),
           UNCHANGED <<world, record, claims, acked>>, CallSettles(L, h)'
    PROVE  Settles(L)'
<1>1. TypeOK
  BY DEF IInv
<1>2. \A g \in Calls \ {h} :
         /\ step'[g] = step[g] /\ base'[g] = base[g] /\ draft'[g] = draft[g]
         /\ snapshot'[g] = snapshot[g]
  BY <1>1, OthersStay
<1> QED BY <1>2, CallGoes

\* The record is loaded.
LEMMA LoadSettles ==
    ASSUME IInv, NEW L \in Events, LastChange(L), Settles(L), NEW h \in Calls,
           \/ LoadRejected(h) \/ LoadDropped(h) \/ LoadInvoice(h) \/ LoadRepeated(h)
           \/ LoadAlreadyCanceled(h) \/ LoadApplies(h) \/ LoadEqual(h)
    PROVE  Settles(L)'
<1>1. /\ TypeOK /\ step[h] = "load" /\ Event(h) \in Events /\ Kind(Event(h)) # "other"
      /\ UNCHANGED <<world, record, claims, acked>>
  BY Of DEF Settles, CallSettles, LoadRejected, LoadDropped, LoadInvoice, LoadRepeated,
     LoadAlreadyCanceled, LoadApplies, LoadEqual
<1>2. Touches(h)
  BY <1>1 DEF LoadRejected, LoadDropped, LoadInvoice, LoadRepeated, LoadAlreadyCanceled,
     LoadApplies, LoadEqual, Notify, Throw, Go, Hold, Touches, TypeOK
<1>3. Settled(L)' <=> Settled(L)
  BY <1>1, SameWorld DEF Settled
<1>4. CASE LoadRejected(h)
  <2>1. step'[h] = "release"
    BY <1>1, <1>4 DEF LoadRejected, Throw, Go, TypeOK
  <2>2. CallSettles(L, h)'
    BY <2>1, CallLeaves DEF Saving
  <2> QED BY <1>1, <1>2, <2>2, CallGoesOn
<1>5. CASE LoadDropped(h) \/ LoadInvoice(h) \/ LoadRepeated(h) \/ LoadAlreadyCanceled(h)
  <2>1. step'[h] = "emit"
    BY <1>1, <1>5 DEF LoadDropped, LoadInvoice, LoadRepeated, LoadAlreadyCanceled, Notify, Go,
       TypeOK
  <2>2. ASSUME Event(h) = L PROVE Settled(L)
    <3>1. record # NoRecord /\ record.at \in Nat /\ At(L) \in Nat
      <4>1. record # NoRecord
        BY <1>5, <2>2 DEF LoadDropped, LoadInvoice, LoadRepeated, LoadAlreadyCanceled, Foreign,
           Older, OutOfOrder, Newer, Repeated, AlreadyCanceled, Bound
      <4> QED BY <4>1, RecordFits
    <3>2. Kind(L) # "invoice" /\ ~Foreign(L)
      BY <1>1, <3>1, OneSubscription DEF LastChange, Changes, Writes
    <3>3. ~OutOfOrder(L)
      BY LastIsAccepted DEF OutOfOrder
    <3>4. \/ Older(L) \/ Repeated(L) \/ AlreadyCanceled(L)
      BY <1>5, <2>2, <3>2, <3>3 DEF LoadDropped, LoadInvoice, LoadRepeated, LoadAlreadyCanceled
    <3>5. Older(L) => record.at >= At(L)
      BY <3>1 DEF Older
    <3>6. Repeated(L) => record.at >= At(L)
      BY <3>1, RecordFits DEF Repeated
    <3> QED BY <3>1, <3>4, <3>5, <3>6 DEF Settled, AlreadyCanceled
  <2>3. CallSettles(L, h)'
    BY <1>3, <2>1, <2>2, CallLeaves DEF Saving
  <2> QED BY <1>1, <1>2, <2>3, CallGoesOn
<1>6. CASE LoadApplies(h)
  <2>1. Writes(Event(h)) /\ Applies(Event(h))
    BY <1>1, <1>6 DEF LoadApplies, Writes
  <2>2. PICK state : state = IF record = NoRecord THEN To(Event(h)) ELSE Target(Event(h))
    OBVIOUS
  <2>3. /\ step'[h] = "save" /\ draft'[h] = Applied(Event(h), state)
        /\ base'[h] = record.version
    BY <1>1, <1>6, <2>2 DEF LoadApplies, Go, Hold, TypeOK
  <2>4. /\ \E k \in Events : state = To(k)
        /\ At(Event(h)) >= At(L) => state = To(L)
        /\ record # NoRecord /\ record.state = "canceled" => state = "canceled"
    BY <1>1, <2>1, <2>2, TargetLeads
  <2>5. CallSettles(L, h)'
    BY <1>1, <2>1, <2>3, <2>4, AppliedSettles
  <2> QED BY <1>1, <1>2, <2>5, CallGoesOn
<1>7. CASE LoadEqual(h)
  <2>1. step'[h] = "retrieve" /\ Writes(Event(h)) /\ Equal(Event(h))
    BY <1>1, <1>7 DEF LoadEqual, Go, TypeOK, Writes
  <2>2. Event(h) # L /\ (Kind(L) = "deleted" => Event(h) > L)
    BY <1>1, <2>1, PeersFollowCancellation
  <2>3. CallSettles(L, h)'
    BY <1>1, <2>1, <2>2, SameWorld DEF CallSettles, KeepsCanceled, Saving, Writes
  <2> QED BY <1>1, <1>2, <2>3, CallGoesOn
<1> QED BY <1>4, <1>5, <1>6, <1>7

\* Stripe's answer is a state it has been in, L's once L has happened.
LEMMA TruthLeads ==
    ASSUME IInv, NEW L \in Events, LastChange(L), NEW e \in 1..emitted,
           NEW t, t = Truth(Sub(e))
    PROVE  (\E k \in Events : t = To(k)) /\ (e > L => t = To(L))
<1>1. TypeOK /\ 1..emitted \subseteq Events /\ L \in Nat /\ e \in Nat
  BY WorldFacts DEF IInv, TypeOK
<1>2. PICK sub \in Subs : sub = Sub(e)
  BY <1>1, WorldFacts DEF TypeOK
<1>3. \E m \in {x \in 1..emitted : Sub(x) = sub} :
         \A d \in {x \in 1..emitted : Sub(x) = sub} : d <= m
  BY <1>2 DEF IInv, HasNewest
<1>4. PICK k \in {x \in 1..emitted : Sub(x) = sub} :
         t = To(k) /\ \A d \in {x \in 1..emitted : Sub(x) = sub} : d <= k
  <2>1. t = Truth(sub)
    BY <1>2
  <2> QED BY <1>3, <2>1 DEF Truth
<1>5. k \in Events /\ k \in Nat /\ e <= k
  BY <1>1, <1>2, <1>4
<1>6. e > L => To(k) = To(L)
  <2>1. e > L => k >= L
    BY <1>1, <1>5
  <2> QED BY <1>1, <1>5, <2>1, AroundLast
<1> QED BY <1>4, <1>5, <1>6

\* Stripe is asked.
LEMMA RetrieveSettles ==
    ASSUME IInv, NEW L \in Events, LastChange(L), Settles(L), NEW h \in Calls, Retrieve(h)
    PROVE  Settles(L)'
<1>1. /\ TypeOK /\ step[h] = "retrieve" /\ Event(h) \in 1..emitted
      /\ UNCHANGED <<world, record, claims, acked>>
      /\ Writes(Event(h)) /\ Event(h) # L /\ (Kind(L) = "deleted" => Event(h) > L)
  BY Of DEF Settles, CallSettles, Retrieve, CallFits
<1>2. PICK t : t = Truth(Sub(Event(h)))
  OBVIOUS
<1>3. /\ Touches(h) /\ step'[h] = "reload" /\ snapshot'[h] = t
  BY <1>1, <1>2 DEF Retrieve, Go, Touches, TypeOK
<1>4. (\E k \in Events : t = To(k)) /\ (Event(h) > L => t = To(L))
  BY <1>1, <1>2, TruthLeads
<1>5. CallSettles(L, h)'
  BY <1>1, <1>3, <1>4, SameWorld DEF CallSettles, KeepsCanceled, Saving, Writes
<1> QED BY <1>1, <1>3, <1>5, CallGoesOn

\* The record is loaded again.
LEMMA ReloadSettles ==
    ASSUME IInv, NEW L \in Events, LastChange(L), Settles(L), NEW h \in Calls,
           ReloadMoved(h) \/ ReloadRejected(h) \/ ReloadRepeated(h) \/ ReloadApplies(h)
    PROVE  Settles(L)'
<1>1. /\ TypeOK /\ step[h] = "reload" /\ Event(h) \in Events
      /\ UNCHANGED <<world, record, claims, acked>>
      /\ Writes(Event(h)) /\ Event(h) # L /\ (Kind(L) = "deleted" => Event(h) > L)
      /\ \E k \in Events : snapshot[h] = To(k)
      /\ Event(h) > L => snapshot[h] = To(L)
  BY Of DEF Settles, CallSettles, ReloadMoved, ReloadRejected, ReloadRepeated, ReloadApplies
<1>2. Touches(h)
  BY <1>1 DEF ReloadMoved, ReloadRejected, ReloadRepeated, ReloadApplies, Notify, Throw, Go,
     Hold, Touches, TypeOK
<1>3. CASE ReloadMoved(h) \/ ReloadRejected(h) \/ ReloadRepeated(h)
  <2>1. step'[h] \in {"emit", "release"}
    BY <1>1, <1>3 DEF ReloadMoved, ReloadRejected, ReloadRepeated, Notify, Throw, Go, TypeOK
  <2>2. CallSettles(L, h)'
    BY <1>1, <2>1, CallLeaves DEF Saving
  <2> QED BY <1>1, <1>2, <2>2, CallGoesOn
<1>4. CASE ReloadApplies(h)
  <2>1. PICK state : state = snapshot[h]
    OBVIOUS
  <2>2. /\ step'[h] = "resave" /\ draft'[h] = Applied(Event(h), state)
        /\ base'[h] = record.version /\ snapshot'[h] = state
    BY <1>1, <1>4, <2>1 DEF ReloadApplies, Go, Hold, TypeOK
  <2>3. At(Event(h)) >= At(L) => state = To(L)
    <3>1. L \in Nat /\ Event(h) \in Nat
      BY <1>1, WorldFacts DEF TypeOK
    <3>2. At(Event(h)) >= At(L) => Event(h) >= L
      BY <1>1, AroundLast
    <3> QED BY <1>1, <2>1, <3>1, <3>2
  <2>4. Kind(L) = "deleted" => state = "canceled"
    BY <1>1, <2>1 DEF LastChange, SaysItsState
  <2>5. CallSettles(L, h)'
    BY <1>1, <2>1, <2>2, <2>3, <2>4, AppliedSettles
  <2> QED BY <1>1, <1>2, <2>5, CallGoesOn
<1> QED BY <1>3, <1>4

\* A compare-and-set is lost.
LEMMA LostSettles ==
    ASSUME IInv, NEW L \in Events, LastChange(L), Settles(L), NEW h \in Calls,
           SaveLostDropped(h) \/ SaveLostRetried(h) \/ ClearLost(h)
    PROVE  Settles(L)'
<1>1. /\ TypeOK /\ CallSettles(L, h) /\ UNCHANGED <<world, record, claims, acked>>
      /\ step[h] \in {"save", "resave", "clearing"}
  BY Of DEF Settles, SaveLostDropped, SaveLostRetried, ClearLost
<1>2. Touches(h)
  BY <1>1 DEF SaveLostDropped, SaveLostRetried, ClearLost, Notify, Go, Hold, Touches, TypeOK
<1>3. Settled(L)' <=> Settled(L)
  BY <1>1, SameWorld DEF Settled
<1>4. CASE SaveLostDropped(h)
  <2>1. step'[h] = "emit" /\ record # NoRecord
    BY <1>1, <1>4 DEF SaveLostDropped, SaveRefused, Notify, Go, TypeOK
  <2>2. ASSUME Event(h) = L PROVE Settled(L)
    <3>1. Kind(L) = "created"
      BY <1>4, <2>2 DEF SaveLostDropped, LastChange, Changes
    <3>2. L = 1 /\ record.last >= 1
      <4>1. L = 1
        BY <3>1 DEF LastChange
      <4>2. \A e \in Events : e >= 1
        BY <1>1, WorldFacts DEF TypeOK
      <4>3. record.last \in Events
        BY <2>1, RecordFits
      <4> QED BY <4>1, <4>2, <4>3
    <3>3. record.at >= At(L)
      BY <2>1, <3>2, RecordFits
    <3> QED BY <2>1, <3>3 DEF Settled
  <2>3. CallSettles(L, h)'
    BY <1>3, <2>1, <2>2, CallLeaves DEF Saving
  <2> QED BY <1>1, <1>2, <2>3, CallGoesOn
<1>5. CASE SaveLostRetried(h) \/ ClearLost(h)
  <2>1. /\ \/ step[h] = "save" /\ step'[h] \in {"load", "release"}
           \/ step[h] = "resave" /\ step'[h] \in {"reload", "release"}
           \/ step[h] = "clearing" /\ step'[h] \in {"clear", "release"}
        /\ snapshot'[h] = snapshot[h]
    BY <1>1, <1>5 DEF SaveLostRetried, ClearLost, Go, TypeOK
  <2>2. CASE step'[h] # "reload"
    <3>1. CallSettles(L, h)'
      BY <1>1, <1>3, <2>1, <2>2, CallLeaves, SameWorld DEF CallSettles, Saving
    <3> QED BY <1>1, <1>2, <3>1, CallGoesOn
  <2>3. CASE step'[h] = "reload"
    <3>1. CallSettles(L, h)'
      BY <1>1, <2>1, <2>3, SameWorld DEF CallSettles, KeepsCanceled, Saving, Writes
    <3> QED BY <1>1, <1>2, <3>1, CallGoesOn
  <2> QED BY <2>2, <2>3
<1> QED BY <1>4, <1>5

\* A compare-and-set succeeds.
LEMMA SaveSettles ==
    ASSUME IInv, NEW L \in Events, LastChange(L), Settles(L), NEW h \in Calls,
           Saved(h) \/ Cleared(h)
    PROVE  Settles(L)'
<1>1. /\ TypeOK /\ CallSettles(L, h) /\ UNCHANGED <<world, claims, acked>>
      /\ Saving(h) /\ SaveIfVersion(draft[h], base[h])
  BY Of DEF Settles, Saved, Cleared, Saving
<1>2. Touches(h) /\ step'[h] \in {"emit", "complete"}
  BY <1>1 DEF Saved, Cleared, Go, Touches, TypeOK
<1>3. ASSUME Event(h) = L PROVE Settled(L)'
  <2>1. CASE Saved(h)
    <3>1. record' = draft[h] /\ record' # NoRecord /\ record'.at = At(L) /\ At(L) \in Nat
      BY <1>1, <1>3, <2>1, Stored, WorldFacts DEF Saved, CallSettles, TypeOK
    <3>2. record'.at >= At(L)'
      BY <1>1, <3>1, SameWorld
    <3> QED BY <3>1, <3>2 DEF Settled
  <2>2. CASE Cleared(h)
    <3>1. Settled(L)
      BY <1>1, <1>3, <2>2 DEF Cleared, CallSettles
    <3> QED BY <1>1, <3>1, SettledStays
  <2> QED BY <2>1, <2>2
<1>4. CallSettles(L, h)'
  BY <1>2, <1>3, CallLeaves DEF Saving
<1>5. \A g \in Calls \ {h} :
         /\ step'[g] = step[g] /\ base'[g] = base[g] /\ draft'[g] = draft[g]
         /\ snapshot'[g] = snapshot[g]
  BY <1>1, <1>2, OthersStay
<1> QED BY <1>1, <1>4, <1>5, CallGoes

---------------------------------------------------------------------------
(* The steps around the record                                             *)

\* The listener resolves: what a completed claim stands for is settled.
LEMMA TellSettles ==
    ASSUME IInv, NEW L \in Events, LastChange(L), Settles(L), NEW h \in Calls,
           Emitted(h) \/ Replayed(h)
    PROVE  Settles(L)'
<1>1. /\ TypeOK /\ CallSettles(L, h) /\ CallFits(h) /\ UNCHANGED <<world, record, claims>>
      /\ step[h] \in {"emit", "replay"} /\ Event(h) \in Events
  BY Of DEF Settles, Emitted, Replayed
<1>2. Touches(h)
  BY <1>1 DEF Emitted, Replayed, End, Go, Touches, TypeOK
<1>3. Settled(L)' <=> Settled(L)
  BY <1>1, SameWorld DEF Settled
<1>4. CASE Emitted(h)
  <2>1. step[h] = "emit" /\ step'[h] \in {"clear", "complete"} /\ acked' = acked
    BY <1>1, <1>4 DEF Emitted, Go, TypeOK
  <2>2. CallSettles(L, h)'
    BY <1>1, <1>3, <2>1, CallLeaves DEF CallSettles, Saving
  <2> QED BY <1>1, <1>2, <2>1, <2>2, CallGoesOn
<1>5. CASE Replayed(h)
  <2>1. step[h] = "replay" /\ step'[h] = "idle" /\ acked' = acked \cup {Event(h)}
    BY <1>1, <1>5 DEF Replayed, End, Go, TypeOK
  <2>2. CallSettles(L, h)'
    BY <2>1, CallLeaves DEF Saving
  <2>3. L \in acked' => L \in acked \/ Settled(L)'
    BY <1>1, <1>3, <2>1 DEF Settles, CallFits
  <2>4. \A g \in Calls \ {h} :
           /\ step'[g] = step[g] /\ base'[g] = base[g] /\ draft'[g] = draft[g]
           /\ snapshot'[g] = snapshot[g]
    BY <1>1, <1>2, OthersStay
  <2> QED BY <1>1, <2>2, <2>3, <2>4, CallGoes
<1> QED BY <1>4, <1>5

\* clearPendingSubscriptionEvent saves the record as it is, but for its mark.
LEMMA ClearSettles ==
    ASSUME IInv, NEW L \in Events, LastChange(L), Settles(L), NEW h \in Calls, Clear(h)
    PROVE  Settles(L)'
<1>1. /\ TypeOK /\ CallSettles(L, h) /\ UNCHANGED <<world, record, claims, acked>>
      /\ step[h] = "clear" /\ record # NoRecord
  BY Of DEF Settles, Clear, CallFits
<1>2. Touches(h)
  BY <1>1 DEF Clear, Hold, Go, Touches, TypeOK
<1>3. Settled(L)' <=> Settled(L)
  BY <1>1, SameWorld DEF Settled
<1>4. CASE step'[h] \in {"complete", "release"}
  <2>1. CallSettles(L, h)'
    BY <1>1, <1>3, <1>4, CallLeaves DEF CallSettles, Saving
  <2> QED BY <1>1, <1>2, <2>1, CallGoesOn
<1>5. CASE ~(step'[h] \in {"complete", "release"})
  <2>1. /\ step'[h] = "clearing"
        /\ draft'[h].last = record.last /\ draft'[h].at = record.at
        /\ draft'[h].state = record.state
    BY <1>1, <1>5 DEF Clear, Hold, Go, Record, TypeOK
  <2>2. Fit(L, draft[h])'
    <3>1. Fit(L, record)
      BY <1>1 DEF Settles
    <3> QED BY <1>1, <2>1, <3>1 DEF Fit, Writes, Kind, At, To, Timeline, Events
  <2>3. KeepsCanceled(L, h)'
    BY <1>1, <2>1 DEF KeepsCanceled
  <2>4. CallSettles(L, h)'
    BY <1>1, <1>3, <2>1, <2>2, <2>3 DEF CallSettles
  <2> QED BY <1>1, <1>2, <2>4, CallGoesOn
<1> QED BY <1>4, <1>5

\* claimStatus answers.
LEMMA ClaimSettles ==
    ASSUME IInv, NEW L \in Events, LastChange(L), Settles(L), NEW h \in Calls,
           Claim(h) \/ ClaimCompleted(h)
    PROVE  Settles(L)'
<1>1. /\ TypeOK /\ Event(h) \in AllEvents /\ h # <<"done">>
      /\ UNCHANGED <<world, record, acked>>
  BY Of, EventFacts DEF Claim, ClaimCompleted
<1>2. Touches(h)
  BY <1>1 DEF Claim, ClaimCompleted, Go, Touches, TypeOK
<1>3. /\ ~Saving(h)' /\ step'[h] \in {"emit", "load", "replay"}
      /\ step'[h] = "emit" => Kind(Event(h)) = "other"
      /\ step'[h] = "load" => Kind(Event(h)) # "other"
  BY <1>1 DEF Claim, ClaimCompleted, Go, TypeOK, Saving
<1>4. Kind(L) # "other"
  BY DEF LastChange, Changes, Writes
<1>5. CallSettles(L, h)'
  BY <1>1, <1>3, <1>4, SameWorld, CallLeaves
<1>6. claims'[L] = <<"done">> => claims[L] = <<"done">>
  <2>1. L \in AllEvents
    BY <1>1, WorldFacts DEF TypeOK
  <2> QED BY <1>1, <2>1 DEF Claim, ClaimCompleted, TypeOK
<1>7. \A g \in Calls \ {h} :
         /\ step'[g] = step[g] /\ base'[g] = base[g] /\ draft'[g] = draft[g]
         /\ snapshot'[g] = snapshot[g]
  BY <1>1, <1>2, OthersStay
<1> QED BY <1>1, <1>5, <1>6, <1>7, CallGoes

\* dispatch ends, with a completed claim only when the record is settled, or it
\* fails; a failed save may have reached the store.
LEMMA EndSettles ==
    ASSUME IInv, NEW L \in Events, LastChange(L), Settles(L), NEW h \in Calls,
           Complete(h) \/ Release(h) \/ Fails(h) \/ Crash(h)
    PROVE  Settles(L)'
<1>1. /\ TypeOK /\ CallSettles(L, h) /\ Event(h) \in AllEvents /\ world' = world
      /\ record' = record \/ (Saving(h) /\ SaveIfVersion(draft[h], base[h]))
  BY Of DEF Settles, Complete, Release, Fails, Crash, Saving
<1>2. Touches(h) /\ step'[h] \in {"idle", "release"}
  BY <1>1 DEF Complete, Release, Fails, Crash, End, Go, Touches, TypeOK
<1>3. CallSettles(L, h)'
  BY <1>2, CallLeaves DEF Saving
<1>4. step[h] = "complete" /\ Event(h) = L => Settled(L)'
  <2>1. Settled(L) => Settled(L)'
    BY <1>1, SettledStays
  <2> QED BY <1>1, <2>1 DEF CallSettles
<1>5. L \in AllEvents /\ <<"free">> # <<"done">>
  BY <1>1, WorldFacts DEF TypeOK
<1>6. L \in acked' => L \in acked \/ Settled(L)'
  BY <1>4 DEF Complete, Release, Fails, Crash
<1>7. claims'[L] = <<"done">> => claims[L] = <<"done">> \/ Settled(L)'
  BY <1>1, <1>4, <1>5 DEF Complete, Release, Fails, Crash, TypeOK
<1>8. \A g \in Calls \ {h} :
         /\ step'[g] = step[g] /\ base'[g] = base[g] /\ draft'[g] = draft[g]
         /\ snapshot'[g] = snapshot[g]
  BY <1>1, <1>2, OthersStay
<1> QED BY <1>1, <1>3, <1>6, <1>7, <1>8, CallGoes

\* A claim is lost, Stripe goes on, or nothing happens.
LEMMA OutsideSettles ==
    ASSUME IInv, NEW L \in Events, LastChange(L), Settles(L),
           UNCHANGED <<world, record, acked>>,
           UNCHANGED <<step, base, draft, snapshot>>,
           claims'[L] = <<"done">> => claims[L] = <<"done">>
    PROVE  Settles(L)'
<1>1. Settled(L)' <=> Settled(L)
  BY SameWorld DEF Settled
<1>2. record' # NoRecord => Fit(L, record)'
  BY DEF Settles, Fit, Writes, Kind, At, To, Timeline, Events
<1>3. ASSUME NEW g \in Calls PROVE CallSettles(L, g)'
  BY OthersSettle
<1> QED BY <1>1, <1>2, <1>3 DEF Settles

\* A claim that is lost was not completed.
LEMMA LossSettles ==
    ASSUME IInv, NEW L \in Events, LastChange(L), Settles(L), NEW h \in Calls,
           Stall(h) \/ Lapse(h)
    PROVE  Settles(L)'
<1>1. TypeOK /\ Event(h) \in AllEvents /\ L \in AllEvents
  BY Of, WorldFacts DEF TypeOK
<1>2. /\ claims' = [claims EXCEPT ![Event(h)] = <<"free">>]
      /\ UNCHANGED <<world, record, acked>> /\ UNCHANGED <<step, base, draft, snapshot>>
  BY DEF Stall, Lapse, calls
<1>3. <<"free">> # <<"done">>
  OBVIOUS
<1>4. claims'[L] = <<"done">> => claims[L] = <<"done">>
  BY <1>1, <1>2, <1>3 DEF TypeOK
<1> QED BY <1>2, <1>4, OutsideSettles

\* What happens at Stripe is settled from the start.
LEMMA WorldStays ==
    ASSUME [Next]_vars
    PROVE  world' = world
<1>1. CASE UNCHANGED vars
  BY <1>1 DEF vars
<1>2. CASE StripeMoves
  BY <1>2 DEF StripeMoves
<1>3. ASSUME NEW h \in Calls, Dispatch(h) PROVE world' = world
  BY <1>3 DEF Dispatch, Claim, ClaimCompleted, LoadRejected, LoadDropped, LoadInvoice,
     LoadRepeated, LoadAlreadyCanceled, LoadApplies, LoadEqual, Saved, SaveLostDropped,
     SaveLostRetried, Retrieve, ReloadMoved, ReloadRejected, ReloadRepeated, ReloadApplies,
     Emitted, Replayed, Clear, Cleared, ClearLost, Complete, Release
<1>4. ASSUME NEW h \in Calls, Fails(h) \/ Crash(h) \/ Stall(h) \/ Lapse(h) PROVE world' = world
  BY <1>4 DEF Fails, Crash, Stall, Lapse
<1> QED BY <1>1, <1>2, <1>3, <1>4 DEF Next

\* Every step keeps the way to L.
LEMMA SettlesStep ==
    ASSUME IInv, [Next]_vars, NEW L \in Events, LastChange(L), Settles(L)
    PROVE  Settles(L)'
<1>1. ASSUME NEW h \in Calls, Dispatch(h) \/ Fails(h) \/ Crash(h) \/ Stall(h) \/ Lapse(h)
      PROVE  Settles(L)'
  <2>1. CASE Claim(h) \/ ClaimCompleted(h)
    BY <2>1, ClaimSettles
  <2>2. CASE LoadRejected(h) \/ LoadDropped(h) \/ LoadInvoice(h) \/ LoadRepeated(h)
             \/ LoadAlreadyCanceled(h) \/ LoadApplies(h) \/ LoadEqual(h)
    BY <2>2, LoadSettles
  <2>3. CASE Retrieve(h)
    BY <2>3, RetrieveSettles
  <2>4. CASE ReloadMoved(h) \/ ReloadRejected(h) \/ ReloadRepeated(h) \/ ReloadApplies(h)
    BY <2>4, ReloadSettles
  <2>5. CASE SaveLostDropped(h) \/ SaveLostRetried(h) \/ ClearLost(h)
    BY <2>5, LostSettles
  <2>6. CASE Saved(h) \/ Cleared(h)
    BY <2>6, SaveSettles
  <2>7. CASE Emitted(h) \/ Replayed(h)
    BY <2>7, TellSettles
  <2>8. CASE Clear(h)
    BY <2>8, ClearSettles
  <2>9. CASE Complete(h) \/ Release(h) \/ Fails(h) \/ Crash(h)
    BY <2>9, EndSettles
  <2>10. CASE Stall(h) \/ Lapse(h)
    BY <2>10, LossSettles
  <2> QED
    BY <1>1, <2>1, <2>2, <2>3, <2>4, <2>5, <2>6, <2>7, <2>8, <2>9, <2>10 DEF Dispatch
<1>2. CASE StripeMoves
  BY <1>2, OutsideSettles DEF StripeMoves, calls
<1>3. CASE UNCHANGED vars
  BY <1>3, OutsideSettles DEF vars, calls
<1> QED BY <1>1, <1>2, <1>3 DEF Next

\* When Stripe stops delivering the last change, the record holds its state.
LEMMA SettledConverges ==
    ASSUME IInv, NEW L \in Events, LastChange(L), Settles(L)
    PROVE  Converged
<1> SUFFICES ASSUME acked = Events
             PROVE  \E e \in Events :
                       /\ record.sub = Sub(e) /\ record.state = To(e)
                       /\ \A later \in Events : later > e => Sub(later) # Sub(e)
  BY DEF Converged
<1>1. TypeOK /\ Events = 1..Len(Timeline) /\ Len(Timeline) \in Nat /\ L \in Nat
  BY WorldFacts DEF IInv, TypeOK
<1>2. PICK last \in Events : last >= L /\ \A later \in Events : ~(later > last)
  BY <1>1
<1>3. Settled(L)
  BY DEF Settles
<1>4. record # NoRecord /\ record.state = To(L)
  <2>1. Kind(L) = "deleted" => To(L) = "canceled"
    BY DEF LastChange, SaysItsState
  <2> QED BY <1>3, <2>1, RecordFits DEF Settled
<1>5. record.sub = Sub(last) /\ To(last) = To(L)
  BY <1>1, <1>2, <1>4, OneSubscription, AroundLast
<1> QED BY <1>2, <1>4, <1>5

\* Order independence, for any number of regions, retries and failures: when
\* every event has been handled, the record holds Stripe's last state, in
\* whatever order the events came, on every timeline that ends in a change the
\* state machine accepts from whichever earlier state the record is in.
THEOREM OrderlyTimelinesConverge == Spec => [](Orderly => Converged)
<1> DEFINE Settling == \A L \in Events : LastChange(L) => Settles(L)
<1>1. Init => Settling
  <2> SUFFICES ASSUME Init, NEW L \in Events PROVE Settles(L)
    OBVIOUS
  <2>1. /\ record = NoRecord /\ acked = {} /\ \A h \in Calls : step[h] = "idle"
        /\ \A e \in AllEvents : claims[e] = <<"free">>
    BY DEF Init
  <2>2. L \in AllEvents /\ <<"free">> # <<"done">>
    BY WorldFacts DEF Init
  <2> QED BY <2>1, <2>2 DEF Settles, CallSettles, KeepsCanceled, Saving
<1>2. ASSUME IInv, Settling, [Next]_vars PROVE Settling'
  <2>1. world' = world
    BY <1>2, WorldStays
  <2> SUFFICES ASSUME NEW L \in Events, LastChange(L) PROVE Settles(L)'
    BY <2>1, SameWorld, SameLast
  <2> QED BY <1>2, SettlesStep
<1>3. IInv /\ Settling => (Orderly => Converged)
  BY SettledConverges DEF Orderly
<1> QED BY <1>1, <1>2, <1>3, Invariant, PTL DEF Spec
=============================================================================
