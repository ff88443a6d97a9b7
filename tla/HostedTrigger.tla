--------------------------- MODULE HostedTrigger ---------------------------
(***************************************************************************)
(* pollHostedTrigger (src/triggers/index.ts) and the list functions of     *)
(* src/triggers/definitions.ts: a provider that cannot push is read on a   *)
(* schedule, and a cursor (the newest time emitted and the last SEEN_KEYS  *)
(* keys) says what a poll has left to emit.  A list reads page after page  *)
(* while records are created; any read may fail, and the poll with it.     *)
(*                                                                         *)
(* Records are numbered in the order of their creation, so that record r   *)
(* has the time born[r].  A listing is how a definition reads: "oldest"    *)
(* filters by the cursor and sorts ascending (Attio, HubSpot), "newest"    *)
(* starts at the latest record (Gmail, Outlook, Pipedrive), "forms" asks   *)
(* each form of the account for one page and puts the pages one after the  *)
(* other (Typeform, Tally; Intercom is one form), a page in whatever order *)
(* the provider likes; the account has no more forms than are read.  Page  *)
(* size and number of pages are the definition's.  Providers list a record *)
(* as soon as it is created and delete none; a row that a definition drops *)
(* after reading it (an automated sender, an admin's conversation) is not  *)
(* modelled.  Webflow, Calendly and Cal.com, whose lists are not by the    *)
(* cursor, are left out.                                                   *)
(***************************************************************************)
EXTENDS Naturals, Sequences, FiniteSets

CONSTANTS
    Listings,            \* records [order, size, pages, form]; form[r] is the
                         \*   form that the r-th record answers
    MAX_EVENTS_PER_POLL,
    SEEN_KEYS,
    MaxRecords,          \* bound: records
    MaxPerTick,          \* assumed: how many records may share a timestamp
    MaxTime,             \* bound: the clock
    MaxFailures          \* bound: polls that fail

VARIABLES
    listing,
    clock,
    born,       \* born[r]: when record r was created
    cursor,     \* NoCursor, or [since, seen]
    poll,       \* NoPoll, or what the list has read: [rows, pages, ended]
    told,       \* told[r]: how many polls have emitted record r (2: several)
    baseline,   \* history: the since of the first cursor
    overrun,    \* history: more was pending than the listing reads, or came
                \*   where a list had already been
    failures

vars == <<listing, clock, born, cursor, poll, told, baseline, overrun, failures>>

Records == DOMAIN born
NoCursor == [since |-> 0]
NoPoll == [rows |-> <<>>, pages |-> 0, ended |-> FALSE]

Upto(n, bound) == IF n < bound THEN n ELSE bound
Keys(seq) == {seq[i] : i \in DOMAIN seq}

\* How often one poll may emit a record: a page that is read while records are
\* created ahead of it repeats rows of the page before it.
Copies(l) == IF l.order = "newest" THEN Upto(l.pages, MAX_EVENTS_PER_POLL) ELSE 1

\* The remembered keys hold a burst of one timestamp.
TriggerAssumption ==
    /\ Listings \subseteq [order : {"oldest", "newest", "forms"}, size : Nat \ {0},
                           pages : Nat \ {0}, form : [1..MaxRecords -> Nat \ {0}]]
    /\ \A l \in Listings, r \in 1..MaxRecords : l.order = "forms" => l.form[r] <= l.pages
    /\ MAX_EVENTS_PER_POLL \in Nat \ {0} /\ SEEN_KEYS \in Nat /\ MaxPerTick \in Nat
    /\ MaxRecords \in Nat /\ MaxTime \in Nat /\ MaxFailures \in Nat
    /\ \A l \in Listings : MaxPerTick * Copies(l) <= SEEN_KEYS

TypeOK ==
    /\ listing \in Listings /\ listing.order \in {"oldest", "newest", "forms"}
    /\ clock \in 0..MaxTime
    /\ born \in Seq(0..MaxTime)
    /\ cursor = NoCursor \/ (cursor.since \in 0..MaxTime /\ cursor.seen \in Seq(Records)
                             /\ Len(cursor.seen) <= SEEN_KEYS)
    /\ poll.rows \in Seq(Records) /\ poll.pages \in 0..listing.pages /\ poll.ended \in BOOLEAN
    /\ told \in [1..MaxRecords -> 0..2]
    /\ baseline \in 0..MaxTime /\ overrun \in BOOLEAN /\ failures \in 0..MaxFailures

---------------------------------------------------------------------------
(* The provider                                                            *)

Tick ==
    /\ clock < MaxTime /\ clock' = clock + 1
    /\ UNCHANGED <<listing, born, cursor, poll, told, baseline, overrun, failures>>

\* A record of this form comes too late for a list that goes on to other forms.
Passed(form) == listing.order = "forms" /\ ~poll.ended /\ form <= poll.pages

Create ==
    /\ Len(born) < MaxRecords /\ Cardinality({r \in Records : born[r] = clock}) < MaxPerTick
    /\ born' = Append(born, clock)
    /\ overrun' = (overrun \/ Passed(listing.form[Len(born) + 1]))
    /\ UNCHANGED <<listing, clock, cursor, poll, told, baseline, failures>>

Pending == {r \in Records : born[r] >= cursor.since}

\* Fault: the ascending query has no lower bound.
ListedFromTheStart ==
    [i \in Records |-> IF listing.order = "newest" THEN Len(born) + 1 - i ELSE i]

\* The records a query with this cursor lists, in the listing's order.
Listed ==
    IF listing.order = "newest" THEN [i \in Records |-> Len(born) + 1 - i]
    ELSE [i \in 1..Cardinality(Pending) |-> Len(born) - Cardinality(Pending) + i]

NextPage ==
    SubSeq(Listed, poll.pages * listing.size + 1,
           Upto((poll.pages + 1) * listing.size, Len(Listed)))

\* What is pending of a form, and the pages it may answer with.
Form(n) == {r \in Pending : listing.form[r] = n}

FormPages(n) ==
    {page \in [1..Upto(listing.size, Cardinality(Form(n))) -> Form(n)] :
        \A i, j \in DOMAIN page : page[i] = page[j] => i = j}

NextPages == IF listing.order = "forms" THEN FormPages(poll.pages + 1) ELSE {NextPage}

---------------------------------------------------------------------------
(* A poll                                                                  *)

\* The first poll records where to start and emits nothing.
Baseline ==
    /\ cursor = NoCursor
    /\ cursor' = [since |-> clock, seen |-> <<>>]
    /\ baseline' = clock
    /\ UNCHANGED <<listing, clock, born, poll, told, overrun, failures>>

\* One read; the list ends with the last page it may ask for; unless it goes
\* through forms, also with a short page or, newest first, one that reaches
\* behind the cursor.
ReadPage ==
    /\ cursor # NoCursor /\ ~poll.ended
    /\ \E page \in NextPages :
          poll' = [rows |-> poll.rows \o page,
                   pages |-> poll.pages + 1,
                   ended |-> \/ poll.pages + 1 = listing.pages
                             \/ /\ listing.order # "forms"
                                /\ \/ Len(page) < listing.size
                                   \/ born[page[Len(page)]] < cursor.since]
    /\ UNCHANGED <<listing, clock, born, cursor, told, baseline, overrun, failures>>

\* The rows that pass the filter, by their position in the list.
Left ==
    {i \in DOMAIN poll.rows : poll.rows[i] \in Pending /\ poll.rows[i] \notin Keys(cursor.seen)}

\* By time; the sort is stable.
Before(i, j) ==
    \/ born[poll.rows[i]] < born[poll.rows[j]]
    \/ born[poll.rows[i]] = born[poll.rows[j]] /\ i < j

Place(i) == Cardinality({j \in Left : j = i \/ Before(j, i)})
Fresh == [k \in 1..Cardinality(Left) |-> poll.rows[CHOOSE i \in Left : Place(i) = k]]

Emitted == SubSeq(Fresh, 1, Upto(MAX_EVENTS_PER_POLL, Len(Fresh)))

\* Faults: the keys of this poll only; all keys.
SeenLately(batch) == batch
SeenForever(batch) == cursor.seen \o batch

\* The keys the next cursor remembers.
Seen(batch) ==
    LET keys == cursor.seen \o batch
    IN SubSeq(keys, Len(keys) - Upto(Len(keys), SEEN_KEYS) + 1, Len(keys))

\* Fault: the cursor moves to the newest record that was read.
SinceRead(batch) ==
    IF poll.rows = <<>> \/ Fresh = <<>> THEN cursor.since ELSE born[Fresh[Len(Fresh)]]

\* The cursor moves to the newest record that is emitted.
Since(batch) == IF batch = <<>> THEN cursor.since ELSE born[batch[Len(batch)]]

\* A newest-first listing, or the page of a form, leaves pending records unread.
Overruns ==
    \/ listing.order = "newest" /\ Cardinality(Pending) > listing.size * listing.pages
    \/ listing.order = "forms" /\ \E n \in 1..listing.pages : Cardinality(Form(n)) > listing.size

\* The poll ends: its events and the cursor are returned together.
Emit ==
    /\ poll.ended
    /\ \E batch \in {Emitted} :
          /\ told' = [r \in 1..MaxRecords |->
                        IF r \in Keys(batch) THEN Upto(told[r] + 1, 2) ELSE told[r]]
          /\ cursor' = [since |-> Since(batch), seen |-> Seen(batch)]
    /\ poll' = NoPoll
    /\ overrun' = (overrun \/ Overruns)
    /\ UNCHANGED <<listing, clock, born, baseline, failures>>

\* A read throws, or the host loses the result: the cursor stays.
PollFails ==
    /\ poll # NoPoll /\ failures < MaxFailures
    /\ failures' = failures + 1
    /\ poll' = NoPoll
    /\ UNCHANGED <<listing, clock, born, cursor, told, baseline, overrun>>

Init ==
    /\ listing \in Listings
    /\ clock = 0 /\ born = <<>>
    /\ cursor = NoCursor /\ poll = NoPoll
    /\ told = [r \in 1..MaxRecords |-> 0]
    /\ baseline = 0 /\ overrun = FALSE /\ failures = 0

Next == Tick \/ Create \/ Baseline \/ ReadPage \/ Emit \/ PollFails

\* The host polls again and again.
Fairness == WF_vars(ReadPage) /\ WF_vars(Emit)

Spec == Init /\ [][Next]_vars /\ Fairness

---------------------------------------------------------------------------
(* Properties                                                              *)

\* "emits the records ... that it has not already emitted": no two polls emit
\* the same record, though since stays while records share a timestamp, the
\* cap splits them over polls and the cursor forgets all but its last keys.
ToldOnce == \A r \in Records : told[r] <= 1

\* "a capped or failed poll resumes where it stopped", and "turning a trigger
\* on never replays history": whatever lies between the first cursor and this
\* one was emitted, and nothing before it, unless the listing was overrun: the
\* older records of a newest-first one are never read again, and the cursor
\* moves past what a form had beyond its page or got after it was read.
NothingSkipped ==
    \A r \in Records :
        /\ baseline <= born[r] /\ born[r] < cursor.since /\ ~overrun => told[r] > 0
        /\ cursor = NoCursor \/ born[r] < baseline => told[r] = 0

UpToDate == \A r \in Records : baseline <= born[r] => told[r] > 0

\* However many records arrive and however the polls fail, the polls catch up:
\* the cap never leaves a record behind a cursor that stands still.  (A burst
\* of one timestamp that fills an ascending listing would: the listing shows
\* nothing but what was emitted, and the cursor stays, see MaxPerTick.)
CatchesUp == []<>(cursor = NoCursor \/ overrun \/ UpToDate)
=============================================================================
