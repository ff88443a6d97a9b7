-------------------------- MODULE MC_StripeBilling --------------------------
(* Timelines of one workspace for StripeBilling.                           *)
EXTENDS StripeBilling

Happens(kind, sub, at, state) ==
    [kind |-> kind, sub |-> sub, at |-> at, state |-> state]

\* A subscription is paid in the second it was created in, then canceled.
PaidAtOnce ==
    << Happens("created", "s1", 1, "incomplete"),
       Happens("updated", "s1", 1, "active"),
       Happens("deleted", "s1", 2, "canceled") >>

\* A trial is canceled, then the customer comes back and pays.
Resubscribed ==
    << Happens("created", "s1", 1, "trialing"),
       Happens("trial_will_end", "s1", 2, "trialing"),
       Happens("deleted", "s1", 3, "canceled"),
       Happens("created", "s2", 4, "active") >>

\* A subscription is billed while it is paused; one event has no handler.
Billed ==
    << Happens("created", "s1", 1, "active"),
       Happens("invoice", "s1", 2, "active"),
       Happens("paused", "s1", 2, "paused"),
       Happens("other", "s1", 3, "paused") >>

\* The first payment fails right after activation.
PaidThenPastDue ==
    << Happens("created", "s1", 1, "incomplete"),
       Happens("updated", "s1", 2, "active"),
       Happens("updated", "s1", 3, "past_due") >>

\* A trial is paid, then canceled, each change in a second of its own.
PaidThenCanceled ==
    << Happens("created", "s1", 1, "trialing"),
       Happens("trial_will_end", "s1", 2, "trialing"),
       Happens("updated", "s1", 3, "active"),
       Happens("deleted", "s1", 4, "canceled") >>

\* Three changes in one second.
SameSecond ==
    << Happens("created", "s1", 1, "active"),
       Happens("updated", "s1", 2, "past_due"),
       Happens("updated", "s1", 2, "active"),
       Happens("deleted", "s1", 2, "canceled") >>

World(events, regions, retries, faultBound) ==
    [timeline |-> events, copies |-> regions, maxCasRetries |-> retries, faults |-> faultBound]

\* Two regions and a fault on the short timeline, then the ways a subscription
\* can go; with one attempt every lost compare-and-set ends in a delivery.
Worlds_timelines ==
    {World(PaidAtOnce, 2, 2, 1), World(Resubscribed, 1, 1, 0), World(Billed, 1, 1, 0),
     World(PaidThenCanceled, 1, 1, 0)}
Worlds_skipped_edge == {World(PaidThenPastDue, 1, 2, 0)}
Worlds_stale_snapshot == {World(SameSecond, 1, 2, 0)}
=============================================================================
