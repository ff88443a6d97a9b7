-------------------------- MODULE MC_HubServices --------------------------
(* The services share no state, so a step of one never enables or disturbs a
   step of another: the first state chooses the service that runs, the others
   stay as they are. *)
EXTENDS HubServices

VARIABLE service

MC_Requests ==
    {[key |-> "k1", input |-> "i1", dry |-> FALSE], [key |-> "k1", input |-> "i1", dry |-> TRUE],
     [key |-> "k2", input |-> "i2", dry |-> FALSE]}

MC_Deployments ==
    {[policy |-> "allow", adapter |-> "google"], [policy |-> "allow", adapter |-> "rest"],
     [policy |-> "require_approval", adapter |-> "graph"], [policy |-> "deny", adapter |-> "rest"]}

\* Attio, Gmail, Pipedrive and HubSpot: 100, 50, 3 x 100 and 3 x 100 records
\* for 50 events a poll.  Intercom; Typeform and Tally with one form and with
\* two: 50 records of each form.
OneForm == [r \in 1..MaxRecords |-> 1]
TwoForms ==
    {[r \in 1..MaxRecords |-> 1 + (r % 2)], [r \in 1..MaxRecords |-> 1 + ((r \div 2) % 2)]}

MC_Listings ==
    {[order |-> "oldest", size |-> 4, pages |-> 1, form |-> OneForm],
     [order |-> "newest", size |-> 2, pages |-> 1, form |-> OneForm],
     [order |-> "newest", size |-> 2, pages |-> 3, form |-> OneForm],
     [order |-> "oldest", size |-> 2, pages |-> 3, form |-> OneForm],
     [order |-> "forms", size |-> 2, pages |-> 1, form |-> OneForm]} \cup
    {[order |-> "forms", size |-> 2, pages |-> 2, form |-> f] : f \in TwoForms}

\* A purchase in two tokens, and a plan's token.
MC_Tokens ==
    {[jti |-> "j1", funding |-> "p", kind |-> "purchase", exp |-> 1],
     [jti |-> "j2", funding |-> "p", kind |-> "purchase", exp |-> 2],
     [jti |-> "j3", funding |-> "q", kind |-> "plan", exp |-> 1]}

MC_Batches == {<<"e1", "e2">>, <<"e2", "e3">>}

ASSUME HubAssumption

MC_Init ==
    /\ service \in {"guard", "trigger", "evidence", "routing"}
    /\ HubInit
    /\ service # "guard" => deployment = CHOOSE d \in Deployments : TRUE
    /\ service # "trigger" => listing = CHOOSE l \in Listings : TRUE

MC_Next ==
    /\ UNCHANGED service
    /\ \/ service = "guard" /\ Invoked
       \/ service = "trigger" /\ Polled
       \/ service = "evidence" /\ Presented
       \/ service = "routing" /\ RoutedEvents

MC_Spec == MC_Init /\ [][MC_Next]_<<service, hubVars>> /\ Trigger!Fairness
=============================================================================
