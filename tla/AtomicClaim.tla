---------------------------- MODULE AtomicClaim ----------------------------
(***************************************************************************)
(* What AtomicIdempotencyStore (src/idempotency.ts) promises the workers   *)
(* that share it, for one key: at any time the key is free, held by one    *)
(* owner, or done.  A claim or a completion protects the key while it is   *)
(* live; only its own owner may renew it, complete it or give it back, and *)
(* an owner whose claim was taken over never holds the key again.          *)
(***************************************************************************)
EXTENDS Naturals

CONSTANTS
    Owners,     \* the tokens claims are made with
    NoOne       \* stands for the unknown owner of a version-1 record

VARIABLES
    claim,      \* the state of the key
    spent       \* tokens that hold or have held it

Free == [kind |-> "free", owner |-> NoOne, live |-> FALSE]
Held(owners) == [kind : {"held"}, owner : owners, live : BOOLEAN]
Done(owners) == [kind : {"done"}, owner : owners, live : BOOLEAN]

Init ==
    /\ claim \in {Free} \cup Held({NoOne})
    /\ spent = {}

\* claimStatus answers 'acquired': nobody is protected, the token is new.
Acquire ==
    /\ ~claim.live
    /\ claim' \in Held(Owners \ spent)
    /\ spent' = spent \cup {claim'.owner}

OwnedBy(owners) == claim.kind = "held" /\ claim.owner \in owners

Renew ==
    /\ OwnedBy(Owners)
    /\ claim' \in Held({claim.owner})
    /\ UNCHANGED spent

Complete ==
    /\ OwnedBy(Owners)
    /\ claim' \in Done({claim.owner})
    /\ UNCHANGED spent

Release ==
    /\ OwnedBy(Owners)
    /\ claim' = Free
    /\ UNCHANGED spent

\* The lease or the ttl runs out.
Lapse ==
    /\ claim.live
    /\ claim' = [kind |-> claim.kind, owner |-> claim.owner, live |-> FALSE]
    /\ UNCHANGED spent

Next == Acquire \/ Renew \/ Complete \/ Release \/ Lapse

Spec == Init /\ [][Next]_<<claim, spent>>
=============================================================================
