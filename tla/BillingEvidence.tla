-------------------------- MODULE BillingEvidence --------------------------
(***************************************************************************)
(* verifyTrustedPlatformEvidence and decideBillingAccess                   *)
(* (src/billing-access-policy.ts): a signed token of the platform is       *)
(* turned into an evidence object once, and the evidence of a paid         *)
(* purchase buys access once.  The replay store is an AtomicIdempotency-   *)
(* Store shared by the processes, as AtomicClaim describes it: a claim is  *)
(* held by one call, lapses when its process dies or stalls, and is        *)
(* completed or given back by its owner only.                              *)
(*                                                                         *)
(* Several tokens may carry one purchase.  Signature, claims, principal    *)
(* and email are decided on constants: the tokens here pass.  The calls of *)
(* one key run in different processes, and are numbered as they start.     *)
(***************************************************************************)
EXTENDS Naturals

CONSTANTS
    Tokens,     \* records [jti, funding, kind, exp]
    MaxCalls,   \* bound: calls of verifyTrustedPlatformEvidence
    Tolerance,  \* clockToleranceSeconds
    Retention,  \* PLATFORM_FUNDING_REPLAY_RETENTION_MS
    MaxTime,    \* bound: the clock
    MaxErrors   \* bound: store errors, stalled and dying processes

VARIABLES
    now,
    call,       \* call[c]: [step, token, ttl]
    store,      \* store[k]: the claim of replay key k: [phase, owner, until]
    returned,   \* returned[k]: how many objects of unexpired evidence were made
                \*   from the token or the funding record k (2: several)
    allowed,    \* allowed[k]: how many decisions they were allowed
    errors

vars == <<now, call, store, returned, allowed, errors>>

\* Fault: every token is a presentation of its own.
ReplayKeyOfToken(t) == t.jti

\* The replay key: the purchase, or else the token.
ReplayKey(t) == IF t.kind = "purchase" THEN t.funding ELSE t.jti

Calls == 1..MaxCalls
Ids(t) == {t.jti, t.funding}
Keys == UNION {Ids(t) : t \in Tokens}
NoCall == [step |-> "new"]
NoClaim == [phase |-> "free"]

Call(s, t, ttl) == [step |-> s, token |-> t, ttl |-> ttl]
Claimed(phase, c, until) == [phase |-> phase, owner |-> c, until |-> until]

\* What the platform puts into tokens: a token has an id of its own, and a
\* funding record is a purchase in all tokens that carry it or in none.  The
\* claims outlive the bound on the clock.
EvidenceAssumption ==
    /\ Tokens \subseteq [jti : STRING, funding : STRING, kind : {"purchase", "plan"}, exp : Nat]
    /\ \A t, u \in Tokens :
          /\ t.jti = u.jti => t = u
          /\ t.jti # u.funding
          /\ t.funding = u.funding => t.kind = u.kind
    /\ MaxCalls \in Nat /\ Tolerance \in Nat /\ MaxTime \in Nat /\ MaxErrors \in Nat
    /\ Retention \in Nat /\ Retention > MaxTime

TypeOK ==
    /\ now \in 0..MaxTime
    /\ call \in [Calls -> {NoCall} \cup
          [step : {"claim", "complete", "release", "holds", "used", "over"},
           token : Tokens, ttl : Nat]]
    /\ store \in [Keys -> {NoClaim} \cup
          [phase : {"held", "lapsed", "done"}, owner : Calls, until : Nat]]
    /\ returned \in [Keys -> 0..2] /\ allowed \in [Keys -> 0..2]
    /\ errors \in 0..MaxErrors

At(c, s) == call[c].step = s
Key(c) == ReplayKey(call[c].token)
Go(c, s) == call' = [call EXCEPT ![c].step = s]
Put(k, entry) == store' = [store EXCEPT ![k] = entry]
Count(f, c) == [k \in Keys |-> IF k \in Ids(call[c].token) /\ f[k] < 2 THEN f[k] + 1 ELSE f[k]]

Fault == errors < MaxErrors /\ errors' = errors + 1
Works == UNCHANGED errors

Tick ==
    /\ now < MaxTime /\ now' = now + 1
    /\ Works /\ UNCHANGED <<call, store, returned, allowed>>

---------------------------------------------------------------------------
(* verifyTrustedPlatformEvidence                                           *)

\* A purchase is remembered for good, another token until it has expired.
ReplayTtl(t) == IF t.kind = "purchase" THEN Retention ELSE t.exp - now + Tolerance

\* The clock is read once, before the signature is awaited.
Verify(c, t) ==
    /\ At(c, "new") /\ (c > 1 => ~At(c - 1, "new"))
    /\ t.exp > now
    /\ call' = [call EXCEPT ![c] = Call("claim", t, ReplayTtl(t))]
    /\ Works /\ UNCHANGED <<now, store, returned, allowed>>

Protected(entry) ==
    \/ entry.phase = "held"
    \/ entry.phase = "done" /\ entry.until > now

\* claim: a token whose key is taken is answered null.
Claim(c) ==
    /\ At(c, "claim")
    /\ IF Protected(store[Key(c)]) THEN Go(c, "over") /\ UNCHANGED store
       ELSE Go(c, "complete") /\ Put(Key(c), Claimed("held", c, now + call[c].ttl))
    /\ Works /\ UNCHANGED <<now, returned, allowed>>

Owns(c) == store[Key(c)].phase \in {"held", "lapsed"} /\ store[Key(c)].owner = c

\* complete: the file store counts the ttl from here, the in-memory store from
\* the claim.  The error, if any, comes after the record is durable.
Complete(c) ==
    /\ At(c, "complete") /\ Owns(c)
    /\ \E until \in {store[Key(c)].until, now + call[c].ttl} : Put(Key(c), Claimed("done", c, until))
    /\ \/ /\ Go(c, "holds") /\ Works
          /\ returned' = IF call[c].token.exp > now THEN Count(returned, c) ELSE returned
       \/ Go(c, "release") /\ UNCHANGED returned /\ Fault
    /\ UNCHANGED <<now, allowed>>

\* complete throws: the claim was lost, or nothing was written.
CompleteThrows(c) ==
    /\ At(c, "complete") /\ Go(c, "release")
    /\ IF Owns(c) THEN Fault ELSE Works
    /\ UNCHANGED <<now, store, returned, allowed>>

\* release gives back what is still this call's claim; then the error of
\* complete is thrown, with that of release if it fails, too.
Release(c) ==
    /\ At(c, "release") /\ Go(c, "over")
    /\ \/ IF Owns(c) THEN Put(Key(c), NoClaim) ELSE UNCHANGED store
       \/ UNCHANGED store
    /\ Works /\ UNCHANGED <<now, returned, allowed>>

\* The store throws at the claim, or the process dies; evidence is lost with
\* its process, the claim stays.
CallDies(c) ==
    /\ call[c].step \in {"claim", "complete", "release", "holds"}
    /\ Go(c, "over")
    /\ Fault /\ UNCHANGED <<now, store, returned, allowed>>

\* The lease of a claim runs out: its owner is gone, or has missed renewals.
Lapse(k) ==
    /\ store[k].phase = "held"
    /\ store' = [store EXCEPT ![k].phase = "lapsed"]
    /\ IF At(store[k].owner, "complete") THEN Fault ELSE Works
    /\ UNCHANGED <<now, call, returned, allowed>>

---------------------------------------------------------------------------
(* decideBillingAccess                                                     *)

Consumes(c) == IF call[c].token.kind = "purchase" THEN Go(c, "used") ELSE UNCHANGED call

\* Any number of decisions may be asked with one evidence object.
Allow(c) ==
    /\ At(c, "holds") /\ call[c].token.exp > now
    /\ Consumes(c)
    /\ allowed' = Count(allowed, c)
    /\ Works /\ UNCHANGED <<now, store, returned>>

Init ==
    /\ now = 0
    /\ call = [c \in Calls |-> NoCall]
    /\ store = [k \in Keys |-> NoClaim]
    /\ returned = [k \in Keys |-> 0]
    /\ allowed = [k \in Keys |-> 0]
    /\ errors = 0

Next ==
    \/ Tick
    \/ \E c \in Calls :
          \/ \E t \in Tokens : Verify(c, t)
          \/ Claim(c) \/ Complete(c) \/ CompleteThrows(c) \/ Release(c) \/ CallDies(c) \/ Allow(c)
    \/ \E k \in Keys : Lapse(k)

Spec == Init /\ [][Next]_vars

---------------------------------------------------------------------------
(* Properties                                                              *)

\* A purchase buys access once and a token makes one evidence that is good for
\* anything: however often it is presented, in whichever token, and however
\* its calls stall, overtake each other, fail and die between claim and
\* completion.  (A call that outlives its token may find the key free again;
\* what it returns has expired.)
GrantedOnce ==
    \A t \in Tokens :
        /\ returned[t.jti] <= 1
        /\ t.kind = "purchase" => returned[t.funding] <= 1 /\ allowed[t.funding] <= 1
=============================================================================
