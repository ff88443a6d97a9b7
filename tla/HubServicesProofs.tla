------------------------- MODULE HubServicesProofs -------------------------
(***************************************************************************)
(* What the services of the hub promise, for any values of the constants:  *)
(* first billing evidence and event routing, each a service of its own,    *)
(* then all of them side by side.                                          *)
(*                                                                         *)
(* Billing evidence: a purchase buys access once and a token makes one     *)
(* evidence.  The invariant follows a replay key: whatever was granted has *)
(* left a completed claim that is still protected, and whoever holds       *)
(* evidence of a purchase is the owner of that claim.                      *)
(*                                                                         *)
(* Event routing: a delivery that was answered is kept, and nothing is     *)
(* handled or issued without a grant that held during the call.            *)
(*                                                                         *)
(* The hub: a service runs as it would alone, so what is proved of it      *)
(* holds in the hub (HostedTriggerProofs and GuardedInvocationProofs have  *)
(* the other two).                                                         *)
(***************************************************************************)
EXTENDS HubServices, GuardedInvocationProofs

---------------------------------------------------------------------------
(* Billing evidence: the invariant                                         *)

Purchase(t) == t.kind = "purchase"
Done(k) == store[k].phase = "done"

\* The time that a claim for this token has to reach.
LongEnough(t, until) == IF Purchase(t) THEN until > MaxTime ELSE until >= t.exp

\* Claims, those that calls are about to make and those in the store, protect
\* their token for as long as it is good for anything.
ClaimsLast ==
    /\ \A c \in Evidence!Calls : call[c].step \in {"claim", "complete"} =>
          LongEnough(call[c].token, now + call[c].ttl)
    /\ \A t \in Tokens : store[Evidence!ReplayKey(t)] # Evidence!NoClaim =>
          LongEnough(t, store[Evidence!ReplayKey(t)].until)

\* Evidence was made of what is done, or has expired since.
ReturnedIsDone ==
    \A t \in Tokens :
        /\ returned[t.jti] > 0 => Done(Evidence!ReplayKey(t)) \/ (~Purchase(t) /\ t.exp <= now)
        /\ Purchase(t) /\ returned[t.funding] > 0 => Done(t.funding)

\* Evidence of a purchase is held by the owner of its completed claim.
HoldersOwn ==
    \A c \in Evidence!Calls : call[c].step \in {"holds", "used"} /\ Purchase(call[c].token) =>
        Done(Evidence!Key(c)) /\ store[Evidence!Key(c)].owner = c

\* A purchase that bought access is used up.
AllowedIsUsed ==
    \A t \in Tokens : Purchase(t) /\ allowed[t.funding] > 0 =>
        Done(t.funding) /\ Evidence!At(store[t.funding].owner, "used")

EvidenceInv ==
    /\ Evidence!TypeOK
    /\ ClaimsLast
    /\ ReturnedIsDone
    /\ HoldersOwn
    /\ AllowedIsUsed
    /\ Evidence!GrantedOnce

---------------------------------------------------------------------------
(* Billing evidence: keys and tokens                                       *)

\* A key belongs to a purchase or to one token.
LEMMA KeyTellsToken ==
    ASSUME Evidence!EvidenceAssumption, NEW t \in Tokens, NEW u \in Tokens
    PROVE  /\ Evidence!ReplayKey(t) \in Evidence!Keys /\ t.jti \in Evidence!Keys
           /\ t.funding \in Evidence!Keys
           /\ Evidence!ReplayKey(t) = Evidence!ReplayKey(u) => t = u \/ (Purchase(t) /\ Purchase(u))
           /\ t.exp \in Nat
BY DEF Evidence!EvidenceAssumption, Evidence!ReplayKey, Evidence!Keys, Evidence!Ids, Purchase

\* A count is one more for the ids of the call's token only.
LEMMA Counted ==
    ASSUME Evidence!EvidenceAssumption, NEW f \in [Evidence!Keys -> 0..2], NEW c \in Evidence!Calls,
           call[c].token \in Tokens
    PROVE  /\ Evidence!Count(f, c) \in [Evidence!Keys -> 0..2]
           /\ \A k \in Evidence!Keys : f[k] = 0 => Evidence!Count(f, c)[k] <= 1
           /\ \A t \in Tokens :
                /\ t # call[c].token => Evidence!Count(f, c)[t.jti] = f[t.jti]
                /\ Purchase(t) /\ Evidence!ReplayKey(call[c].token) # t.funding =>
                      Evidence!Count(f, c)[t.funding] = f[t.funding]
<1>1. \A k \in Evidence!Keys : Evidence!Count(f, c)[k] =
          IF k \in Evidence!Ids(call[c].token) /\ f[k] < 2 THEN f[k] + 1 ELSE f[k]
  BY DEF Evidence!Count
<1>2. Evidence!Count(f, c) \in [Evidence!Keys -> 0..2]
  <2>1. \A k \in Evidence!Keys : f[k] \in 0..2
    OBVIOUS
  <2> QED BY <2>1 DEF Evidence!Count
<1>3. \A k \in Evidence!Keys : f[k] = 0 => Evidence!Count(f, c)[k] <= 1
  BY <1>1
<1>4. ASSUME NEW t \in Tokens
      PROVE  /\ t # call[c].token => t.jti \notin Evidence!Ids(call[c].token)
             /\ Purchase(t) /\ Evidence!ReplayKey(call[c].token) # t.funding =>
                   t.funding \notin Evidence!Ids(call[c].token)
             /\ t.jti \in Evidence!Keys /\ t.funding \in Evidence!Keys
  BY DEF Evidence!EvidenceAssumption, Evidence!Ids, Evidence!ReplayKey, Purchase, Evidence!Keys
<1> QED BY <1>1, <1>2, <1>3, <1>4

---------------------------------------------------------------------------
(* Billing evidence: the steps                                             *)

CallStates == {Evidence!NoCall} \cup
    [step : {"claim", "complete", "release", "holds", "used", "over"},
     token : Tokens, ttl : Nat]

\* A call that has begun moves on.
LEMMA EvidenceGoMoves ==
    ASSUME Evidence!TypeOK, NEW c \in Evidence!Calls, call[c].step # "new",
           NEW s \in {"claim", "complete", "release", "holds", "used", "over"}, Evidence!Go(c, s)
    PROVE  /\ call' \in [Evidence!Calls -> CallStates]
           /\ \A d \in Evidence!Calls \ {c} : call'[d] = call[d]
           /\ call'[c].step = s /\ call'[c].token = call[c].token /\ call'[c].ttl = call[c].ttl
           /\ call[c].token \in Tokens /\ call[c].ttl \in Nat
<1>1. call[c] \in CallStates /\ call[c] # Evidence!NoCall
  BY DEF Evidence!TypeOK, CallStates, Evidence!NoCall
<1>2. /\ [call[c] EXCEPT !.step = s] \in CallStates
      /\ [call[c] EXCEPT !.step = s].step = s
      /\ [call[c] EXCEPT !.step = s].token = call[c].token
      /\ [call[c] EXCEPT !.step = s].ttl = call[c].ttl
      /\ call[c].token \in Tokens /\ call[c].ttl \in Nat
  BY <1>1 DEF CallStates
<1>3. call' = [call EXCEPT ![c] = [call[c] EXCEPT !.step = s]]
  BY DEF Evidence!Go
<1> QED BY <1>2, <1>3 DEF Evidence!TypeOK, CallStates

\* A call moves on and touches nothing else.
LEMMA EvidenceCallStep ==
    ASSUME Evidence!EvidenceAssumption, EvidenceInv, Evidence!TypeOK', NEW c \in Evidence!Calls,
           UNCHANGED <<now, store, returned, allowed>>,
           \A d \in Evidence!Calls \ {c} : call'[d] = call[d],
           call[c].step # "used", call'[c].step \notin {"holds", "used"},
           call'[c].step \in {"claim", "complete"} =>
               LongEnough(call'[c].token, now + call'[c].ttl)
    PROVE  EvidenceInv'
<1>1. ClaimsLast'
  BY DEF EvidenceInv, ClaimsLast, LongEnough, Purchase
<1>2. ReturnedIsDone' /\ Evidence!GrantedOnce'
  BY DEF EvidenceInv, ReturnedIsDone, Evidence!GrantedOnce, Done, Purchase
<1>3. HoldersOwn'
  BY DEF EvidenceInv, HoldersOwn, Evidence!Key, Done, Purchase
<1>4. AllowedIsUsed'
  <2>1. ASSUME NEW t \in Tokens, Purchase(t), allowed[t.funding] > 0
        PROVE  Done(t.funding) /\ store[t.funding].owner \in Evidence!Calls
               /\ Evidence!At(store[t.funding].owner, "used")
    <3>1. Done(t.funding) /\ Evidence!At(store[t.funding].owner, "used")
      BY <2>1 DEF EvidenceInv, AllowedIsUsed
    <3>2. t.funding \in Evidence!Keys
      BY KeyTellsToken
    <3> QED BY <3>1, <3>2 DEF EvidenceInv, Evidence!TypeOK, Done, Evidence!NoClaim
  <2> QED BY <2>1 DEF AllowedIsUsed, Done, Purchase, Evidence!At
<1> QED BY <1>1, <1>2, <1>3, <1>4 DEF EvidenceInv

\* A claim that is neither completed nor becomes so is entered, given back or
\* lapses: nothing that was granted depends on it.
LEMMA ClaimMoves ==
    ASSUME Evidence!EvidenceAssumption, EvidenceInv, Evidence!TypeOK', NEW k \in Evidence!Keys,
           UNCHANGED <<now, returned, allowed>>,
           \A j \in Evidence!Keys \ {k} : store'[j] = store[j],
           ~Done(k)',
           \A d \in Evidence!Calls : /\ call[d].step \in {"holds", "used"} => call'[d] = call[d]
                                     /\ call'[d].step \in {"holds", "used"} => call'[d] = call[d],
           \A d \in Evidence!Calls : call'[d].step \in {"claim", "complete"} =>
               LongEnough(call'[d].token, now + call'[d].ttl),
           \A t \in Tokens : Evidence!ReplayKey(t) = k =>
               /\ Done(k) => ~Purchase(t) /\ t.exp <= now
               /\ store'[k] # Evidence!NoClaim => LongEnough(t, store'[k].until)
    PROVE  EvidenceInv'
<1>1. ClaimsLast'
  BY KeyTellsToken DEF EvidenceInv, ClaimsLast, LongEnough, Purchase
<1>2. \A t \in Tokens : Purchase(t) => Evidence!ReplayKey(t) = t.funding
  BY DEF Purchase, Evidence!ReplayKey
<1>3. ReturnedIsDone' /\ Evidence!GrantedOnce'
  BY <1>2, KeyTellsToken DEF EvidenceInv, ReturnedIsDone, Evidence!GrantedOnce, Done, Purchase
<1>4. HoldersOwn'
  <2>1. ASSUME NEW d \in Evidence!Calls, call'[d].step \in {"holds", "used"},
               Purchase(call'[d].token)
        PROVE  call'[d] = call[d] /\ Done(Evidence!Key(d)) /\ store[Evidence!Key(d)].owner = d
               /\ call[d].token \in Tokens /\ Evidence!Key(d) \in Evidence!Keys
    <3>1. call'[d] = call[d] /\ Done(Evidence!Key(d)) /\ store[Evidence!Key(d)].owner = d
      BY <2>1 DEF EvidenceInv, HoldersOwn
    <3>2. call[d].token \in Tokens
      BY <2>1, <3>1 DEF EvidenceInv, Evidence!TypeOK, Evidence!NoCall
    <3> QED BY <3>1, <3>2, KeyTellsToken DEF Evidence!Key
  <2> QED BY <2>1 DEF HoldersOwn, Evidence!Key, Done, Purchase
<1>5. AllowedIsUsed'
  <2>1. ASSUME NEW t \in Tokens, Purchase(t), allowed[t.funding] > 0
        PROVE  Done(t.funding)' /\ Evidence!At(store[t.funding].owner, "used")'
    <3>1. Done(t.funding) /\ Evidence!At(store[t.funding].owner, "used")
          /\ t.funding \in Evidence!Keys
      BY <2>1, KeyTellsToken DEF EvidenceInv, AllowedIsUsed
    <3>2. store[t.funding].owner \in Evidence!Calls
      BY <3>1 DEF EvidenceInv, Evidence!TypeOK, Done, Evidence!NoClaim
    <3>3. t.funding # k
      BY <1>2, <2>1, <3>1
    <3> QED BY <3>1, <3>2, <3>3 DEF Done, Evidence!At
  <2> QED BY <2>1 DEF AllowedIsUsed, Purchase
<1> QED BY <1>1, <1>3, <1>4, <1>5 DEF EvidenceInv

\* Nothing was claimed and nothing granted at first.
LEMMA EvidenceInitEstablishes == Evidence!EvidenceAssumption /\ Evidence!Init => EvidenceInv
<1> SUFFICES ASSUME Evidence!EvidenceAssumption, Evidence!Init PROVE EvidenceInv
  OBVIOUS
<1>1. Evidence!TypeOK
  BY DEF Evidence!Init, Evidence!TypeOK, Evidence!EvidenceAssumption
<1>2. \A c \in Evidence!Calls : call[c].step = "new"
  BY DEF Evidence!Init, Evidence!NoCall
<1>3. ClaimsLast /\ HoldersOwn
  BY <1>2, KeyTellsToken DEF Evidence!Init, ClaimsLast, HoldersOwn
<1>4. ReturnedIsDone /\ AllowedIsUsed /\ Evidence!GrantedOnce
  BY KeyTellsToken DEF Evidence!Init, ReturnedIsDone, AllowedIsUsed, Evidence!GrantedOnce
<1> QED BY <1>1, <1>3, <1>4 DEF EvidenceInv

\* Time may only take a token's validity away; completed claims of a purchase
\* do not end before the clock does.
LEMMA EvidenceTickStep ==
    ASSUME Evidence!EvidenceAssumption, EvidenceInv, Evidence!Tick
    PROVE  EvidenceInv'
<1>1. now \in Nat /\ now' = now + 1 /\ now' \in 0..MaxTime
  BY DEF Evidence!Tick, EvidenceInv, Evidence!TypeOK, Evidence!EvidenceAssumption
<1>2. Evidence!TypeOK'
  BY <1>1 DEF Evidence!Tick, Evidence!Works, EvidenceInv, Evidence!TypeOK
<1>3. ClaimsLast'
  <2>1. ASSUME NEW c \in Evidence!Calls, call[c].step \in {"claim", "complete"}
        PROVE  /\ LongEnough(call[c].token, now + call[c].ttl)
               /\ call[c].token \in Tokens /\ call[c].ttl \in Nat
    BY <2>1 DEF EvidenceInv, ClaimsLast, Evidence!TypeOK, Evidence!NoCall
  <2>2. \A u \in Tokens : u.exp \in Nat
    BY KeyTellsToken
  <2>3. MaxTime \in Nat
    BY DEF Evidence!EvidenceAssumption
  <2>4. \A c \in Evidence!Calls : (call[c].step \in {"claim", "complete"} =>
            LongEnough(call[c].token, now + call[c].ttl))'
    BY <1>1, <2>1, <2>2, <2>3 DEF Evidence!Tick, LongEnough, Purchase
  <2>5. \A u \in Tokens : (store[Evidence!ReplayKey(u)] # Evidence!NoClaim =>
            LongEnough(u, store[Evidence!ReplayKey(u)].until))'
    BY DEF EvidenceInv, ClaimsLast, Evidence!Tick, LongEnough, Purchase, Evidence!ReplayKey
  <2> QED BY <2>4, <2>5 DEF ClaimsLast
<1>4. ReturnedIsDone'
  <2>1. \A u \in Tokens : u.exp \in Nat
    BY KeyTellsToken
  <2> QED BY <1>1, <2>1 DEF Evidence!Tick, EvidenceInv, ReturnedIsDone, Done, Purchase,
             Evidence!ReplayKey
<1>5. HoldersOwn' /\ AllowedIsUsed' /\ Evidence!GrantedOnce'
  BY DEF Evidence!Tick, EvidenceInv, HoldersOwn, AllowedIsUsed, Evidence!GrantedOnce,
     Evidence!Key, Done, Evidence!At, Purchase, Evidence!ReplayKey
<1> QED BY <1>2, <1>3, <1>4, <1>5 DEF EvidenceInv

\* The ttl that verification computes outlives the token.
LEMMA VerifyStep ==
    ASSUME Evidence!EvidenceAssumption, EvidenceInv, NEW c \in Evidence!Calls, NEW t \in Tokens,
           Evidence!Verify(c, t)
    PROVE  EvidenceInv'
<1>1. /\ now \in Nat /\ t.exp \in Nat /\ t.exp > now
      /\ Retention \in Nat /\ Retention > MaxTime /\ Tolerance \in Nat /\ MaxTime \in Nat
  BY KeyTellsToken DEF EvidenceInv, Evidence!TypeOK, Evidence!EvidenceAssumption, Evidence!Verify
<1>2. Evidence!ReplayTtl(t) \in Nat /\ LongEnough(t, now + Evidence!ReplayTtl(t))
  BY <1>1 DEF Evidence!ReplayTtl, LongEnough, Purchase
<1>3. /\ call' = [call EXCEPT ![c] = Evidence!Call("claim", t, Evidence!ReplayTtl(t))]
      /\ Evidence!Call("claim", t, Evidence!ReplayTtl(t)) \in CallStates
  BY <1>2 DEF Evidence!Verify, Evidence!Call, CallStates
<1>4. Evidence!TypeOK'
  BY <1>3 DEF Evidence!Verify, Evidence!Works, EvidenceInv, Evidence!TypeOK, CallStates
<1>5. /\ call'[c] = Evidence!Call("claim", t, Evidence!ReplayTtl(t))
      /\ \A d \in Evidence!Calls \ {c} : call'[d] = call[d]
  BY <1>3 DEF EvidenceInv, Evidence!TypeOK
<1>6. /\ call'[c].step = "claim" /\ call'[c].token = t /\ call'[c].ttl = Evidence!ReplayTtl(t)
      /\ call[c].step = "new"
      /\ UNCHANGED <<now, store, returned, allowed>>
  BY <1>5 DEF Evidence!Call, Evidence!Verify, Evidence!At
<1> QED BY <1>2, <1>4, <1>5, <1>6, EvidenceCallStep

\* The call of a step that only moves it to an end.
LEMMA GivesUp ==
    ASSUME Evidence!EvidenceAssumption, EvidenceInv, NEW c \in Evidence!Calls,
           NEW s \in {"release", "over"}, Evidence!Go(c, s),
           call[c].step \notin {"new", "used"}, UNCHANGED <<now, store, returned, allowed>>,
           errors' \in 0..MaxErrors
    PROVE  EvidenceInv'
<1>1. Evidence!TypeOK
  BY DEF EvidenceInv
<1>2. /\ call' \in [Evidence!Calls -> CallStates] /\ call'[c].step = s
      /\ \A d \in Evidence!Calls \ {c} : call'[d] = call[d]
  BY <1>1, EvidenceGoMoves
<1>3. Evidence!TypeOK'
  BY <1>1, <1>2 DEF Evidence!TypeOK, CallStates
<1> QED BY <1>2, <1>3, EvidenceCallStep

\* Errors stay within their bound.
LEMMA ErrorsTyped ==
    ASSUME Evidence!EvidenceAssumption, Evidence!TypeOK, Evidence!Fault \/ Evidence!Works
    PROVE  errors' \in 0..MaxErrors
BY DEF Evidence!EvidenceAssumption, Evidence!TypeOK, Evidence!Fault, Evidence!Works

\* The key of a call that has begun.
LEMMA BegunTyped ==
    ASSUME Evidence!EvidenceAssumption, Evidence!TypeOK, NEW c \in Evidence!Calls,
           call[c].step # "new"
    PROVE  Evidence!Key(c) \in Evidence!Keys /\ call[c].token \in Tokens /\ call[c].ttl \in Nat
BY KeyTellsToken DEF Evidence!Key, Evidence!TypeOK, Evidence!NoCall

\* A claim is refused while another is protected; what it may take over was
\* never granted, or has expired with its token.
LEMMA ClaimStep ==
    ASSUME Evidence!EvidenceAssumption, EvidenceInv, NEW c \in Evidence!Calls, Evidence!Claim(c)
    PROVE  EvidenceInv'
<1>1. Evidence!TypeOK /\ Evidence!At(c, "claim") /\ call[c].step # "new" /\ errors' \in 0..MaxErrors
  BY ErrorsTyped DEF EvidenceInv, Evidence!Claim, Evidence!At
<1>k. PICK k \in Evidence!Keys : k = Evidence!Key(c)
  BY <1>1, BegunTyped
<1>2. CASE Evidence!Protected(store[k])
  <2>1. Evidence!Go(c, "over") /\ UNCHANGED <<now, store, returned, allowed>>
    BY <1>2, <1>k DEF Evidence!Claim
  <2> QED BY <1>1, <2>1, GivesUp DEF Evidence!At
<1>3. CASE ~Evidence!Protected(store[k])
  <2>1. /\ Evidence!Go(c, "complete") /\ UNCHANGED <<now, returned, allowed>>
        /\ Evidence!Put(k, Evidence!Claimed("held", c, now + call[c].ttl))
    BY <1>3, <1>k DEF Evidence!Claim
  <2>2. /\ call' \in [Evidence!Calls -> CallStates]
        /\ \A d \in Evidence!Calls \ {c} : call'[d] = call[d]
        /\ call'[c].step = "complete"
        /\ call'[c].token = call[c].token /\ call'[c].ttl = call[c].ttl
        /\ call[c].token \in Tokens /\ call[c].ttl \in Nat
    BY <1>1, <2>1, EvidenceGoMoves
  <2>3. k = Evidence!ReplayKey(call[c].token)
    BY <1>k DEF Evidence!Key
  <2>4. now \in 0..MaxTime /\ now + call[c].ttl \in Nat /\ MaxTime \in Nat
    BY <1>1, <2>2 DEF Evidence!TypeOK, Evidence!EvidenceAssumption
  <2>5. /\ store' = [store EXCEPT ![k] = Evidence!Claimed("held", c, now + call[c].ttl)]
        /\ Evidence!Claimed("held", c, now + call[c].ttl) \in
              [phase : {"held", "lapsed", "done"}, owner : Evidence!Calls, until : Nat]
        /\ Evidence!Claimed("held", c, now + call[c].ttl).phase = "held"
        /\ Evidence!Claimed("held", c, now + call[c].ttl).until = now + call[c].ttl
    BY <2>1, <2>4 DEF Evidence!Put, Evidence!Claimed
  <2>6. /\ store'[k] = Evidence!Claimed("held", c, now + call[c].ttl)
        /\ \A j \in Evidence!Keys \ {k} : store'[j] = store[j]
    BY <1>1, <2>3, <2>5 DEF Evidence!TypeOK
  <2>7. Evidence!TypeOK'
    BY <1>1, <2>1, <2>2, <2>5 DEF Evidence!TypeOK, CallStates
  <2>8. LongEnough(call[c].token, now + call[c].ttl)
    BY <1>1 DEF EvidenceInv, ClaimsLast, Evidence!At
  <2>9. ~Done(k)'
    BY <2>5, <2>6 DEF Done
  <2>10. ASSUME NEW t \in Tokens, Evidence!ReplayKey(t) = k
         PROVE  /\ Done(k) => ~Purchase(t) /\ t.exp <= now
                /\ LongEnough(t, store'[k].until)
    <3>1. t = call[c].token \/ (Purchase(t) /\ Purchase(call[c].token))
      BY <2>2, <2>3, <2>10, KeyTellsToken
    <3>2. LongEnough(t, store'[k].until)
      BY <2>5, <2>6, <2>8, <3>1 DEF LongEnough
    <3>3. ASSUME Done(k) PROVE ~Purchase(t) /\ t.exp <= now
      <4>1. store[k] # Evidence!NoClaim /\ ~(store[k].until > now) /\ store[k].until \in Nat
        BY <1>1, <1>3, <2>3, <3>3 DEF Done, Evidence!Protected, Evidence!NoClaim, Evidence!TypeOK
      <4>2. LongEnough(t, store[k].until)
        BY <2>10, <4>1 DEF EvidenceInv, ClaimsLast
      <4>3. t.exp \in Nat
        BY KeyTellsToken
      <4> QED BY <2>4, <4>1, <4>2, <4>3 DEF LongEnough
    <3> QED BY <3>2, <3>3
  <2>11. \A d \in Evidence!Calls : call'[d].step \in {"claim", "complete"} =>
             LongEnough(call'[d].token, now + call'[d].ttl)
    BY <2>2, <2>8 DEF EvidenceInv, ClaimsLast
  <2>12. \A d \in Evidence!Calls : /\ call[d].step \in {"holds", "used"} => call'[d] = call[d]
                                   /\ call'[d].step \in {"holds", "used"} => call'[d] = call[d]
    BY <1>1, <2>2 DEF Evidence!At
  <2> QED BY <2>1, <2>3, <2>6, <2>7, <2>9, <2>10, <2>11, <2>12, ClaimMoves
<1> QED BY <1>2, <1>3

\* What is given back was not completed.
LEMMA ReleaseStep ==
    ASSUME Evidence!EvidenceAssumption, EvidenceInv, NEW c \in Evidence!Calls, Evidence!Release(c)
    PROVE  EvidenceInv'
<1>1. /\ Evidence!TypeOK /\ call[c].step = "release" /\ errors' \in 0..MaxErrors
      /\ Evidence!Go(c, "over") /\ UNCHANGED <<now, returned, allowed>>
  BY ErrorsTyped DEF EvidenceInv, Evidence!Release, Evidence!At
<1>k. PICK k \in Evidence!Keys : k = Evidence!Key(c)
  BY <1>1, BegunTyped
<1>2. CASE UNCHANGED store
  BY <1>1, <1>2, GivesUp
<1>3. CASE Evidence!Owns(c) /\ Evidence!Put(k, Evidence!NoClaim)
  <2>1. /\ call' \in [Evidence!Calls -> CallStates]
        /\ \A d \in Evidence!Calls \ {c} : call'[d] = call[d]
        /\ call'[c].step = "over" /\ call[c].token \in Tokens
    BY <1>1, EvidenceGoMoves
  <2>3. /\ store'[k] = Evidence!NoClaim /\ \A j \in Evidence!Keys \ {k} : store'[j] = store[j]
        /\ store' \in [Evidence!Keys -> {Evidence!NoClaim} \cup
              [phase : {"held", "lapsed", "done"}, owner : Evidence!Calls, until : Nat]]
    BY <1>1, <1>3 DEF Evidence!Put, Evidence!TypeOK
  <2>4. Evidence!TypeOK'
    BY <1>1, <2>1, <2>3 DEF Evidence!TypeOK, CallStates
  <2>5. ~Done(k) /\ ~Done(k)'
    BY <1>3, <1>k, <2>3 DEF Evidence!Owns, Done, Evidence!NoClaim
  <2>6. \A d \in Evidence!Calls : call'[d].step \in {"claim", "complete"} =>
             LongEnough(call'[d].token, now + call'[d].ttl)
    BY <2>1 DEF EvidenceInv, ClaimsLast
  <2>7. \A d \in Evidence!Calls : /\ call[d].step \in {"holds", "used"} => call'[d] = call[d]
                                  /\ call'[d].step \in {"holds", "used"} => call'[d] = call[d]
    BY <1>1, <2>1
  <2> QED BY <1>1, <2>3, <2>4, <2>5, <2>6, <2>7, ClaimMoves
<1> QED BY <1>2, <1>3, <1>k DEF Evidence!Release

\* What lapses was not completed.
LEMMA LapseStep ==
    ASSUME Evidence!EvidenceAssumption, EvidenceInv, NEW k \in Evidence!Keys, Evidence!Lapse(k)
    PROVE  EvidenceInv'
<1>1. /\ Evidence!TypeOK /\ store[k].phase = "held" /\ errors' \in 0..MaxErrors
      /\ store' = [store EXCEPT ![k].phase = "lapsed"]
      /\ UNCHANGED <<now, call, returned, allowed>>
  BY ErrorsTyped DEF EvidenceInv, Evidence!Lapse
<1>2. store[k] \in [phase : {"held", "lapsed", "done"}, owner : Evidence!Calls, until : Nat]
  BY <1>1 DEF Evidence!TypeOK, Evidence!NoClaim
<1> DEFINE lapsed == [store[k] EXCEPT !.phase = "lapsed"]
<1>3. /\ lapsed \in [phase : {"held", "lapsed", "done"}, owner : Evidence!Calls, until : Nat]
      /\ lapsed.phase = "lapsed" /\ lapsed.until = store[k].until
  BY <1>2
<1>4. store' = [store EXCEPT ![k] = lapsed]
  BY <1>1
<1> HIDE DEF lapsed
<1>5. /\ store'[k] = lapsed /\ \A j \in Evidence!Keys \ {k} : store'[j] = store[j]
      /\ store' \in [Evidence!Keys -> {Evidence!NoClaim} \cup
            [phase : {"held", "lapsed", "done"}, owner : Evidence!Calls, until : Nat]]
  BY <1>1, <1>3, <1>4 DEF Evidence!TypeOK
<1>6. Evidence!TypeOK'
  BY <1>1, <1>5 DEF Evidence!TypeOK
<1>7. ~Done(k) /\ ~Done(k)' /\ store[k] # Evidence!NoClaim
  BY <1>1, <1>3, <1>5 DEF Done, Evidence!NoClaim
<1>8. \A t \in Tokens : Evidence!ReplayKey(t) = k => LongEnough(t, store'[k].until)
  BY <1>3, <1>5, <1>7 DEF EvidenceInv, ClaimsLast
<1>9. \A d \in Evidence!Calls : call'[d].step \in {"claim", "complete"} =>
          LongEnough(call'[d].token, now + call'[d].ttl)
  BY <1>1 DEF EvidenceInv, ClaimsLast
<1> QED BY <1>1, <1>5, <1>6, <1>7, <1>8, <1>9, ClaimMoves

\* A claim is completed by its owner, for the first time: nothing was granted
\* on its key before that is still good.
LEMMA CompleteStep ==
    ASSUME Evidence!EvidenceAssumption, EvidenceInv, NEW c \in Evidence!Calls, Evidence!Complete(c)
    PROVE  EvidenceInv'
<1>1. /\ Evidence!TypeOK /\ call[c].step = "complete" /\ errors' \in 0..MaxErrors
      /\ UNCHANGED <<now, allowed>>
  BY ErrorsTyped DEF EvidenceInv, Evidence!Complete, Evidence!At
<1>2. PICK k \in Evidence!Keys : k = Evidence!Key(c)
  BY <1>1, BegunTyped
<1>3. PICK s \in {"holds", "release"} :
          /\ Evidence!Go(c, s)
          /\ \/ returned' = returned
             \/ returned' = Evidence!Count(returned, c) /\ call[c].token.exp > now
  BY DEF Evidence!Complete
<1>4. /\ call' \in [Evidence!Calls -> CallStates]
      /\ \A d \in Evidence!Calls \ {c} : call'[d] = call[d]
      /\ call'[c].step = s /\ call'[c].token = call[c].token
      /\ call[c].token \in Tokens /\ call[c].ttl \in Nat /\ k = Evidence!ReplayKey(call[c].token)
  BY <1>1, <1>2, <1>3, EvidenceGoMoves DEF Evidence!Key
<1>5. /\ ~Done(k) /\ store[k] # Evidence!NoClaim
      /\ store[k] \in [phase : {"held", "lapsed", "done"}, owner : Evidence!Calls, until : Nat]
  BY <1>1, <1>2 DEF Evidence!Complete, Evidence!Owns, Done, Evidence!NoClaim, Evidence!TypeOK
<1>6. PICK until \in {store[k].until, now + call[c].ttl} :
        Evidence!Put(k, Evidence!Claimed("done", c, until))
  BY <1>2 DEF Evidence!Complete
<1>7. until \in Nat
  BY <1>1, <1>4, <1>5, <1>6 DEF Evidence!TypeOK, Evidence!EvidenceAssumption
<1>8. /\ Evidence!Claimed("done", c, until) \in
            [phase : {"held", "lapsed", "done"}, owner : Evidence!Calls, until : Nat]
      /\ Evidence!Claimed("done", c, until).phase = "done"
      /\ Evidence!Claimed("done", c, until).owner = c
      /\ Evidence!Claimed("done", c, until).until = until
      /\ Evidence!Claimed("done", c, until) # Evidence!NoClaim
  BY <1>7 DEF Evidence!Claimed, Evidence!NoClaim
<1>9. /\ store'[k] = Evidence!Claimed("done", c, until)
      /\ \A j \in Evidence!Keys \ {k} : store'[j] = store[j]
      /\ store' \in [Evidence!Keys -> {Evidence!NoClaim} \cup
            [phase : {"held", "lapsed", "done"}, owner : Evidence!Calls, until : Nat]]
  BY <1>1, <1>6, <1>8 DEF Evidence!Put, Evidence!TypeOK
<1>10. /\ returned' \in [Evidence!Keys -> 0..2]
       /\ \A j \in Evidence!Keys : returned[j] = 0 => returned'[j] <= 1
       /\ \A t \in Tokens :
             /\ t # call[c].token \/ call[c].token.exp <= now => returned'[t.jti] = returned[t.jti]
             /\ Purchase(t) /\ k # t.funding => returned'[t.funding] = returned[t.funding]
  <2>1. returned \in [Evidence!Keys -> 0..2] /\ now \in Nat /\ call[c].token.exp \in Nat
    BY <1>1, <1>4, KeyTellsToken DEF Evidence!TypeOK
  <2>2. CASE returned' = returned
    BY <2>1, <2>2
  <2>3. CASE returned' = Evidence!Count(returned, c) /\ call[c].token.exp > now
    BY <1>4, <2>1, <2>3, Counted
  <2> QED BY <1>3, <2>2, <2>3
<1>11. Evidence!TypeOK'
  BY <1>1, <1>4, <1>9, <1>10 DEF Evidence!TypeOK, CallStates
<1>12. ClaimsLast'
  <2>1. ASSUME NEW t \in Tokens, Evidence!ReplayKey(t) = k PROVE LongEnough(t, until)
    <3>1. LongEnough(t, store[k].until)
      BY <1>5, <2>1 DEF EvidenceInv, ClaimsLast
    <3>2. LongEnough(t, now + call[c].ttl)
      <4>1. LongEnough(call[c].token, now + call[c].ttl)
        BY <1>1 DEF EvidenceInv, ClaimsLast
      <4>2. t = call[c].token \/ (Purchase(t) /\ Purchase(call[c].token))
        BY <1>4, <2>1, KeyTellsToken
      <4> QED BY <4>1, <4>2 DEF LongEnough
    <3> QED BY <3>1, <3>2, <1>6
  <2>2. \A t \in Tokens : store'[Evidence!ReplayKey(t)] # Evidence!NoClaim =>
            LongEnough(t, store'[Evidence!ReplayKey(t)].until)
    BY <1>8, <1>9, <2>1, KeyTellsToken DEF EvidenceInv, ClaimsLast
  <2>3. \A d \in Evidence!Calls : call'[d].step \in {"claim", "complete"} =>
            LongEnough(call'[d].token, now + call'[d].ttl)
    BY <1>3, <1>4 DEF EvidenceInv, ClaimsLast
  <2> QED BY <1>1, <2>2, <2>3 DEF ClaimsLast, LongEnough, Purchase, Evidence!ReplayKey
<1>13. \A t \in Tokens : Purchase(t) => Evidence!ReplayKey(t) = t.funding
  BY DEF Purchase, Evidence!ReplayKey
<1>14. \A j \in Evidence!Keys : /\ Done(j)' <=> Done(j) \/ j = k
                                /\ Done(j) => j # k /\ store'[j] = store[j]
  BY <1>5, <1>8, <1>9 DEF Done
<1>15. \A t \in Tokens : t.exp \in Nat /\ now \in Nat
  BY <1>1, KeyTellsToken DEF Evidence!TypeOK
<1>16. ReturnedIsDone'
  <2>1. ASSUME NEW t \in Tokens, returned'[t.jti] > 0
        PROVE  Done(Evidence!ReplayKey(t))' \/ (~Purchase(t) /\ t.exp <= now)
    <3>1. CASE t = call[c].token
      BY <1>4, <1>14, <3>1 DEF Evidence!ReplayKey
    <3>2. CASE t # call[c].token
      BY <1>10, <1>14, <2>1, <3>2, KeyTellsToken DEF EvidenceInv, ReturnedIsDone, Evidence!ReplayKey
    <3> QED BY <3>1, <3>2
  <2>2. ASSUME NEW t \in Tokens, Purchase(t), returned'[t.funding] > 0 PROVE Done(t.funding)'
    <3>1. t.funding \in Evidence!Keys
      BY KeyTellsToken
    <3>2. CASE k = t.funding
      BY <1>14, <3>1, <3>2
    <3>3. CASE k # t.funding
      BY <1>10, <1>14, <2>2, <3>1, <3>3 DEF EvidenceInv, ReturnedIsDone
    <3> QED BY <3>2, <3>3
  <2> QED BY <1>1, <2>1, <2>2 DEF ReturnedIsDone, Purchase
<1>17. Evidence!GrantedOnce'
  <2>1. ASSUME NEW t \in Tokens PROVE returned'[t.jti] <= 1
    <3>1. t.jti \in Evidence!Keys /\ returned[t.jti] \in 0..2 /\ returned[t.jti] <= 1
      BY <1>1, KeyTellsToken DEF EvidenceInv, Evidence!GrantedOnce, Evidence!TypeOK
    <3>2. CASE t # call[c].token \/ call[c].token.exp <= now
      BY <1>10, <3>1, <3>2
    <3>3. CASE t = call[c].token /\ ~(call[c].token.exp <= now)
      <4>1. ~(returned[t.jti] > 0)
        BY <1>4, <1>5, <3>3 DEF EvidenceInv, ReturnedIsDone
      <4> QED BY <1>10, <3>1, <4>1
    <3> QED BY <3>2, <3>3
  <2>2. ASSUME NEW t \in Tokens, Purchase(t) PROVE returned'[t.funding] <= 1
    <3>1. t.funding \in Evidence!Keys /\ returned[t.funding] \in 0..2 /\ returned[t.funding] <= 1
      BY <1>1, <2>2, KeyTellsToken DEF EvidenceInv, Evidence!GrantedOnce, Evidence!TypeOK, Purchase
    <3>2. CASE k # t.funding
      BY <1>10, <2>2, <3>1, <3>2
    <3>3. CASE k = t.funding
      <4>1. ~(returned[t.funding] > 0)
        BY <1>5, <2>2, <3>3 DEF EvidenceInv, ReturnedIsDone
      <4> QED BY <1>10, <3>1, <4>1
    <3> QED BY <3>2, <3>3
  <2> QED BY <1>1, <2>1, <2>2 DEF EvidenceInv, Evidence!GrantedOnce, Purchase
<1>18. HoldersOwn'
  <2>1. ASSUME NEW d \in Evidence!Calls, call'[d].step \in {"holds", "used"},
               Purchase(call'[d].token)
        PROVE  Done(Evidence!Key(d))' /\ (store[Evidence!Key(d)].owner = d)'
    <3>1. CASE d = c
      <4>1. Evidence!Key(c)' = k
        BY <1>4 DEF Evidence!Key, Evidence!ReplayKey
      <4> QED BY <1>8, <1>9, <3>1, <4>1 DEF Done
    <3>2. CASE d # c
      <4>1. call'[d] = call[d]
        BY <1>4, <3>2
      <4>2. Done(Evidence!Key(d)) /\ store[Evidence!Key(d)].owner = d
            /\ Evidence!Key(d) \in Evidence!Keys
        BY <1>1, <2>1, <4>1, BegunTyped DEF EvidenceInv, HoldersOwn
      <4>3. Evidence!Key(d)' = Evidence!Key(d)
        BY <4>1 DEF Evidence!Key, Evidence!ReplayKey
      <4>4. store'[Evidence!Key(d)] = store[Evidence!Key(d)]
        BY <1>14, <4>2
      <4> QED BY <4>2, <4>3, <4>4 DEF Done
    <3> QED BY <3>1, <3>2
  <2> QED BY <2>1 DEF HoldersOwn, Purchase
<1>19. AllowedIsUsed'
  <2>1. ASSUME NEW t \in Tokens, Purchase(t), allowed[t.funding] > 0
        PROVE  Done(t.funding)' /\ Evidence!At(store[t.funding].owner, "used")'
    <3>1. Done(t.funding) /\ Evidence!At(store[t.funding].owner, "used")
          /\ t.funding \in Evidence!Keys
      BY <2>1, KeyTellsToken DEF EvidenceInv, AllowedIsUsed
    <3>2. store[t.funding].owner \in Evidence!Calls
      BY <1>1, <3>1 DEF Evidence!TypeOK, Done, Evidence!NoClaim
    <3>3. Done(t.funding)' /\ store'[t.funding] = store[t.funding]
      BY <1>14, <3>1
    <3>4. store[t.funding].owner # c
      BY <1>1, <3>1 DEF Evidence!At
    <3> QED BY <1>4, <3>1, <3>2, <3>3, <3>4 DEF Evidence!At
  <2> QED BY <1>1, <2>1 DEF AllowedIsUsed, Purchase
<1> QED BY <1>11, <1>12, <1>16, <1>17, <1>18, <1>19 DEF EvidenceInv

\* A call ends, in an error or with its process.
LEMMA EvidenceEndStep ==
    ASSUME Evidence!EvidenceAssumption, EvidenceInv, NEW c \in Evidence!Calls,
           Evidence!CompleteThrows(c) \/ Evidence!CallDies(c)
    PROVE  EvidenceInv'
<1>1. Evidence!TypeOK /\ errors' \in 0..MaxErrors
  BY ErrorsTyped DEF EvidenceInv, Evidence!CompleteThrows, Evidence!CallDies
<1>2. CASE Evidence!CompleteThrows(c)
  BY <1>1, <1>2, GivesUp DEF Evidence!CompleteThrows, Evidence!At
<1>3. CASE Evidence!CallDies(c)
  BY <1>1, <1>3, GivesUp DEF Evidence!CallDies
<1> QED BY <1>2, <1>3

\* The holder of a purchase's evidence owns its claim and has not used it:
\* nobody else has.
LEMMA AllowStep ==
    ASSUME Evidence!EvidenceAssumption, EvidenceInv, NEW c \in Evidence!Calls, Evidence!Allow(c)
    PROVE  EvidenceInv'
<1>1. /\ Evidence!TypeOK /\ call[c].step = "holds" /\ errors' \in 0..MaxErrors
      /\ UNCHANGED <<now, store, returned>> /\ allowed' = Evidence!Count(allowed, c)
  BY ErrorsTyped DEF EvidenceInv, Evidence!Allow, Evidence!At
<1>2. Evidence!Key(c) \in Evidence!Keys /\ call[c].token \in Tokens /\ call[c].ttl \in Nat
  BY <1>1, BegunTyped
<1>3. /\ call' \in [Evidence!Calls -> CallStates]
      /\ \A d \in Evidence!Calls \ {c} : call'[d] = call[d]
      /\ call'[c].token = call[c].token
      /\ call'[c].step = IF Purchase(call[c].token) THEN "used" ELSE "holds"
  <2>1. CASE Purchase(call[c].token)
    <3>1. Evidence!Go(c, "used")
      BY <2>1 DEF Evidence!Allow, Evidence!Consumes, Purchase
    <3> QED BY <1>1, <2>1, <3>1, EvidenceGoMoves
  <2>2. CASE ~Purchase(call[c].token)
    <3>1. UNCHANGED call
      BY <2>2 DEF Evidence!Allow, Evidence!Consumes, Purchase
    <3> QED BY <1>1, <2>2, <3>1 DEF Evidence!TypeOK, CallStates
  <2> QED BY <2>1, <2>2
<1>4. /\ allowed' \in [Evidence!Keys -> 0..2]
      /\ \A j \in Evidence!Keys : allowed[j] = 0 => allowed'[j] <= 1
      /\ \A t \in Tokens : Purchase(t) /\ Evidence!ReplayKey(call[c].token) # t.funding =>
            allowed'[t.funding] = allowed[t.funding]
  BY <1>1, <1>2, Counted DEF Evidence!TypeOK
<1>5. Evidence!TypeOK'
  BY <1>1, <1>3, <1>4 DEF Evidence!TypeOK, CallStates
<1>6. ClaimsLast' /\ ReturnedIsDone'
  BY <1>1, <1>3 DEF EvidenceInv, ClaimsLast, ReturnedIsDone, LongEnough, Done, Purchase
<1>7. HoldersOwn'
  BY <1>1, <1>3 DEF EvidenceInv, HoldersOwn, Evidence!Key, Done, Purchase
<1>8. ASSUME NEW t \in Tokens, Purchase(t), Evidence!ReplayKey(call[c].token) = t.funding
      PROVE  /\ allowed[t.funding] = 0 /\ Done(t.funding)
             /\ store[t.funding].owner = c /\ call'[c].step = "used"
  <2>1. Evidence!ReplayKey(t) = t.funding
    BY <1>8 DEF Purchase, Evidence!ReplayKey
  <2>2. Purchase(call[c].token)
    BY <1>2, <1>8, <2>1, KeyTellsToken
  <2>3. Done(t.funding) /\ store[t.funding].owner = c
    BY <1>1, <1>8, <2>2 DEF EvidenceInv, HoldersOwn, Evidence!Key
  <2>4. ~(allowed[t.funding] > 0)
    BY <1>1, <1>8, <2>3 DEF EvidenceInv, AllowedIsUsed, Evidence!At
  <2>5. allowed[t.funding] \in 0..2
    BY <1>1, KeyTellsToken DEF Evidence!TypeOK
  <2> QED BY <1>3, <2>2, <2>3, <2>4, <2>5
<1>9. AllowedIsUsed'
  <2>1. ASSUME NEW t \in Tokens, Purchase(t), allowed'[t.funding] > 0
        PROVE  Done(t.funding) /\ call'[store[t.funding].owner].step = "used"
    <3>1. CASE Evidence!ReplayKey(call[c].token) = t.funding
      BY <1>8, <2>1, <3>1
    <3>2. CASE Evidence!ReplayKey(call[c].token) # t.funding
      <4>1. Done(t.funding) /\ Evidence!At(store[t.funding].owner, "used")
            /\ t.funding \in Evidence!Keys
        BY <1>4, <2>1, <3>2, KeyTellsToken DEF EvidenceInv, AllowedIsUsed
      <4>2. store[t.funding].owner \in Evidence!Calls
        BY <1>1, <4>1 DEF Evidence!TypeOK, Done, Evidence!NoClaim
      <4> QED BY <1>1, <1>3, <4>1, <4>2 DEF Evidence!At
    <3> QED BY <3>1, <3>2
  <2> QED BY <1>1, <2>1 DEF AllowedIsUsed, Done, Evidence!At, Purchase
<1>10. Evidence!GrantedOnce'
  <2>1. ASSUME NEW t \in Tokens, Purchase(t) PROVE allowed'[t.funding] <= 1
    BY <1>4, <1>8, <2>1, KeyTellsToken DEF EvidenceInv, Evidence!GrantedOnce, Purchase
  <2> QED BY <1>1, <2>1 DEF EvidenceInv, Evidence!GrantedOnce, Purchase
<1> QED BY <1>5, <1>6, <1>7, <1>9, <1>10 DEF EvidenceInv

---------------------------------------------------------------------------
(* Billing evidence: the theorems                                          *)

\* Every step preserves the invariant.
LEMMA EvidenceInvariantStep ==
    ASSUME Evidence!EvidenceAssumption, EvidenceInv, [Evidence!Next]_Evidence!vars
    PROVE  EvidenceInv'
<1>1. CASE Evidence!Tick
  BY <1>1, EvidenceTickStep
<1>2. ASSUME NEW c \in Evidence!Calls, NEW t \in Tokens, Evidence!Verify(c, t) PROVE EvidenceInv'
  BY <1>2, VerifyStep
<1>3. ASSUME NEW c \in Evidence!Calls, Evidence!Claim(c) PROVE EvidenceInv'
  BY <1>3, ClaimStep
<1>4. ASSUME NEW c \in Evidence!Calls, Evidence!Complete(c) PROVE EvidenceInv'
  BY <1>4, CompleteStep
<1>5. ASSUME NEW c \in Evidence!Calls, Evidence!CompleteThrows(c) \/ Evidence!CallDies(c)
      PROVE  EvidenceInv'
  BY <1>5, EvidenceEndStep
<1>6. ASSUME NEW c \in Evidence!Calls, Evidence!Release(c) PROVE EvidenceInv'
  BY <1>6, ReleaseStep
<1>7. ASSUME NEW c \in Evidence!Calls, Evidence!Allow(c) PROVE EvidenceInv'
  BY <1>7, AllowStep
<1>8. ASSUME NEW k \in Evidence!Keys, Evidence!Lapse(k) PROVE EvidenceInv'
  BY <1>8, LapseStep
<1>9. CASE UNCHANGED Evidence!vars
  BY <1>9 DEF Evidence!vars, EvidenceInv, Evidence!TypeOK, ClaimsLast, ReturnedIsDone, HoldersOwn,
     AllowedIsUsed,
     Evidence!GrantedOnce, LongEnough, Done, Purchase, Evidence!Key, Evidence!ReplayKey, Evidence!At
<1> QED BY <1>1, <1>2, <1>3, <1>4, <1>5, <1>6, <1>7, <1>8, <1>9 DEF Evidence!Next

\* What verification keeps, in the calls and in the replay store, has its type
\* throughout.
THEOREM EvidenceTypeCorrect ==
    ASSUME Evidence!EvidenceAssumption
    PROVE  Evidence!Spec => []Evidence!TypeOK
<1>1. EvidenceInv /\ [Evidence!Next]_Evidence!vars => EvidenceInv'
  BY EvidenceInvariantStep
<1>2. EvidenceInv => Evidence!TypeOK
  BY DEF EvidenceInv
<1> QED BY EvidenceInitEstablishes, <1>1, <1>2, PTL DEF Evidence!Spec

\* verifyTrustedPlatformEvidence and decideBillingAccess sell a purchase once,
\* and make one evidence of a token that is still good.
THEOREM PurchaseGrantedOnce ==
    ASSUME Evidence!EvidenceAssumption
    PROVE  Evidence!Spec => []Evidence!GrantedOnce
<1>1. EvidenceInv /\ [Evidence!Next]_Evidence!vars => EvidenceInv'
  BY EvidenceInvariantStep
<1>2. EvidenceInv => Evidence!GrantedOnce
  BY DEF EvidenceInv
<1> QED BY EvidenceInitEstablishes, <1>1, <1>2, PTL DEF Evidence!Spec

---------------------------------------------------------------------------
(* Event routing: the invariant                                            *)

\* What is kept of a call.
CallRecords ==
    [kind : Routing!Kinds, step : Routing!Steps, batch : Batches \cup {<<>>}, at : Nat \ {0},
     lawful : SUBSET {"grant", "connection"}]

\* The steps a call of each kind goes through.
StepsOf(kind) ==
    CASE kind = "none"     -> {"new"}
      [] kind = "delivery" -> {"check", "put", "list", "grant", "handle", "done", "failed"}
      [] kind = "dispatch" -> {"list", "grant", "handle", "done", "failed"}
      [] kind = "bundle"   -> {"grant", "connection", "issue", "done", "failed"}
      [] kind = "install"  -> {"resolve", "create", "subscribe", "store", "done", "failed"}

\* What a delivery has passed is in the event store k, and so is the event it
\* is dispatching; it is answered after its last event.
Delivered(r, k) ==
    r.kind = "delivery" =>
        /\ r.batch \in Batches
        /\ \A i \in DOMAIN r.batch : i < r.at => r.batch[i] \in k
        /\ r.step \in {"put", "list", "grant", "handle"} => r.at <= Len(r.batch)
        /\ r.step \in {"list", "grant", "handle"} => r.batch[r.at] \in k
        /\ r.step = "done" => r.at > Len(r.batch)

\* Authority that holds now has been noted by every call under way, and what a
\* call has checked it has noted.
Authorized(r, g, c) ==
    /\ r.step # "new" =>
          /\ g = "active" => "grant" \in r.lawful
          /\ c => "connection" \in r.lawful
    /\ r.step \in {"handle", "connection", "issue"} => "grant" \in r.lawful
    /\ r.kind = "bundle" /\ r.step = "done" => r.lawful = {"grant", "connection"}

Consistent(r, k, g, c) ==
    r.step \in StepsOf(r.kind) /\ Delivered(r, k) /\ Authorized(r, g, c)

RoutingInv ==
    /\ Routing!TypeOK
    /\ \A a \in Routing!Calls : Consistent(calls[a], kept, grant, connected)

---------------------------------------------------------------------------
(* Event routing: the steps                                                *)

\* Events are only added and authority is only lost: calls that do not move
\* stay consistent.
LEMMA StaysConsistent ==
    ASSUME NEW r, NEW k, NEW k2, NEW g, NEW g2, NEW c, NEW c2, Consistent(r, k, g, c),
           k \subseteq k2, g2 = "active" => g = "active", c2 => c
    PROVE  Consistent(r, k2, g2, c2)
BY DEF Consistent, Delivered, Authorized

\* One call moves, and stays consistent itself.
LEMMA RoutingCallStep ==
    ASSUME RoutingInv, Routing!TypeOK', NEW a \in Routing!Calls,
           \A b \in Routing!Calls \ {a} : calls'[b] = calls[b],
           kept \subseteq kept', grant' = "active" => grant = "active", connected' => connected,
           Consistent(calls'[a], kept', grant', connected')
    PROVE  RoutingInv'
<1>1. ASSUME NEW b \in Routing!Calls PROVE Consistent(calls'[b], kept', grant', connected')
  <2>1. CASE b = a
    BY <2>1
  <2>2. CASE b # a
    <3>1. Consistent(calls[b], kept, grant, connected) /\ calls'[b] = calls[b]
      BY <2>2 DEF RoutingInv
    <3> QED BY <3>1, StaysConsistent
  <2> QED BY <2>1, <2>2
<1> QED BY <1>1 DEF RoutingInv

\* A call goes to its next step.
LEMMA RoutingGoMoves ==
    ASSUME Routing!TypeOK, NEW a \in Routing!Calls, NEW s \in Routing!Steps, Routing!Go(a, s)
    PROVE  /\ calls' \in [Routing!Calls -> CallRecords] /\ calls[a] \in CallRecords
           /\ \A b \in Routing!Calls \ {a} : calls'[b] = calls[b]
           /\ calls'[a].step = s /\ calls'[a].kind = calls[a].kind
           /\ calls'[a].batch = calls[a].batch /\ calls'[a].at = calls[a].at
           /\ calls'[a].lawful = calls[a].lawful
<1>1. calls[a] \in CallRecords
  BY DEF Routing!TypeOK, CallRecords
<1> DEFINE r == [calls[a] EXCEPT !.step = s]
<1>2. /\ r \in CallRecords /\ r.step = s /\ r.kind = calls[a].kind
      /\ r.batch = calls[a].batch /\ r.at = calls[a].at /\ r.lawful = calls[a].lawful
  BY <1>1 DEF CallRecords
<1>3. calls' = [calls EXCEPT ![a] = r]
  BY DEF Routing!Go
<1> HIDE DEF r
<1> QED BY <1>1, <1>2, <1>3 DEF Routing!TypeOK, CallRecords

\* A delivery turns to the next event.
LEMMA NextMoves ==
    ASSUME Routing!TypeOK, NEW a \in Routing!Calls, Routing!NextEvent(a)
    PROVE  /\ calls' \in [Routing!Calls -> CallRecords] /\ calls[a] \in CallRecords
           /\ \A b \in Routing!Calls \ {a} : calls'[b] = calls[b]
           /\ calls'[a].step = "check" /\ calls'[a].kind = calls[a].kind
           /\ calls'[a].batch = calls[a].batch /\ calls'[a].at = calls[a].at + 1
           /\ calls'[a].lawful = calls[a].lawful
<1>1. calls[a] \in CallRecords
  BY DEF Routing!TypeOK, CallRecords
<1> DEFINE q == [calls[a] EXCEPT !.step = "check"]
           r == [q EXCEPT !.at = calls[a].at + 1]
<1>3. calls' = [calls EXCEPT ![a] = r]
  BY DEF Routing!NextEvent
<1>q. /\ q \in CallRecords /\ q.step = "check" /\ q.kind = calls[a].kind
      /\ q.batch = calls[a].batch /\ q.at = calls[a].at /\ q.lawful = calls[a].lawful
  BY <1>1 DEF CallRecords, Routing!Steps
<1> HIDE DEF q
<1>2. /\ r \in CallRecords /\ r.step = "check" /\ r.kind = calls[a].kind
      /\ r.batch = calls[a].batch /\ r.at = calls[a].at + 1 /\ r.lawful = calls[a].lawful
  BY <1>1, <1>q DEF CallRecords
<1> HIDE DEF r
<1> QED BY <1>1, <1>2, <1>3 DEF Routing!TypeOK, CallRecords

\* A call goes on; the authority stays as it is.
LEMMA RoutingGoStep ==
    ASSUME RoutingInv, NEW a \in Routing!Calls, NEW s \in Routing!Steps, Routing!Go(a, s),
           UNCHANGED <<grant, connected>>, kept \subseteq kept', kept' \subseteq Routing!Events,
           workflow' \in {"none", "active"}, outages' \in 0..MaxErrors,
           s \in StepsOf(calls[a].kind), calls[a].step # "new",
           calls[a].kind = "delivery" =>
               /\ s \in {"put", "list", "grant", "handle"} => calls[a].at <= Len(calls[a].batch)
               /\ s \in {"list", "grant", "handle"} => calls[a].batch[calls[a].at] \in kept'
               /\ s = "done" => calls[a].at > Len(calls[a].batch),
           s \in {"handle", "connection", "issue"} => "grant" \in calls[a].lawful,
           calls[a].kind = "bundle" /\ s = "done" => calls[a].lawful = {"grant", "connection"}
    PROVE  RoutingInv'
<1>1. Routing!TypeOK /\ Consistent(calls[a], kept, grant, connected)
  BY DEF RoutingInv
<1>2. /\ calls' \in [Routing!Calls -> CallRecords]
      /\ \A b \in Routing!Calls \ {a} : calls'[b] = calls[b]
      /\ calls'[a].step = s /\ calls'[a].kind = calls[a].kind
      /\ calls'[a].batch = calls[a].batch /\ calls'[a].at = calls[a].at
      /\ calls'[a].lawful = calls[a].lawful
  BY <1>1, RoutingGoMoves
<1>3. Routing!TypeOK'
  BY <1>1, <1>2 DEF Routing!TypeOK, CallRecords
<1>4. Consistent(calls'[a], kept', grant, connected)
  BY <1>1, <1>2 DEF Consistent, Delivered, Authorized
<1> QED BY <1>2, <1>3, <1>4, RoutingCallStep

\* A delivery passes an event that is kept.
LEMMA PassStep ==
    ASSUME Routing!RoutingAssumption, RoutingInv, NEW a \in Routing!Calls, Routing!NextEvent(a),
           Routing!Reads,
           calls[a].kind = "delivery", calls[a].step # "new",
           calls[a].at <= Len(calls[a].batch), calls[a].batch[calls[a].at] \in kept
    PROVE  RoutingInv'
<1>1. Routing!TypeOK /\ Consistent(calls[a], kept, grant, connected)
  BY DEF RoutingInv
<1>2. /\ calls' \in [Routing!Calls -> CallRecords] /\ calls[a] \in CallRecords
      /\ \A b \in Routing!Calls \ {a} : calls'[b] = calls[b]
      /\ calls'[a].step = "check" /\ calls'[a].kind = calls[a].kind
      /\ calls'[a].batch = calls[a].batch /\ calls'[a].at = calls[a].at + 1
      /\ calls'[a].lawful = calls[a].lawful
  BY <1>1, NextMoves
<1>3. Routing!TypeOK'
  BY <1>1, <1>2 DEF Routing!TypeOK, CallRecords, Routing!Reads
<1>4. calls[a].at \in Nat /\ DOMAIN calls[a].batch = 1..Len(calls[a].batch)
  BY <1>1, <1>2 DEF CallRecords, Consistent, Delivered, Routing!RoutingAssumption
<1>5. Delivered(calls'[a], kept)
  BY <1>1, <1>2, <1>4 DEF Consistent, Delivered
<1>6. Consistent(calls'[a], kept, grant, connected)
  BY <1>1, <1>2, <1>5 DEF Consistent, Authorized, StepsOf
<1> QED BY <1>2, <1>3, <1>6, RoutingCallStep DEF Routing!Reads

\* The kind of a call is told by its step, and a delivery has its place in the
\* payload.
LEMMA KindOf ==
    ASSUME Routing!RoutingAssumption, RoutingInv, NEW a \in Routing!Calls
    PROVE  /\ Routing!TypeOK /\ calls[a] \in CallRecords
           /\ Consistent(calls[a], kept, grant, connected)
           /\ calls[a].step = "new" <=> calls[a].kind = "none"
           /\ calls[a].step \in {"check", "put"} => calls[a].kind = "delivery"
           /\ calls[a].step \in {"list", "handle"} => calls[a].kind \in {"delivery", "dispatch"}
           /\ calls[a].step = "grant" => calls[a].kind \in {"delivery", "dispatch", "bundle"}
           /\ calls[a].step \in {"connection", "issue"} => calls[a].kind = "bundle"
           /\ calls[a].step \in {"resolve", "create", "subscribe", "store"} =>
                  calls[a].kind = "install"
           /\ calls[a].kind = "delivery" =>
                  /\ Len(calls[a].batch) \in Nat
                  /\ DOMAIN calls[a].batch = 1..Len(calls[a].batch)
                  /\ calls[a].batch \in Batches
<1>1. /\ Routing!TypeOK /\ calls[a] \in CallRecords /\ Consistent(calls[a], kept, grant, connected)
      /\ calls[a].kind \in Routing!Kinds /\ calls[a].step \in StepsOf(calls[a].kind)
  BY DEF RoutingInv, Routing!TypeOK, CallRecords, Consistent
<1> QED BY <1>1 DEF Routing!Kinds, StepsOf, Consistent, Delivered, Routing!RoutingAssumption

\* Typing of a step that only reads.
LEMMA ReadsTyped ==
    ASSUME Routing!TypeOK, Routing!Reads
    PROVE  /\ UNCHANGED <<grant, connected>> /\ kept \subseteq kept'
           /\ kept' \subseteq Routing!Events
           /\ workflow' \in {"none", "active"} /\ outages' \in 0..MaxErrors
BY DEF Routing!TypeOK, Routing!Reads

\* At first no call has begun.
LEMMA RoutingInitEstablishes == Routing!RoutingAssumption /\ Routing!Init => RoutingInv
<1> SUFFICES ASSUME Routing!RoutingAssumption, Routing!Init PROVE RoutingInv
  OBVIOUS
<1>1. Routing!Call("none", "new", <<>>, {}) \in CallRecords
  BY DEF Routing!Call, CallRecords, Routing!Kinds, Routing!Steps
<1>2. Routing!TypeOK
  BY <1>1 DEF Routing!Init, Routing!TypeOK, CallRecords, Routing!RoutingAssumption
<1>3. ASSUME NEW a \in Routing!Calls PROVE Consistent(calls[a], kept, grant, connected)
  <2>1. calls[a].kind = "none" /\ calls[a].step = "new"
    BY DEF Routing!Init, Routing!Call
  <2> QED BY <2>1 DEF Consistent, Delivered, Authorized, StepsOf
<1> QED BY <1>2, <1>3 DEF RoutingInv

\* A call begins; the authority that it finds is noted.
LEMMA RoutingStartStep ==
    ASSUME Routing!RoutingAssumption, RoutingInv, NEW a \in Routing!Calls,
           NEW kind \in Routing!Kinds, NEW step \in Routing!Steps,
           NEW batch \in Batches \cup {<<>>}, Routing!Start(a, kind, step, batch),
           step \in StepsOf(kind), kind # "none",
           step \notin {"new", "put", "handle", "connection", "issue", "done"},
           kind = "delivery" => step = "check" /\ batch \in Batches
    PROVE  RoutingInv'
<1> DEFINE lawful == {x \in {"grant"} : grant = "active"} \cup {x \in {"connection"} : connected}
           r == Routing!Call(kind, step, batch, lawful)
<1>1. Routing!TypeOK /\ UNCHANGED <<kept, workflow, grant, connected, outages>>
  BY DEF RoutingInv, Routing!Start, Routing!Reads
<1>2. /\ r \in CallRecords /\ r.kind = kind /\ r.step = step /\ r.batch = batch /\ r.at = 1
      /\ r.lawful = lawful
  BY DEF Routing!Call, CallRecords
<1>3. calls' = [calls EXCEPT ![a] = r]
  BY DEF Routing!Start
<1>4. (grant = "active" => "grant" \in lawful) /\ (connected => "connection" \in lawful)
  OBVIOUS
<1> HIDE DEF lawful, r
<1>5. calls'[a] = r /\ \A b \in Routing!Calls \ {a} : calls'[b] = calls[b]
  BY <1>1, <1>3 DEF Routing!TypeOK
<1>6. Routing!TypeOK'
  BY <1>1, <1>2, <1>3 DEF Routing!TypeOK, CallRecords
<1>7. Delivered(r, kept)
  <2>1. ASSUME kind = "delivery" PROVE DOMAIN batch \subseteq Nat \ {0}
    BY <2>1 DEF Routing!RoutingAssumption
  <2> QED BY <1>2, <2>1 DEF Delivered
<1>8. Consistent(r, kept, grant, connected)
  BY <1>2, <1>4, <1>7 DEF Consistent, Authorized
<1> QED BY <1>1, <1>5, <1>6, <1>8, RoutingCallStep

\* Each kind of call begins at a step of its own.
LEMMA RoutingBeginStep ==
    ASSUME Routing!RoutingAssumption, RoutingInv, NEW a \in Routing!Calls, Routing!Begin(a)
    PROVE  RoutingInv'
<1>1. ASSUME NEW b \in Batches, Routing!Start(a, "delivery", "check", b) PROVE RoutingInv'
  BY <1>1, RoutingStartStep DEF Routing!Kinds, Routing!Steps, StepsOf
<1>2. CASE Routing!Start(a, "dispatch", "list", <<>>)
  BY <1>2, RoutingStartStep DEF Routing!Kinds, Routing!Steps, StepsOf
<1>3. CASE Routing!Start(a, "bundle", "grant", <<>>)
  BY <1>3, RoutingStartStep DEF Routing!Kinds, Routing!Steps, StepsOf
<1>4. CASE Routing!Start(a, "install", "resolve", <<>>)
  BY <1>4, RoutingStartStep DEF Routing!Kinds, Routing!Steps, StepsOf
<1> QED BY <1>1, <1>2, <1>3, <1>4 DEF Routing!Begin

\* A delivery is answered behind its last event, and passes events that are
\* kept.
LEMMA CheckStep ==
    ASSUME Routing!RoutingAssumption, RoutingInv, NEW a \in Routing!Calls, Routing!Check(a)
    PROVE  RoutingInv'
<1>1. /\ calls[a].step = "check" /\ calls[a].kind = "delivery" /\ Routing!Reads /\ Routing!TypeOK
      /\ Len(calls[a].batch) \in Nat /\ calls[a].at \in Nat
  BY KindOf DEF Routing!Check, Routing!At, CallRecords
<1>2. CASE calls[a].at > Len(calls[a].batch)
  <2>1. Routing!Go(a, "done")
    BY <1>2 DEF Routing!Check
  <2> QED BY <1>1, <1>2, <2>1, ReadsTyped, RoutingGoStep DEF Routing!Steps, StepsOf
<1>3. CASE calls[a].at <= Len(calls[a].batch) /\ Routing!Event(a) \in kept
  <2>1. Routing!NextEvent(a)
    BY <1>1, <1>3 DEF Routing!Check
  <2> QED BY <1>1, <1>3, <2>1, PassStep DEF Routing!Event
<1>4. CASE calls[a].at <= Len(calls[a].batch) /\ Routing!Event(a) \notin kept
  <2>1. Routing!Go(a, "put")
    BY <1>1, <1>4 DEF Routing!Check
  <2> QED BY <1>1, <1>4, <2>1, ReadsTyped, RoutingGoStep DEF Routing!Steps, StepsOf
<1> QED BY <1>1, <1>2, <1>3, <1>4

\* The event that is put is the one dispatched next.
LEMMA PutStep ==
    ASSUME Routing!RoutingAssumption, RoutingInv, NEW a \in Routing!Calls, Routing!PutEvent(a)
    PROVE  RoutingInv'
<1>1. /\ calls[a].step = "put" /\ calls[a].kind = "delivery" /\ Routing!TypeOK
      /\ Routing!Go(a, "list")
      /\ kept' = kept \cup {Routing!Event(a)} /\ UNCHANGED <<workflow, grant, connected, outages>>
  BY KindOf DEF Routing!PutEvent, Routing!At
<1>2. calls[a].at \in 1..Len(calls[a].batch) /\ calls[a].batch \in Batches
  BY <1>1, KindOf DEF Consistent, Delivered, CallRecords
<1>3. Routing!Event(a) \in Routing!Events
  BY <1>1, <1>2, KindOf DEF Routing!Event, Routing!Events
<1>4. kept \subseteq kept' /\ kept' \subseteq Routing!Events
      /\ calls[a].batch[calls[a].at] \in kept'
  BY <1>1, <1>3 DEF Routing!TypeOK, Routing!Event
<1>5. workflow' \in {"none", "active"} /\ outages' \in 0..MaxErrors
  BY <1>1 DEF Routing!TypeOK
<1> QED BY <1>1, <1>2, <1>4, <1>5, RoutingGoStep DEF Routing!Steps, StepsOf

\* The receiver's handler returns: on to the next event, or done.
LEMMA RoutedStep ==
    ASSUME Routing!RoutingAssumption, RoutingInv, NEW a \in Routing!Calls, Routing!Routed(a),
           Routing!Reads,
           calls[a].step \in {"list", "grant", "handle"}, calls[a].kind # "bundle"
    PROVE  RoutingInv'
<1>1. Routing!TypeOK /\ calls[a].kind \in {"delivery", "dispatch"}
  BY KindOf
<1>2. CASE calls[a].kind = "delivery"
  <2>1. Routing!NextEvent(a)
    BY <1>2 DEF Routing!Routed, Routing!Is
  <2>2. calls[a].at <= Len(calls[a].batch) /\ calls[a].batch[calls[a].at] \in kept
    BY <1>2, KindOf DEF Consistent, Delivered
  <2> QED BY <1>2, <2>1, <2>2, PassStep
<1>3. CASE calls[a].kind = "dispatch"
  <2>1. Routing!Go(a, "done")
    BY <1>3 DEF Routing!Routed, Routing!Is
  <2> QED BY <1>1, <1>3, <2>1, ReadsTyped, RoutingGoStep DEF Routing!Steps, StepsOf
<1> QED BY <1>1, <1>2, <1>3

\* The steps of dispatchEvent and of a bundle's grant.
LEMMA DispatchSteps ==
    ASSUME Routing!RoutingAssumption, RoutingInv, NEW a \in Routing!Calls,
           Routing!ListWorkflows(a) \/ Routing!ReadGrant(a) \/ Routing!Handle(a)
    PROVE  RoutingInv'
<1>1. Routing!TypeOK /\ Routing!Reads /\ calls[a].step \in {"list", "grant", "handle"}
  BY KindOf DEF Routing!ListWorkflows, Routing!ReadGrant, Routing!Handle, Routing!At
<1>2. calls[a].kind = "delivery" =>
          calls[a].at <= Len(calls[a].batch) /\ calls[a].batch[calls[a].at] \in kept
  BY <1>1, KindOf DEF Consistent, Delivered
<1>3. grant = "active" => "grant" \in calls[a].lawful
  BY <1>1, KindOf DEF Consistent, Authorized
<1>4. CASE Routing!Routed(a) /\ calls[a].kind # "bundle"
  BY <1>1, <1>4, RoutedStep
<1>5. CASE calls[a].step = "list" /\ Routing!Go(a, "grant")
  <2>1. calls[a].kind \in {"delivery", "dispatch"}
    BY <1>5, KindOf
  <2> QED BY <1>1, <1>2, <1>5, <2>1, ReadsTyped, RoutingGoStep DEF Routing!Steps, StepsOf
<1>6. CASE calls[a].kind # "bundle" /\ grant = "active" /\ Routing!Go(a, "handle")
  <2>1. calls[a].kind \in {"delivery", "dispatch"}
    BY <1>1, <1>6, KindOf
  <2> QED BY <1>1, <1>2, <1>3, <1>6, <2>1, ReadsTyped, RoutingGoStep DEF Routing!Steps, StepsOf
<1>7. CASE calls[a].kind = "bundle" /\ grant = "active" /\ Routing!Go(a, "connection")
  BY <1>1, <1>3, <1>7, ReadsTyped, RoutingGoStep DEF Routing!Steps, StepsOf
<1>8. CASE calls[a].kind = "bundle" /\ Routing!Go(a, "failed")
  BY <1>1, <1>8, ReadsTyped, RoutingGoStep DEF Routing!Steps, StepsOf
<1>9. calls[a].step \in {"list", "handle"} => calls[a].kind # "bundle"
  BY KindOf
<1> QED BY <1>4, <1>5, <1>6, <1>7, <1>8, <1>9 DEF Routing!ListWorkflows, Routing!ReadGrant,
           Routing!Handle, Routing!At, Routing!Is

\* The steps of a bundle and of an installation that only read.
LEMMA ConnectionSteps ==
    ASSUME Routing!RoutingAssumption, RoutingInv, NEW a \in Routing!Calls,
           Routing!ReadConnection(a) \/ Routing!Issue(a) \/ Routing!Resolve(a)
             \/ Routing!Subscribe(a)
    PROVE  RoutingInv'
<1>1. Routing!TypeOK /\ Routing!Reads
  BY KindOf DEF Routing!ReadConnection, Routing!Issue, Routing!Resolve, Routing!Subscribe
<1>2. calls[a].kind \in {"bundle", "install"} /\ calls[a].step # "new"
  BY KindOf DEF Routing!ReadConnection, Routing!Issue, Routing!Resolve, Routing!Subscribe,
     Routing!At
<1>3. CASE Routing!Go(a, "failed")
  BY <1>1, <1>2, <1>3, ReadsTyped, RoutingGoStep DEF Routing!Steps, StepsOf
<1>4. CASE calls[a].step = "connection" /\ Routing!Go(a, "issue")
  <2>1. calls[a].kind = "bundle" /\ "grant" \in calls[a].lawful
    BY <1>4, KindOf DEF Consistent, Authorized
  <2> QED BY <1>1, <1>4, <2>1, ReadsTyped, RoutingGoStep DEF Routing!Steps, StepsOf
<1>5. CASE calls[a].step = "issue" /\ connected /\ Routing!Go(a, "done")
  <2>1. calls[a].kind = "bundle" /\ calls[a].lawful = {"grant", "connection"}
    BY <1>5, KindOf DEF Consistent, Authorized, CallRecords
  <2> QED BY <1>1, <1>5, <2>1, ReadsTyped, RoutingGoStep DEF Routing!Steps, StepsOf
<1>6. CASE calls[a].step = "resolve" /\ Routing!Go(a, "create")
  <2>1. calls[a].kind = "install"
    BY <1>6, KindOf
  <2> QED BY <1>1, <1>6, <2>1, ReadsTyped, RoutingGoStep DEF Routing!Steps, StepsOf
<1>7. CASE calls[a].step = "subscribe" /\ Routing!Go(a, "store")
  <2>1. calls[a].kind = "install"
    BY <1>7, KindOf
  <2> QED BY <1>1, <1>7, <2>1, ReadsTyped, RoutingGoStep DEF Routing!Steps, StepsOf
<1> QED BY <1>3, <1>4, <1>5, <1>6, <1>7 DEF Routing!ReadConnection, Routing!Issue,
           Routing!Resolve, Routing!Subscribe, Routing!At

\* A grant that is put is noted by every call under way.
LEMMA RoutingCreateStep ==
    ASSUME Routing!RoutingAssumption, RoutingInv, NEW a \in Routing!Calls, Routing!CreateGrant(a)
    PROVE  RoutingInv'
<1>1. /\ Routing!TypeOK /\ calls[a].step = "create" /\ calls[a].kind = "install"
      /\ grant' = "active"
      /\ UNCHANGED <<kept, workflow, connected, outages>>
  BY KindOf DEF Routing!CreateGrant, Routing!At
<1>2. ASSUME NEW b \in Routing!Calls
      PROVE  calls'[b] \in CallRecords /\ Consistent(calls'[b], kept, "active", connected)
  <2>1. calls[b] \in CallRecords /\ Consistent(calls[b], kept, grant, connected)
    BY KindOf
  <2> DEFINE moved == IF b = a THEN [calls[b] EXCEPT !.step = "subscribe"] ELSE calls[b]
             noted == [moved EXCEPT !.lawful = @ \cup {"grant"}]
  <2>2. calls'[b] = IF calls[b].step = "new" THEN moved ELSE noted
    BY DEF Routing!CreateGrant, Routing!At
  <2>3. /\ moved \in CallRecords /\ moved.kind = calls[b].kind /\ moved.batch = calls[b].batch
        /\ moved.at = calls[b].at /\ moved.lawful = calls[b].lawful
        /\ moved.step = IF b = a THEN "subscribe" ELSE calls[b].step
    BY <2>1 DEF CallRecords, Routing!Steps
  <2> HIDE DEF moved
  <2>4. /\ noted \in CallRecords /\ noted.kind = moved.kind /\ noted.batch = moved.batch
        /\ noted.at = moved.at /\ noted.lawful = moved.lawful \cup {"grant"}
        /\ noted.step = moved.step
    BY <2>3 DEF CallRecords
  <2> HIDE DEF noted
  <2>5. CASE calls[b].step = "new"
    BY <1>1, <2>1, <2>2, <2>3, <2>5 DEF Consistent, Delivered, Authorized
  <2>6. CASE calls[b].step # "new"
    <3>1. noted.step \in StepsOf(noted.kind)
      BY <1>1, <2>1, <2>3, <2>4 DEF Consistent, StepsOf
    <3>2. Delivered(noted, kept)
      BY <1>1, <2>1, <2>3, <2>4 DEF Consistent, Delivered
    <3>3. Authorized(noted, "active", connected)
      BY <1>1, <2>1, <2>3, <2>4, <2>6 DEF Consistent, Authorized, CallRecords
    <3> QED BY <2>2, <2>4, <2>6, <3>1, <3>2, <3>3 DEF Consistent
  <2> QED BY <2>5, <2>6
<1>3. calls' \in [Routing!Calls -> CallRecords]
  BY <1>2 DEF Routing!CreateGrant
<1>4. Routing!TypeOK'
  BY <1>1, <1>3 DEF Routing!TypeOK, CallRecords
<1> QED BY <1>1, <1>2, <1>4 DEF RoutingInv

\* An installation ends.
LEMMA RoutingStoreStep ==
    ASSUME Routing!RoutingAssumption, RoutingInv, NEW a \in Routing!Calls, Routing!StoreWorkflow(a)
    PROVE  RoutingInv'
<1>1. /\ Routing!TypeOK /\ calls[a].step = "store" /\ calls[a].kind = "install"
      /\ Routing!Go(a, "done")
      /\ workflow' = "active" /\ UNCHANGED <<kept, grant, connected, outages>>
  BY KindOf DEF Routing!StoreWorkflow, Routing!At
<1>2. kept \subseteq kept' /\ kept' \subseteq Routing!Events /\ outages' \in 0..MaxErrors
  BY <1>1 DEF Routing!TypeOK
<1> QED BY <1>1, <1>2, RoutingGoStep DEF Routing!Steps, StepsOf

\* A call that fails has promised nothing.
LEMMA ThrowsStep ==
    ASSUME Routing!RoutingAssumption, RoutingInv, NEW a \in Routing!Calls, Routing!Throws(a)
    PROVE  RoutingInv'
<1>1. /\ Routing!TypeOK /\ calls[a].step # "new" /\ Routing!Go(a, "failed")
      /\ calls[a].kind \in Routing!Kinds \ {"none"}
      /\ outages < MaxErrors /\ outages' = outages + 1
      /\ UNCHANGED <<kept, workflow, grant, connected>>
  BY KindOf DEF Routing!Throws, CallRecords
<1>2. /\ kept \subseteq kept' /\ kept' \subseteq Routing!Events /\ workflow' \in {"none", "active"}
      /\ outages' \in 0..MaxErrors
  BY <1>1 DEF Routing!TypeOK, Routing!RoutingAssumption
<1>3. "failed" \in StepsOf(calls[a].kind)
  BY <1>1 DEF Routing!Kinds, StepsOf
<1> QED BY <1>1, <1>2, <1>3, RoutingGoStep DEF Routing!Steps

\* The owner only takes authority away.
LEMMA EnvironmentStep ==
    ASSUME Routing!RoutingAssumption, RoutingInv, Routing!RevokeGrant \/ Routing!Disconnect
    PROVE  RoutingInv'
<1>1. /\ Routing!TypeOK /\ UNCHANGED <<calls, kept, workflow, outages>>
      /\ grant' = "active" => grant = "active"
      /\ connected' => connected
      /\ grant' \in {"none", "active", "revoked"} /\ connected' \in BOOLEAN
  <2>1. CASE Routing!RevokeGrant
    BY <2>1 DEF RoutingInv, Routing!RevokeGrant, Routing!TypeOK
  <2>2. CASE Routing!Disconnect
    BY <2>2 DEF RoutingInv, Routing!Disconnect, Routing!TypeOK
  <2> QED BY <2>1, <2>2
<1>2. Routing!TypeOK'
  BY <1>1 DEF Routing!TypeOK
<1>3. ASSUME NEW b \in Routing!Calls PROVE Consistent(calls[b], kept, grant', connected')
  <2>1. Consistent(calls[b], kept, grant, connected)
    BY DEF RoutingInv
  <2> QED BY <1>1, <2>1, StaysConsistent
<1> QED BY <1>1, <1>2, <1>3 DEF RoutingInv

---------------------------------------------------------------------------
(* Event routing: the theorems                                             *)

\* Every step preserves the invariant.
LEMMA RoutingInvariantStep ==
    ASSUME Routing!RoutingAssumption, RoutingInv, [Routing!Next]_Routing!vars
    PROVE  RoutingInv'
<1>1. ASSUME NEW a \in Routing!Calls, Routing!Begin(a) PROVE RoutingInv'
  BY <1>1, RoutingBeginStep
<1>2. ASSUME NEW a \in Routing!Calls, Routing!Check(a) PROVE RoutingInv'
  BY <1>2, CheckStep
<1>3. ASSUME NEW a \in Routing!Calls, Routing!PutEvent(a) PROVE RoutingInv'
  BY <1>3, PutStep
<1>4. ASSUME NEW a \in Routing!Calls,
             Routing!ListWorkflows(a) \/ Routing!ReadGrant(a) \/ Routing!Handle(a)
      PROVE  RoutingInv'
  BY <1>4, DispatchSteps
<1>5. ASSUME NEW a \in Routing!Calls,
             \/ Routing!ReadConnection(a) \/ Routing!Issue(a)
             \/ Routing!Resolve(a) \/ Routing!Subscribe(a)
      PROVE  RoutingInv'
  BY <1>5, ConnectionSteps
<1>6. ASSUME NEW a \in Routing!Calls, Routing!CreateGrant(a) PROVE RoutingInv'
  BY <1>6, RoutingCreateStep
<1>7. ASSUME NEW a \in Routing!Calls, Routing!StoreWorkflow(a) PROVE RoutingInv'
  BY <1>7, RoutingStoreStep
<1>8. ASSUME NEW a \in Routing!Calls, Routing!Throws(a) PROVE RoutingInv'
  BY <1>8, ThrowsStep
<1>9. CASE Routing!RevokeGrant \/ Routing!Disconnect
  BY <1>9, EnvironmentStep
<1>10. CASE UNCHANGED Routing!vars
  BY <1>10 DEF Routing!vars, RoutingInv, Routing!TypeOK
<1> QED BY <1>1, <1>2, <1>3, <1>4, <1>5, <1>6, <1>7, <1>8, <1>9, <1>10 DEF Routing!Next

\* Calls, stores and authority keep their types throughout.
THEOREM RoutingTypeCorrect ==
    ASSUME Routing!RoutingAssumption
    PROVE  Routing!Spec => []Routing!TypeOK
<1>1. RoutingInv /\ [Routing!Next]_Routing!vars => RoutingInv'
  BY RoutingInvariantStep
<1>2. RoutingInv => Routing!TypeOK
  BY DEF RoutingInv
<1> QED BY RoutingInitEstablishes, <1>1, <1>2, PTL DEF Routing!Spec

\* receiveIntegrationWebhook answers a delivery only when all its events are in
\* the event store.
THEOREM DeliveryIsKept ==
    ASSUME Routing!RoutingAssumption
    PROVE  Routing!Spec => []Routing!AnsweredBatchIsKept
<1>1. RoutingInv /\ [Routing!Next]_Routing!vars => RoutingInv'
  BY RoutingInvariantStep
<1>2. ASSUME Routing!RoutingAssumption, RoutingInv PROVE Routing!AnsweredBatchIsKept
  <2>1. ASSUME NEW a \in Routing!Calls, Routing!Is(a, "delivery"), Routing!At(a, "done"),
               NEW i \in DOMAIN calls[a].batch
        PROVE  calls[a].batch[i] \in kept
    <3>1. /\ Consistent(calls[a], kept, grant, connected) /\ calls[a] \in CallRecords
          /\ Len(calls[a].batch) \in Nat /\ i \in 1..Len(calls[a].batch)
      BY <1>2, <2>1, KindOf DEF Routing!Is
    <3> QED BY <2>1, <3>1 DEF Consistent, Delivered, Routing!Is, Routing!At, CallRecords
  <2> QED BY <2>1 DEF Routing!AnsweredBatchIsKept
<1> QED BY RoutingInitEstablishes, <1>1, <1>2, PTL DEF Routing!Spec

\* A workflow handles an event, and a sandbox gets a capability, by authority
\* that held during the call.
THEOREM RoutingAuthority ==
    ASSUME Routing!RoutingAssumption
    PROVE  Routing!Spec => []Routing!AuthorityIsCurrent
<1>1. RoutingInv /\ [Routing!Next]_Routing!vars => RoutingInv'
  BY RoutingInvariantStep
<1>2. RoutingInv => Routing!AuthorityIsCurrent
  BY DEF RoutingInv, Consistent, Authorized, Routing!AuthorityIsCurrent, Routing!Is, Routing!At
<1> QED BY RoutingInitEstablishes, <1>1, <1>2, PTL DEF Routing!Spec

---------------------------------------------------------------------------
(* The hub with its services                                               *)

TriggerProofs == INSTANCE HostedTriggerProofs

\* One cardinality under two names.
LEMMA SameCardinality == \A S : Trigger!Cardinality(S) = TriggerProofs!Cardinality(S)
BY DEF Trigger!Cardinality, TriggerProofs!Cardinality

\* The trigger of the hub is the trigger the proofs of HostedTrigger are about.
LEMMA SameTrigger ==
    /\ Trigger!TriggerAssumption <=> TriggerProofs!TriggerAssumption
    /\ Trigger!Init <=> TriggerProofs!Init
    /\ [Trigger!Next]_Trigger!vars <=> [TriggerProofs!Next]_TriggerProofs!vars
<1>1. Trigger!TriggerAssumption <=> TriggerProofs!TriggerAssumption
  BY DEF Trigger!TriggerAssumption, TriggerProofs!TriggerAssumption, Trigger!Copies,
         TriggerProofs!Copies, Trigger!Upto, TriggerProofs!Upto
<1>2. Trigger!Init <=> TriggerProofs!Init
  BY DEF Trigger!Init, TriggerProofs!Init, Trigger!NoCursor, TriggerProofs!NoCursor,
         Trigger!NoPoll, TriggerProofs!NoPoll
<1>3. Trigger!Tick <=> TriggerProofs!Tick
  BY DEF Trigger!Tick, TriggerProofs!Tick
<1>4. Trigger!Create <=> TriggerProofs!Create
  BY SameCardinality DEF Trigger!Create, TriggerProofs!Create, Trigger!Records,
     TriggerProofs!Records, Trigger!Passed, TriggerProofs!Passed
<1>5. Trigger!Baseline <=> TriggerProofs!Baseline
  BY DEF Trigger!Baseline, TriggerProofs!Baseline, Trigger!NoCursor, TriggerProofs!NoCursor
<1>6. Trigger!ReadPage <=> TriggerProofs!ReadPage
  <2>1. Trigger!NextPage = TriggerProofs!NextPage
    BY SameCardinality
       DEF Trigger!NextPage, TriggerProofs!NextPage, Trigger!Listed, TriggerProofs!Listed,
           Trigger!Pending, TriggerProofs!Pending, Trigger!Records, TriggerProofs!Records,
           Trigger!Upto, TriggerProofs!Upto
  <2>2. Trigger!NextPages = TriggerProofs!NextPages
    BY <2>1, SameCardinality
       DEF Trigger!NextPages, TriggerProofs!NextPages, Trigger!FormPages,
           TriggerProofs!FormPages, Trigger!Form, TriggerProofs!Form, Trigger!Pending,
           TriggerProofs!Pending, Trigger!Records, TriggerProofs!Records, Trigger!Upto,
           TriggerProofs!Upto
  <2> QED BY <2>2 DEF Trigger!ReadPage, TriggerProofs!ReadPage, Trigger!NoCursor,
             TriggerProofs!NoCursor
<1>7. Trigger!Emit <=> TriggerProofs!Emit
  <2>1. Trigger!Left = TriggerProofs!Left
    BY DEF Trigger!Left, TriggerProofs!Left, Trigger!Pending, TriggerProofs!Pending,
           Trigger!Records, TriggerProofs!Records, Trigger!Keys, TriggerProofs!Keys
  <2>2. Trigger!Fresh = TriggerProofs!Fresh
    BY DEF Trigger!Fresh, TriggerProofs!Fresh, Trigger!Place, TriggerProofs!Place,
           Trigger!Before, TriggerProofs!Before, Trigger!Left, TriggerProofs!Left,
           Trigger!Pending, TriggerProofs!Pending, Trigger!Records, TriggerProofs!Records,
           Trigger!Keys, TriggerProofs!Keys, Trigger!Cardinality, TriggerProofs!Cardinality
  <2>3. Trigger!Overruns <=> TriggerProofs!Overruns
    BY SameCardinality
       DEF Trigger!Overruns, TriggerProofs!Overruns, Trigger!Form, TriggerProofs!Form,
           Trigger!Pending, TriggerProofs!Pending, Trigger!Records, TriggerProofs!Records
  <2> QED BY <2>2, <2>3
          DEF Trigger!Emit, TriggerProofs!Emit, Trigger!Emitted, TriggerProofs!Emitted,
              Trigger!Since, TriggerProofs!Since, Trigger!Seen, TriggerProofs!Seen,
              Trigger!Upto, TriggerProofs!Upto, Trigger!Keys, TriggerProofs!Keys,
              Trigger!NoPoll, TriggerProofs!NoPoll
<1>8. Trigger!PollFails <=> TriggerProofs!PollFails
  BY DEF Trigger!PollFails, TriggerProofs!PollFails, Trigger!NoPoll, TriggerProofs!NoPoll
<1> QED BY <1>1, <1>2, <1>3, <1>4, <1>5, <1>6, <1>7, <1>8
        DEF Trigger!Next, TriggerProofs!Next, Trigger!vars, TriggerProofs!vars

\* Every service of the hub runs as it would alone: it begins in a state of its
\* own that is initial, and a step of another service leaves it where it was.
THEOREM ServicesRunAsAlone ==
    HubSpec => Spec /\ Trigger!Spec /\ Evidence!Spec /\ Routing!Spec
<1>1. HubInit => Init /\ Trigger!Init /\ Evidence!Init /\ Routing!Init
  BY DEF HubInit
<1>2. [HubNext]_hubVars => [Next]_vars
  BY DEF HubNext, Invoked, Polled, Presented, RoutedEvents, hubVars
<1>3. [HubNext]_hubVars => [Trigger!Next]_Trigger!vars
  BY DEF HubNext, Invoked, Polled, Presented, RoutedEvents, hubVars, triggerVars, Trigger!vars
<1>4. [HubNext]_hubVars => [Evidence!Next]_Evidence!vars
  BY DEF HubNext, Invoked, Polled, Presented, RoutedEvents, hubVars, evidenceVars, Evidence!vars
<1>5. [HubNext]_hubVars => [Routing!Next]_Routing!vars
  BY DEF HubNext, Invoked, Polled, Presented, RoutedEvents, hubVars, routingVars, Routing!vars
<1> QED
  BY <1>1, <1>2, <1>3, <1>4, <1>5, PTL DEF HubSpec, Spec, Trigger!Spec, Evidence!Spec, Routing!Spec

\* What the trigger promises holds in every state of the hub.
LEMMA TriggerHolds ==
    ASSUME HubAssumption
    PROVE  HubSpec => [](Trigger!TypeOK /\ Trigger!ToldOnce /\ Trigger!NothingSkipped)
<1>1. Trigger!Init => TriggerProofs!IInv
  BY SameTrigger, TriggerProofs!InitHolds DEF HubAssumption
<1>2. TriggerProofs!IInv /\ [Trigger!Next]_Trigger!vars => TriggerProofs!IInv'
  BY SameTrigger, TriggerProofs!NextHolds DEF HubAssumption
<1>3. TriggerProofs!IInv => Trigger!TypeOK
  BY DEF TriggerProofs!IInv, Trigger!TypeOK, TriggerProofs!TypeOK, Trigger!NoCursor,
         TriggerProofs!NoCursor, Trigger!Records, TriggerProofs!Records
<1>4. TriggerProofs!IInv => Trigger!ToldOnce
  BY DEF TriggerProofs!IInv, Trigger!ToldOnce, TriggerProofs!ToldOnce, Trigger!Records,
         TriggerProofs!Records
<1>5. TriggerProofs!IInv => Trigger!NothingSkipped
  BY DEF TriggerProofs!IInv, Trigger!NothingSkipped, TriggerProofs!NothingSkipped,
         Trigger!NoCursor, TriggerProofs!NoCursor, Trigger!Records, TriggerProofs!Records
<1>6. HubSpec => Trigger!Init /\ [][Trigger!Next]_Trigger!vars
  BY ServicesRunAsAlone DEF Trigger!Spec
<1> QED BY <1>1, <1>2, <1>3, <1>4, <1>5, <1>6, PTL

\* The state of the hub and of every service keeps its type, whatever the
\* services do next to one another.
THEOREM HubTypeCorrect == ASSUME HubAssumption PROVE HubSpec => []HubTypeOK
<1>1. Spec => []TypeOK
  BY InvocationTypeCorrect
<1>2. Evidence!Spec => []Evidence!TypeOK
  BY EvidenceTypeCorrect DEF HubAssumption
<1>3. Routing!Spec => []Routing!TypeOK
  BY RoutingTypeCorrect DEF HubAssumption
<1>4. TypeOK /\ Trigger!TypeOK /\ Evidence!TypeOK /\ Routing!TypeOK => HubTypeOK
  BY DEF HubTypeOK
<1> QED BY <1>1, <1>2, <1>3, <1>4, ServicesRunAsAlone, TriggerHolds, PTL

\* A hosted trigger of the hub emits no record in two polls.
THEOREM HubTellsOnce == ASSUME HubAssumption PROVE HubSpec => []ToldOnce
<1>1. Trigger!ToldOnce => ToldOnce
  BY DEF ToldOnce
<1> QED BY <1>1, TriggerHolds, PTL

\* A hosted trigger of the hub passes over no record unless its listing was
\* overrun, and emits nothing that is older than the cursor it began with.
THEOREM HubSkipsNothing == ASSUME HubAssumption PROVE HubSpec => []NothingSkipped
<1>1. Trigger!NothingSkipped => NothingSkipped
  BY DEF NothingSkipped
<1> QED BY <1>1, TriggerHolds, PTL

\* In the hub too, a purchase buys access once.
THEOREM HubGrantsOnce == ASSUME HubAssumption PROVE HubSpec => []GrantedOnce
<1>1. Evidence!Spec => []Evidence!GrantedOnce
  BY PurchaseGrantedOnce DEF HubAssumption
<1>2. Evidence!GrantedOnce => GrantedOnce
  BY DEF GrantedOnce
<1> QED BY <1>1, <1>2, ServicesRunAsAlone, PTL

\* In the hub too, a delivery that was answered has left its events in the store.
THEOREM HubKeepsDeliveries == ASSUME HubAssumption PROVE HubSpec => []AnsweredBatchIsKept
<1>1. Routing!Spec => []Routing!AnsweredBatchIsKept
  BY DeliveryIsKept DEF HubAssumption
<1>2. Routing!AnsweredBatchIsKept => AnsweredBatchIsKept
  BY DEF AnsweredBatchIsKept
<1> QED BY <1>1, <1>2, ServicesRunAsAlone, PTL

\* In the hub too, events are handled and capabilities issued on authority that
\* held during the call.
THEOREM HubAuthority == ASSUME HubAssumption PROVE HubSpec => []AuthorityIsCurrent
<1>1. Routing!Spec => []Routing!AuthorityIsCurrent
  BY RoutingAuthority DEF HubAssumption
<1>2. Routing!AuthorityIsCurrent => AuthorityIsCurrent
  BY DEF AuthorityIsCurrent
<1> QED BY <1>1, <1>2, ServicesRunAsAlone, PTL
=============================================================================
