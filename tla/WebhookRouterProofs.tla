------------------------- MODULE WebhookRouterProofs -------------------------
(***************************************************************************)
(* The safety of WebhookRouter.handle for any processes, deliveries,       *)
(* batches and numbers of faults and stalls: what is acknowledged was      *)
(* delivered, no claim is left behind, and unless a process stalls past a  *)
(* lease or the late delete of another handler's call takes its entry, a   *)
(* handler delivers only what it holds.                                    *)
(***************************************************************************)
EXTENDS WebhookRouter, SequenceTheorems, TLAPS

Among(k, s) == \E i \in DOMAIN s : s[i] = k

---------------------------------------------------------------------------
(* Lists of events                                                         *)

\* A list with an event more.
LEMMA Appended ==
    ASSUME NEW s \in Seq(Keys), NEW e \in Keys
    PROVE  /\ Append(s, e) \in Seq(Keys)
           /\ DOMAIN s = 1..Len(s) /\ Len(s) \in Nat
           /\ DOMAIN Append(s, e) = 1..(Len(s) + 1)
           /\ Append(s, e)[Len(s) + 1] = e
           /\ \A i \in DOMAIN s : Append(s, e)[i] = s[i]
  OBVIOUS

\* The first event and the rest.
LEMMA HeadAndTail ==
    ASSUME NEW s \in Seq(Keys), s # <<>>
    PROVE  /\ Head(s) \in Keys /\ Head(s) = s[1] /\ Tail(s) \in Seq(Keys)
           /\ DOMAIN s = 1..Len(s) /\ Len(s) \in Nat \ {0}
           /\ DOMAIN Tail(s) = 1..(Len(s) - 1)
           /\ \A i \in DOMAIN Tail(s) : Tail(s)[i] = s[i + 1]
<1>1. /\ Tail(s) \in Seq(Keys) /\ Len(Tail(s)) = Len(s) - 1 /\ Head(s) \in Keys
      /\ \A i \in 1..Len(Tail(s)) : Tail(s)[i] = s[i + 1]
  BY HeadTailProperties
<1>2. Len(s) \in Nat \ {0} /\ DOMAIN s = 1..Len(s) /\ DOMAIN Tail(s) = 1..Len(Tail(s))
  BY <1>1, EmptySeq, LenProperties
<1>3. Head(s) = s[1]
  OBVIOUS
<1> QED BY <1>1, <1>2, <1>3

\* The events behind the first one are in the rest.
LEMMA TailAmong ==
    ASSUME NEW s \in Seq(Keys), s # <<>>, NEW k, Among(k, s), k # Head(s)
    PROVE  Among(k, Tail(s))
<1>1. PICK j \in DOMAIN s : s[j] = k
  BY DEF Among
<1>2. j - 1 \in DOMAIN Tail(s) /\ Tail(s)[j - 1] = k
  BY <1>1, HeadAndTail
<1> QED BY <1>2 DEF Among

---------------------------------------------------------------------------
(* The invariant                                                           *)

\* The places of a handler's list whose complete or release has begun.
Parts(r) ==
    IF step[r] = "unwind" THEN DOMAIN accepted[r]
    ELSE IF step[r] \in {"complete", "release"} THEN {1} ELSE {}

\* Where a handler is, and what that says of its process, events and calls.
Shape(r) ==
    /\ step[r] = "idle" => accepted[r] = <<>>
    /\ step[r] # "idle" => home[r] \in Procs
    /\ pos[r] >= 1
    /\ step[r] = "claiming" => pos[r] <= Len(Batch[r])
    /\ step[r] \in {"deliver", "complete", "release"} => pos[r] > Len(Batch[r])
    /\ step[r] \in {"complete", "release"} => accepted[r] # <<>>
    /\ DOMAIN closing[r] \subseteq Parts(r)

\* Unless the handler knows of trouble, what it has passed is delivered or
\* still on its list.
Covered(r) ==
    /\ response[r] = "ok" => \A i \in 1..Len(Batch[r]) : Batch[r][i] \in delivered
    /\ step[r] \notin {"idle", "unwind"} /\ ~troubled[r] =>
          \A i \in 1..Len(Batch[r]) : i < pos[r] =>
              Batch[r][i] \in delivered \/ Among(Batch[r][i], accepted[r])
    /\ step[r] = "complete" => Head(accepted[r]) \in delivered

\* Only what was delivered is completed.
DoneIsDelivered == \A k \in Keys : store[k].kind = "done" => k \in delivered

\* The entry of a claim whose complete or release has begun is there only while
\* the call is under way, and is the one it read.
Closed(r) ==
    \A i \in Parts(r) : owners[home[r]][accepted[r][i]] = r =>
        i \in DOMAIN closing[r] /\ closing[r][i].owner = r

\* The claim of another handler a call is to end is off that handler's list, or
\* known to be taken.
Foreign(r) ==
    \A i \in DOMAIN closing[r], q \in Requests \ {r} : closing[r][i].owner = q =>
        accepted[r][i] \in disowned[q] \/ ~Among(accepted[r][i], accepted[q])

\* The claims of the events on a handler's list are live and its own, but for
\* those it has begun to end and those another handler took.
Owned(r) ==
    \A i \in DOMAIN accepted[r] \ Parts(r) : accepted[r][i] \notin disowned[r] =>
        /\ owners[home[r]][accepted[r][i]] = r
        /\ store[accepted[r][i]] = Record("held", r, TRUE)
        /\ \A j \in DOMAIN accepted[r] : accepted[r][j] = accepted[r][i] => j = i

IInv ==
    /\ TypeOK /\ DoneIsDelivered /\ NoClaimStranded
    /\ \A r \in Requests : Shape(r) /\ Covered(r) /\ Closed(r) /\ Foreign(r)
    /\ stalls = 0 => \A r \in Requests : Owned(r)

\* What the assumption on the constants and the types give.
LEMMA Typed ==
    ASSUME TypeOK
    PROVE  /\ NoOne \notin Requests /\ NoOne \notin Procs
           /\ MaxFaults \in Nat /\ MaxStalls \in Nat
           /\ faults \in 0..MaxFaults /\ stalls \in 0..MaxStalls
           /\ \A r \in Requests :
                 /\ accepted[r] \in Seq(Keys) /\ pos[r] \in Nat
                 /\ DOMAIN accepted[r] = 1..Len(accepted[r]) /\ Len(accepted[r]) \in Nat
                 /\ \A i \in DOMAIN accepted[r] : accepted[r][i] \in Keys
                 /\ \A i \in DOMAIN closing[r] :
                       /\ i \in DOMAIN accepted[r] /\ accepted[r][i] \in Keys
                       /\ closing[r][i] \in Calls
                       /\ closing[r][i].owner \in Requests \cup {NoOne}
                       /\ closing[r][i].linked \in BOOLEAN
<1>1. /\ NoOne \notin Requests /\ NoOne \notin Procs /\ MaxFaults \in Nat /\ MaxStalls \in Nat
      /\ faults \in 0..MaxFaults /\ stalls \in 0..MaxStalls
  BY RouterAssumption DEF RouterAssumption, TypeOK
<1>2. ASSUME NEW r \in Requests
      PROVE  /\ accepted[r] \in Seq(Keys) /\ pos[r] \in Nat
             /\ DOMAIN accepted[r] = 1..Len(accepted[r]) /\ Len(accepted[r]) \in Nat
             /\ \A i \in DOMAIN accepted[r] : accepted[r][i] \in Keys
  <2>1. accepted[r] \in Seq(Keys) /\ pos[r] \in Nat
    BY DEF TypeOK
  <2> QED BY <2>1, LenProperties, ElementOfSeq
<1>3. ASSUME NEW r \in Requests, NEW i \in DOMAIN closing[r]
      PROVE  /\ i \in DOMAIN accepted[r] /\ closing[r][i] \in Calls
             /\ closing[r][i].owner \in Requests \cup {NoOne}
             /\ closing[r][i].linked \in BOOLEAN
  <2>1. i \in DOMAIN accepted[r] /\ closing[r][i] \in Calls
    BY DEF TypeOK
  <2> QED BY <2>1 DEF Calls
<1> QED BY <1>1, <1>2, <1>3

\* Before anything is posted.
LEMMA InitEstablishes == Init => IInv
<1> SUFFICES ASSUME Init PROVE IInv
  OBVIOUS
<1>0. MaxFaults \in Nat /\ MaxStalls \in Nat
  BY RouterAssumption DEF RouterAssumption
<1>1. TypeOK
  BY <1>0, EmptySeq DEF Init, TypeOK, Records, Steps, Responses, Calls
<1>2. DoneIsDelivered /\ NoClaimStranded
  BY DEF Init, DoneIsDelivered, NoClaimStranded, Free, Record
<1>3. \A r \in Requests : Shape(r) /\ Covered(r) /\ Closed(r) /\ Foreign(r) /\ Owned(r)
  BY DEF Init, Shape, Covered, Closed, Foreign, Owned, Parts
<1> QED BY <1>1, <1>2, <1>3 DEF IInv

---------------------------------------------------------------------------
(* What a step of one handler has to keep                                  *)

\* Another handler's claim of k is as it should be while it is to be kept.
Kept(q, k) ==
    /\ owners[home[q]][k] = q /\ store[k] = Record("held", q, TRUE)
    /\ k \notin disowned[q]

\* A handler takes over claims that are not live only, ends those it read in
\* the map, and forgets or disowns what it takes: the others are not disturbed.
LEMMA HandlerKeeps ==
    ASSUME IInv, TypeOK', NEW r \in Requests,
           \A q \in Requests \ {r} :
               /\ home'[q] = home[q] /\ step'[q] = step[q] /\ pos'[q] = pos[q]
               /\ accepted'[q] = accepted[q] /\ troubled'[q] = troubled[q]
               /\ response'[q] = response[q]
               /\ disowned[q] \subseteq disowned'[q]
               /\ DOMAIN closing'[q] = DOMAIN closing[q]
               /\ \A i \in DOMAIN closing[q] :
                     \/ closing'[q][i].owner = closing[q][i].owner
                     \/ closing[q][i].owner = r /\ closing'[q][i].owner = NoOne
               /\ \A i \in DOMAIN closing[q] : closing'[q][i].owner = r =>
                     accepted[q][i] \in disowned'[r] \/ ~Among(accepted[q][i], accepted'[r]),
           delivered \subseteq delivered', Shape(r)', Covered(r)', Closed(r)', Foreign(r)',
           \A k \in Keys : store'[k].kind = "done" => store[k].kind = "done" \/ k \in delivered',
           \A p \in Procs, k \in Keys : owners'[p][k] \in {owners[p][k], NoOne, r},
           \A p \in Procs, k \in Keys : owners'[p][k] = r =>
               home'[r] = p /\ Among(k, accepted'[r]),
           stalls' = stalls,
           stalls = 0 =>
               /\ Owned(r)'
               /\ \A q \in Requests \ {r}, k \in Keys :
                     Kept(q, k) /\ home[q] \in Procs /\ Among(k, accepted[q]) =>
                         \/ k \in disowned'[q]
                         \/ owners'[home[q]][k] = owners[home[q]][k] /\ store'[k] = store[k]
    PROVE  IInv'
<1>0. NoOne \notin Requests /\ TypeOK
  BY RouterAssumption DEF RouterAssumption, IInv
<1>1. DoneIsDelivered'
  BY DEF IInv, DoneIsDelivered
<1>2. NoClaimStranded'
  <2>1. ASSUME NEW p \in Procs, NEW k \in Keys, owners'[p][k] # NoOne
        PROVE  home'[owners'[p][k]] = p /\ Among(k, accepted'[owners'[p][k]])
    <3>1. CASE owners'[p][k] = r
      BY <3>1
    <3>2. CASE owners'[p][k] # r
      <4>1. owners'[p][k] = owners[p][k] /\ owners[p][k] \in Requests \ {r}
        BY <1>0, <2>1, <3>2 DEF TypeOK
      <4>2. home[owners[p][k]] = p /\ Among(k, accepted[owners[p][k]])
        BY <2>1, <4>1 DEF IInv, NoClaimStranded, Among
      <4> QED BY <4>1, <4>2
    <3> QED BY <3>1, <3>2
  <2> QED BY <2>1 DEF NoClaimStranded, Among
<1>3. ASSUME NEW q \in Requests \ {r}
      PROVE  /\ home'[q] = home[q] /\ step'[q] = step[q] /\ pos'[q] = pos[q]
             /\ accepted'[q] = accepted[q] /\ troubled'[q] = troubled[q]
             /\ response'[q] = response[q] /\ Parts(q)' = Parts(q)
             /\ DOMAIN closing'[q] = DOMAIN closing[q]
             /\ \A i \in DOMAIN accepted[q] : accepted[q][i] \in Keys
  BY <1>0, Typed DEF Parts
<1>4. ASSUME NEW q \in Requests \ {r} PROVE Shape(q)' /\ Covered(q)'
  <2>1. Shape(q) /\ Covered(q)
    BY DEF IInv
  <2> QED BY <1>3, <2>1 DEF Shape, Covered
<1>5. ASSUME NEW q \in Requests \ {r} PROVE Closed(q)'
  <2>1. Closed(q) /\ Shape(q)
    BY DEF IInv
  <2>2. ASSUME NEW i \in Parts(q), owners'[home[q]][accepted[q][i]] = q
        PROVE  i \in DOMAIN closing'[q] /\ closing'[q][i].owner = q
    <3>1. i \in DOMAIN accepted[q] /\ home[q] \in Procs
      <4>1. step[q] \in {"complete", "release"} => accepted[q] # <<>> /\ accepted[q] \in Seq(Keys)
        BY <1>0, <2>1 DEF Shape, TypeOK
      <4>2. step[q] \in {"complete", "release"} => 1 \in DOMAIN accepted[q]
        BY <4>1, HeadAndTail
      <4> QED BY <2>1, <2>2, <4>2 DEF Parts, Shape
    <3>2. accepted[q][i] \in Keys
      BY <1>3, <3>1
    <3>3. owners[home[q]][accepted[q][i]] = q
      BY <1>0, <2>2, <3>1, <3>2
    <3>4. i \in DOMAIN closing[q] /\ closing[q][i].owner = q
      BY <2>1, <2>2, <3>3 DEF Closed
    <3> QED BY <3>4
  <2> QED BY <1>3, <2>2 DEF Closed
<1>6. ASSUME NEW q \in Requests \ {r} PROVE Foreign(q)'
  <2>1. ASSUME NEW i \in DOMAIN closing[q], NEW o \in Requests \ {q}, closing'[q][i].owner = o
        PROVE  accepted[q][i] \in disowned'[o] \/ ~Among(accepted[q][i], accepted'[o])
    <3>1. CASE o = r
      BY <2>1, <3>1
    <3>2. CASE o # r
      <4>1. closing[q][i].owner = o
        BY <1>0, <2>1, <3>2
      <4>2. accepted[q][i] \in disowned[o] \/ ~Among(accepted[q][i], accepted[o])
        BY <2>1, <4>1 DEF IInv, Foreign
      <4> QED BY <3>2, <4>2
    <3> QED BY <3>1, <3>2
  <2>2. accepted'[q] = accepted[q] /\ DOMAIN closing'[q] = DOMAIN closing[q]
    BY <1>3
  <2>3. ASSUME NEW i \in DOMAIN closing'[q], NEW o \in Requests \ {q}, closing'[q][i].owner = o
        PROVE  accepted'[q][i] \in disowned'[o] \/ ~Among(accepted'[q][i], accepted'[o])
    BY <2>1, <2>2, <2>3
  <2> QED BY <2>3 DEF Foreign, Among
<1>7. ASSUME stalls = 0, NEW q \in Requests \ {r} PROVE Owned(q)'
  <2>1. Owned(q) /\ Shape(q)
    BY <1>7 DEF IInv
  <2>2. ASSUME NEW i \in DOMAIN accepted[q] \ Parts(q), accepted[q][i] \notin disowned'[q]
        PROVE  /\ owners'[home[q]][accepted[q][i]] = q
               /\ store'[accepted[q][i]] = Record("held", q, TRUE)
               /\ \A j \in DOMAIN accepted[q] : accepted[q][j] = accepted[q][i] => j = i
    <3>1. /\ accepted[q][i] \notin disowned[q] /\ accepted[q][i] \in Keys
          /\ Among(accepted[q][i], accepted[q])
      BY <1>3, <2>2 DEF Among
    <3>2. /\ Kept(q, accepted[q][i])
          /\ \A j \in DOMAIN accepted[q] : accepted[q][j] = accepted[q][i] => j = i
      BY <2>1, <2>2, <3>1 DEF Owned, Kept
    <3>3. home[q] \in Procs
      BY <2>1, <2>2 DEF Shape
    <3>4. /\ owners'[home[q]][accepted[q][i]] = owners[home[q]][accepted[q][i]]
          /\ store'[accepted[q][i]] = store[accepted[q][i]]
      BY <1>7, <2>2, <3>1, <3>2, <3>3
    <3>5. owners[home[q]][accepted[q][i]] = q /\ store[accepted[q][i]] = Record("held", q, TRUE)
      BY <3>2 DEF Kept
    <3> QED BY <3>2, <3>4, <3>5
  <2>3. /\ accepted'[q] = accepted[q] /\ home'[q] = home[q] /\ Parts(q)' = Parts(q)
    BY <1>3
  <2>4. ASSUME NEW i \in DOMAIN accepted'[q] \ Parts(q)', accepted'[q][i] \notin disowned'[q]
        PROVE  /\ owners'[home'[q]][accepted'[q][i]] = q
               /\ store'[accepted'[q][i]] = Record("held", q, TRUE)
               /\ \A j \in DOMAIN accepted'[q] : accepted'[q][j] = accepted'[q][i] => j = i
    <3>1. i \in DOMAIN accepted[q] \ Parts(q) /\ accepted[q][i] \notin disowned'[q]
      BY <2>3, <2>4
    <3>2. /\ owners'[home[q]][accepted[q][i]] = q
          /\ store'[accepted[q][i]] = Record("held", q, TRUE)
          /\ \A j \in DOMAIN accepted[q] : accepted[q][j] = accepted[q][i] => j = i
      BY <2>2, <3>1
    <3> QED BY <2>3, <3>2
  <2> QED BY <2>4 DEF Owned, Record
<1> QED BY <1>1, <1>2, <1>4, <1>5, <1>6, <1>7 DEF IInv

---------------------------------------------------------------------------
(* What the operators of the module change                                 *)

\* Batches are lists of keys.
LEMMA Batches ==
    ASSUME NEW r \in Requests
    PROVE  /\ Batch[r] \in Seq(Keys) /\ Len(Batch[r]) \in Nat
           /\ \A i \in 1..Len(Batch[r]) : Batch[r][i] \in Keys
           /\ DOMAIN Batch[r] = 1..Len(Batch[r])
BY RouterAssumption, LenProperties, ElementOfSeq DEF RouterAssumption

\* Only this handler moves.
LEMMA Becomes ==
    ASSUME TypeOK, NEW r \in Requests, NEW s \in Steps, NEW i \in Nat, NEW events \in Seq(Keys),
           Become(r, s, i, events)
    PROVE  /\ step' \in [Requests -> Steps] /\ pos' \in [Requests -> Nat]
           /\ accepted' \in [Requests -> Seq(Keys)] /\ home' = home
           /\ step'[r] = s /\ pos'[r] = i /\ accepted'[r] = events
           /\ \A q \in Requests \ {r} :
                 step'[q] = step[q] /\ pos'[q] = pos[q] /\ accepted'[q] = accepted[q]
BY DEF TypeOK, Become

\* Only this handler begins or ends.
LEMMA Restarts ==
    ASSUME TypeOK, NEW r \in Requests, NEW s \in Steps, NEW p \in Procs \cup {NoOne},
           Restart(r, s, p)
    PROVE  /\ step' \in [Requests -> Steps] /\ pos' \in [Requests -> Nat]
           /\ accepted' \in [Requests -> Seq(Keys)] /\ home' \in [Requests -> Procs \cup {NoOne}]
           /\ step'[r] = s /\ pos'[r] = 1 /\ accepted'[r] = <<>> /\ home'[r] = p
           /\ DOMAIN closing' = Requests /\ closing'[r] = <<>>
           /\ disowned' \in [Requests -> SUBSET Keys]
           /\ \A q \in Requests \ {r} :
                 /\ step'[q] = step[q] /\ pos'[q] = pos[q] /\ accepted'[q] = accepted[q]
                 /\ home'[q] = home[q] /\ closing'[q] = closing[q] /\ disowned'[q] = disowned[q]
<1>1. <<>> \in Seq(Keys) /\ {} \in SUBSET Keys
  BY EmptySeq
<1> QED BY <1>1 DEF TypeOK, Restart

\* A handler has its trouble noted, or not.
LEMMA Troubled ==
    ASSUME TypeOK, NEW r \in Requests, Trouble(r) \/ UNCHANGED troubled
    PROVE  /\ troubled' \in [Requests -> BOOLEAN]
           /\ troubled[r] => troubled'[r]
           /\ Trouble(r) => troubled'[r]
           /\ \A q \in Requests \ {r} : troubled'[q] = troubled[q]
<1>1. CASE Trouble(r)
  BY <1>1 DEF TypeOK, Trouble
<1>2. CASE UNCHANGED troubled /\ ~Trouble(r)
  BY <1>2 DEF TypeOK
<1> QED BY <1>1, <1>2

\* Faults stay within their bound.
LEMMA FaultsTyped ==
    ASSUME TypeOK, Fault \/ UNCHANGED faults
    PROVE  faults' \in 0..MaxFaults
<1>1. MaxFaults \in Nat /\ faults \in 0..MaxFaults
  BY Typed
<1> QED BY <1>1 DEF Fault

\* The record of a claim.
LEMMA HeldRecord ==
    ASSUME NEW r \in Requests
    PROVE  /\ Record("held", r, TRUE) \in Records /\ Record("held", r, TRUE).owner = r
           /\ Record("held", r, TRUE).kind = "held" /\ Record("held", r, TRUE).live = TRUE
<1>1. Record("held", r, TRUE) = [kind |-> "held", owner |-> r, live |-> TRUE]
  BY DEF Record
<1>2. [kind |-> "held", owner |-> r, live |-> TRUE] \in Records
  BY DEF Records
<1>3. /\ Record("held", r, TRUE).owner = r /\ Record("held", r, TRUE).kind = "held"
      /\ Record("held", r, TRUE).live = TRUE
  BY DEF Record
<1>4. Record("held", r, TRUE) \in Records
  BY <1>1, <1>2
<1> QED BY <1>3, <1>4

\* A new claim is in no call under way, and the calls are otherwise the same.
LEMMA Forgets ==
    ASSUME TypeOK, NEW r \in Requests
    PROVE  /\ DOMAIN Forgotten(r) = Requests
           /\ \A q \in Requests :
                 /\ DOMAIN Forgotten(r)[q] = DOMAIN closing[q]
                 /\ Forgotten(r)[q] \in [DOMAIN closing[q] -> Calls]
                 /\ \A i \in DOMAIN closing[q] :
                       /\ \/ Forgotten(r)[q][i].owner = closing[q][i].owner
                          \/ closing[q][i].owner = r /\ Forgotten(r)[q][i].owner = NoOne
                       /\ Forgotten(r)[q][i].owner = r => accepted[q][i] # Claimed(r)
<1>1. ASSUME NEW q \in Requests, NEW i \in DOMAIN closing[q]
      PROVE  /\ Forgotten(r)[q][i] \in Calls
             /\ \/ Forgotten(r)[q][i].owner = closing[q][i].owner
                \/ closing[q][i].owner = r /\ Forgotten(r)[q][i].owner = NoOne
             /\ Forgotten(r)[q][i].owner = r => accepted[q][i] # Claimed(r)
  <2>1. /\ closing[q][i] \in Calls /\ NoOne \notin Requests
        /\ closing[q][i].linked \in BOOLEAN
    BY Typed
  <2>2. CASE closing[q][i].owner = r /\ accepted[q][i] = Claimed(r)
    <3>1. Forgotten(r)[q][i] = [closing[q][i] EXCEPT !.owner = NoOne]
      BY <2>2 DEF Forgotten
    <3>2. /\ [closing[q][i] EXCEPT !.owner = NoOne] \in Calls
          /\ [closing[q][i] EXCEPT !.owner = NoOne].owner = NoOne
      BY <2>1 DEF Calls
    <3> QED BY <2>1, <2>2, <3>1, <3>2
  <2>3. CASE ~(closing[q][i].owner = r /\ accepted[q][i] = Claimed(r))
    <3>1. Forgotten(r)[q][i] = closing[q][i]
      BY <2>3 DEF Forgotten
    <3> QED BY <2>1, <2>3, <3>1
  <2> QED BY <2>2, <2>3
<1>2. /\ DOMAIN Forgotten(r) = Requests
      /\ \A q \in Requests :
            /\ DOMAIN Forgotten(r)[q] = DOMAIN closing[q]
            /\ Forgotten(r)[q] = [i \in DOMAIN closing[q] |-> Forgotten(r)[q][i]]
  BY DEF Forgotten
<1>3. ASSUME NEW q \in Requests PROVE Forgotten(r)[q] \in [DOMAIN closing[q] -> Calls]
  <2>1. \A i \in DOMAIN closing[q] : Forgotten(r)[q][i] \in Calls
    BY <1>1
  <2>2. Forgotten(r)[q] = [i \in DOMAIN closing[q] |-> Forgotten(r)[q][i]]
    BY <1>2
  <2> QED BY <2>1, <2>2
<1> QED BY <1>1, <1>2, <1>3

\* Whoever owns the entries of these events is disowned.
LEMMA Disowns ==
    ASSUME TypeOK, NEW r \in Requests, NEW K \in SUBSET Keys, Disown(r, K)
    PROVE  /\ disowned' \in [Requests -> SUBSET Keys]
           /\ disowned'[r] = disowned[r]
           /\ \A q \in Requests : disowned[q] \subseteq disowned'[q]
           /\ \A q \in Requests \ {r}, k \in K :
                 owners[home[r]][k] = q => k \in disowned'[q]
<1>1. \A q \in Requests : disowned[q] \in SUBSET Keys
  BY DEF TypeOK
<1>2. \A q \in Requests :
         disowned'[q] = disowned[q] \cup {k \in K : q # r /\ owners[home[r]][k] = q}
  BY DEF Disown
<1>3. disowned' \in [Requests -> SUBSET Keys]
  <2>1. disowned' = [q \in Requests |-> disowned'[q]]
    BY DEF Disown
  <2>2. \A q \in Requests : disowned'[q] \in SUBSET Keys
    BY <1>1, <1>2
  <2> QED BY <2>1, <2>2
<1>4. \A q \in Requests : disowned[q] \subseteq disowned'[q]
  BY <1>2
<1>5. disowned'[r] = disowned[r]
  BY <1>2
<1>6. \A q \in Requests \ {r}, k \in K : owners[home[r]][k] = q => k \in disowned'[q]
  BY <1>2
<1> QED BY <1>3, <1>4, <1>5, <1>6

\* Calls begin: each has read the entry of its event, and its owner is known to
\* be taken if it is another handler.
Begun(r, s, P) ==
    /\ step' \in [Requests -> Steps] /\ step'[r] = s
    /\ home' = home /\ pos' = pos /\ accepted' = accepted
    /\ DOMAIN closing' = Requests /\ DOMAIN closing'[r] \subseteq P
    /\ closing'[r] \in [DOMAIN closing'[r] -> Calls]
    /\ \A i \in DOMAIN closing'[r] : closing'[r][i].owner = owners[home[r]][accepted[r][i]]
    /\ \A i \in P : owners[home[r]][accepted[r][i]] # NoOne => i \in DOMAIN closing'[r]
    /\ disowned' \in [Requests -> SUBSET Keys] /\ disowned'[r] = disowned[r]
    /\ \A i \in P, q \in Requests \ {r} :
          owners[home[r]][accepted[r][i]] = q => accepted[r][i] \in disowned'[q]
    /\ \A q \in Requests \ {r} :
          /\ step'[q] = step[q] /\ disowned[q] \subseteq disowned'[q]
          /\ DOMAIN closing'[q] = DOMAIN closing[q]
          /\ closing'[q] \in [DOMAIN closing[q] -> Calls]
          /\ \A i \in DOMAIN closing[q] :
                \/ closing'[q][i].owner = closing[q][i].owner
                \/ closing[q][i].owner = r /\ closing'[q][i].owner = NoOne

\* Begin is as above.
LEMMA Begins ==
    ASSUME TypeOK, NEW r \in Requests, home[r] \in Procs, NEW s \in Steps,
           NEW P, P \subseteq DOMAIN accepted[r],
           Begin(r, s, P, closing) \/ Begin(r, s, P, Forgotten(r))
    PROVE  Begun(r, s, P)
<1>1. /\ \A i \in P :
            /\ accepted[r][i] \in Keys
            /\ owners[home[r]][accepted[r][i]] \in Requests \cup {NoOne}
      /\ DOMAIN closing = Requests
  BY Typed DEF TypeOK
<1> DEFINE Entry(i) == owners[home[r]][accepted[r][i]]
<1>2. PICK begun : begun = [i \in {j \in P : Entry(j) # NoOne} |->
                               [owner |-> Entry(i), linked |-> FALSE]]
  OBVIOUS
<1>3. /\ DOMAIN begun \subseteq P
      /\ \A i \in P : Entry(i) # NoOne => i \in DOMAIN begun
      /\ \A i \in DOMAIN begun : begun[i] \in Calls /\ begun[i].owner = Entry(i)
  BY <1>1, <1>2 DEF Calls
<1>4. begun \in [DOMAIN begun -> Calls]
  <2>1. begun = [i \in DOMAIN begun |-> begun[i]]
    BY <1>2
  <2> QED BY <1>3, <2>1
<1>5. /\ DOMAIN closing' = Requests /\ closing'[r] = begun
      /\ \A q \in Requests \ {r} : closing'[q] = closing[q] \/ closing'[q] = Forgotten(r)[q]
  <2>1. CASE closing' = [closing EXCEPT ![r] = begun]
    BY <1>1, <2>1
  <2>2. CASE closing' = [Forgotten(r) EXCEPT ![r] = begun]
    BY <2>2, Forgets
  <2> QED BY <1>2, <2>1, <2>2 DEF Begin
<1>6. ASSUME NEW q \in Requests \ {r}
      PROVE  /\ DOMAIN closing'[q] = DOMAIN closing[q]
             /\ closing'[q] \in [DOMAIN closing[q] -> Calls]
             /\ \A i \in DOMAIN closing[q] :
                   \/ closing'[q][i].owner = closing[q][i].owner
                   \/ closing[q][i].owner = r /\ closing'[q][i].owner = NoOne
  <2>1. CASE closing'[q] = closing[q]
    BY <2>1 DEF TypeOK
  <2>2. CASE closing'[q] = Forgotten(r)[q]
    BY <2>2, Forgets
  <2> QED BY <1>5, <2>1, <2>2
<1>7. /\ step' \in [Requests -> Steps] /\ step'[r] = s
      /\ home' = home /\ pos' = pos /\ accepted' = accepted
      /\ \A q \in Requests \ {r} : step'[q] = step[q]
  BY DEF Begin, TypeOK
<1>8. PICK K \in SUBSET Keys : K = {accepted[r][i] : i \in P}
  BY <1>1
<1>9. Disown(r, K)
  BY <1>8 DEF Begin
<1>10. /\ disowned' \in [Requests -> SUBSET Keys] /\ disowned'[r] = disowned[r]
       /\ \A q \in Requests : disowned[q] \subseteq disowned'[q]
       /\ \A q \in Requests \ {r}, k \in K : owners[home[r]][k] = q => k \in disowned'[q]
  BY <1>9, Disowns
<1>11. \A i \in P : accepted[r][i] \in K
  BY <1>8
<1>12. \A i \in P, q \in Requests \ {r} : Entry(i) = q => accepted[r][i] \in disowned'[q]
  BY <1>10, <1>11
<1> QED BY <1>3, <1>4, <1>5, <1>6, <1>7, <1>10, <1>12 DEF Begun

---------------------------------------------------------------------------
(* The steps of a handler                                                  *)

\* What is known of a handler that has begun.
LEMMA Handling ==
    ASSUME IInv, NEW r \in Requests, step[r] # "idle"
    PROVE  /\ TypeOK /\ Shape(r) /\ Covered(r) /\ Closed(r) /\ Foreign(r) /\ home[r] \in Procs
           /\ accepted[r] \in Seq(Keys) /\ pos[r] \in Nat /\ pos[r] >= 1
           /\ \A i \in DOMAIN accepted[r] : accepted[r][i] \in Keys
           /\ \A p \in Procs, k \in Keys : owners[p][k] = r => home[r] = p /\ Among(k, accepted[r])
           /\ NoOne \notin Requests
           /\ stalls = 0 => Owned(r)
<1>1. TypeOK /\ Shape(r) /\ Covered(r) /\ Closed(r) /\ Foreign(r) /\ NoOne \notin Requests
  BY RouterAssumption DEF IInv, RouterAssumption
<1>2. /\ accepted[r] \in Seq(Keys) /\ pos[r] \in Nat
      /\ \A i \in DOMAIN accepted[r] : accepted[r][i] \in Keys
  BY <1>1, Typed
<1>3. \A p \in Procs, k \in Keys : owners[p][k] = r => home[r] = p /\ Among(k, accepted[r])
  BY <1>1 DEF IInv, NoClaimStranded, Among
<1> QED BY <1>1, <1>2, <1>3 DEF Shape, IInv

\* What is known of the calls of the other handlers for claims of this one.
LEMMA OfOthers ==
    ASSUME IInv, NEW r \in Requests, NEW q \in Requests \ {r}, NEW i \in DOMAIN closing[q],
           closing[q][i].owner = r
    PROVE  accepted[q][i] \in disowned[r] \/ ~Among(accepted[q][i], accepted[r])
BY DEF IInv, Foreign

\* A handler goes on and leaves the store, its list and the calls alone.
LEMMA QuietStep ==
    ASSUME IInv, NEW r \in Requests, NEW s \in {"claim", "claiming", "deliver"}, NEW i \in Nat,
           Become(r, s, i, accepted[r]),
           UNCHANGED <<store, owners, calls, response, delivered, stalls>>,
           Trouble(r) \/ UNCHANGED troubled, faults' \in 0..MaxFaults,
           step[r] \in {"claim", "claiming"},
           s = "claiming" => i <= Len(Batch[r]),
           s = "deliver" => i > Len(Batch[r]),
           \/ i = pos[r]
           \/ i = pos[r] + 1 /\ (troubled'[r] \/ Batch[r][pos[r]] \in delivered)
    PROVE  IInv'
<1>1. /\ TypeOK /\ Shape(r) /\ Covered(r) /\ Closed(r) /\ Foreign(r) /\ home[r] \in Procs
      /\ accepted[r] \in Seq(Keys) /\ pos[r] \in Nat /\ pos[r] >= 1
      /\ \A p \in Procs, k \in Keys : owners[p][k] = r => home[r] = p /\ Among(k, accepted[r])
      /\ stalls = 0 => Owned(r)
  BY Handling
<1>2. /\ step' \in [Requests -> Steps] /\ pos' \in [Requests -> Nat]
      /\ accepted' \in [Requests -> Seq(Keys)] /\ home' = home /\ accepted' = accepted
      /\ step'[r] = s /\ pos'[r] = i
      /\ closing' = closing /\ disowned' = disowned
      /\ \A q \in Requests \ {r} : step'[q] = step[q] /\ pos'[q] = pos[q]
  <2>1. s \in Steps
    BY DEF Steps
  <2>2. accepted' = accepted
    BY <1>1 DEF Become, TypeOK
  <2> QED BY <1>1, <2>1, <2>2, Becomes DEF calls
<1>3. /\ troubled' \in [Requests -> BOOLEAN]
      /\ troubled[r] => troubled'[r]
      /\ \A q \in Requests \ {r} : troubled'[q] = troubled[q]
  BY <1>1, Troubled
<1>4. TypeOK'
  BY <1>1, <1>2, <1>3 DEF TypeOK, Calls
<1>5. Parts(r) = {} /\ Parts(r)' = {}
  BY <1>2 DEF Parts
<1>6. Shape(r)'
  BY <1>1, <1>2, <1>5 DEF Shape
<1>7. Covered(r)'
  <2>1. ASSUME ~troubled'[r], NEW j \in 1..Len(Batch[r]), j < i
        PROVE  Batch[r][j] \in delivered \/ Among(Batch[r][j], accepted[r])
    <3>1. j \in Nat /\ ~troubled[r]
      BY <1>3, <2>1, Batches
    <3>2. CASE j < pos[r]
      BY <1>1, <2>1, <3>1, <3>2 DEF Covered
    <3>3. CASE ~(j < pos[r])
      <4>1. j = pos[r] /\ Batch[r][pos[r]] \in delivered
        BY <1>1, <2>1, <3>1, <3>3
      <4> QED BY <4>1
    <3> QED BY <3>2, <3>3
  <2> QED BY <1>1, <1>2, <2>1 DEF Covered, Among
<1>8. Closed(r)' /\ Foreign(r)'
  BY <1>1, <1>2, <1>5 DEF Closed, Foreign, Among
<1>9. ASSUME stalls = 0 PROVE Owned(r)'
  <2>1. ASSUME NEW j \in DOMAIN accepted'[r] \ Parts(r)', accepted'[r][j] \notin disowned'[r]
        PROVE  /\ owners'[home'[r]][accepted'[r][j]] = r
               /\ store'[accepted'[r][j]] = Record("held", r, TRUE)
               /\ \A m \in DOMAIN accepted'[r] : accepted'[r][m] = accepted'[r][j] => m = j
    BY <1>1, <1>2, <1>5, <1>9, <2>1 DEF Owned
  <2> QED BY <2>1 DEF Owned, Record
<1>10. \A q \in Requests \ {r} : \A j \in DOMAIN closing[q] : closing'[q][j].owner = r =>
           accepted[q][j] \in disowned'[r] \/ ~Among(accepted[q][j], accepted'[r])
  BY <1>2, OfOthers
<1>11. \A p \in Procs, k \in Keys : owners'[p][k] = r => home'[r] = p /\ Among(k, accepted'[r])
  BY <1>1, <1>2
<1> QED BY <1>2, <1>3, <1>4, <1>6, <1>7, <1>8, <1>9, <1>10, <1>11, HandlerKeeps

\* The event that is claimed.
LEMMA ClaimedTyped ==
    ASSUME IInv, NEW r \in Requests, step[r] \in {"claim", "claiming"}, pos[r] <= Len(Batch[r])
    PROVE  Claimed(r) \in Keys /\ pos[r] \in 1..Len(Batch[r])
<1>1. pos[r] \in Nat /\ pos[r] >= 1 /\ Len(Batch[r]) \in Nat
  BY Handling, Batches
<1> QED BY <1>1, Batches DEF Claimed

\* The steps of handle that touch no claim.
LEMMA QuietSteps ==
    ASSUME IInv, NEW r \in Requests,
           \/ ClaimHeldHere(r) \/ ClaimStart(r) \/ ClaimCompleted(r) \/ ClaimHeld(r)
           \/ ClaimedAll(r)
    PROVE  IInv'
<1>1. TypeOK /\ step[r] \in {"claim", "claiming"}
  BY DEF IInv, ClaimHeldHere, ClaimStart, ClaimCompleted, ClaimHeld, ClaimedAll
<1>2. /\ Shape(r) /\ accepted[r] \in Seq(Keys) /\ pos[r] \in Nat /\ pos[r] + 1 \in Nat
      /\ Len(Batch[r]) \in Nat /\ delivered \subseteq Keys
  BY <1>1, Handling, Batches DEF TypeOK
<1>3. CASE ClaimHeldHere(r) \/ ClaimHeld(r)
  <2>1. /\ Become(r, "claim", pos[r] + 1, accepted[r]) /\ Trouble(r)
        /\ UNCHANGED <<store, owners, calls, response, delivered, faults, stalls>>
    BY <1>3 DEF ClaimHeldHere, ClaimHeld
  <2>2. troubled'[r] /\ faults' \in 0..MaxFaults
    BY <1>1, <2>1, Troubled, FaultsTyped
  <2> QED BY <1>1, <1>2, <2>1, <2>2, QuietStep
<1>4. CASE ClaimStart(r)
  BY <1>1, <1>2, <1>4, FaultsTyped, QuietStep DEF ClaimStart
<1>5. CASE ClaimCompleted(r)
  <2>1. pos[r] <= Len(Batch[r])
    BY <1>2, <1>5 DEF Shape, ClaimCompleted
  <2>2. Claimed(r) \in delivered
    BY <1>1, <1>5, <2>1, ClaimedTyped DEF ClaimCompleted, IInv, DoneIsDelivered
  <2> QED BY <1>1, <1>2, <1>5, <2>2, FaultsTyped, QuietStep DEF ClaimCompleted, Claimed
<1>6. CASE ClaimedAll(r)
  BY <1>1, <1>2, <1>6, FaultsTyped, QuietStep DEF ClaimedAll
<1> QED BY <1>3, <1>4, <1>5, <1>6

\* A claim takes over what is not live, so nothing another handler is to keep;
\* the event is appended to the list of the handler.
LEMMA ClaimAcquiredStep ==
    ASSUME IInv, NEW r \in Requests, ClaimAcquired(r)
    PROVE  IInv'
<1>1. /\ TypeOK /\ Shape(r) /\ Covered(r) /\ home[r] \in Procs
      /\ accepted[r] \in Seq(Keys) /\ pos[r] \in Nat /\ pos[r] + 1 \in Nat
      /\ \A p \in Procs, k \in Keys : owners[p][k] = r => home[r] = p /\ Among(k, accepted[r])
      /\ NoOne \notin Requests
      /\ stalls = 0 => Owned(r)
      /\ step[r] = "claiming"
  BY Handling DEF ClaimAcquired
<1>2. pos[r] <= Len(Batch[r]) /\ Parts(r) = {} /\ DOMAIN closing[r] = {}
  BY <1>1 DEF Shape, Parts
<1>3. PICK k \in Keys : k = Claimed(r)
  BY <1>1, <1>2, ClaimedTyped
<1>4. PICK p \in Procs : p = home[r]
  BY <1>1
<1>5. PICK events \in Seq(Keys) : events = Append(accepted[r], k)
  BY <1>1, Appended
<1>6. /\ DOMAIN accepted[r] = 1..Len(accepted[r]) /\ Len(accepted[r]) \in Nat
      /\ DOMAIN events = 1..(Len(accepted[r]) + 1) /\ events[Len(accepted[r]) + 1] = k
      /\ \A i \in DOMAIN accepted[r] : events[i] = accepted[r][i] /\ accepted[r][i] \in Keys
  BY <1>1, <1>5, Appended, Typed
<1>r. PICK record \in Records : record = Record("held", r, TRUE)
  BY HeldRecord
<1>7. record.owner = r /\ record.kind = "held" /\ record.live = TRUE
  BY <1>r, HeldRecord
<1>8. /\ store' = [store EXCEPT ![k] = record] /\ owners' = [owners EXCEPT ![p][k] = r]
      /\ Become(r, "claim", pos[r] + 1, events) /\ closing' = Forgotten(r)
      /\ ~store[k].live
      /\ UNCHANGED <<disowned, troubled, response, delivered, faults, stalls>>
  BY <1>3, <1>4, <1>5, <1>r DEF ClaimAcquired, Own, Link
<1>9. /\ step' \in [Requests -> Steps] /\ pos' \in [Requests -> Nat]
      /\ accepted' \in [Requests -> Seq(Keys)] /\ home' = home
      /\ step'[r] = "claim" /\ pos'[r] = pos[r] + 1 /\ accepted'[r] = events
      /\ \A q \in Requests \ {r} :
            step'[q] = step[q] /\ pos'[q] = pos[q] /\ accepted'[q] = accepted[q]
  BY <1>1, <1>8, Becomes DEF Steps
<1>10. /\ store' \in [Keys -> Records]
       /\ owners' \in [Procs -> [Keys -> Requests \cup {NoOne}]]
       /\ store'[k] = record /\ owners'[p][k] = r
       /\ \A j \in Keys \ {k} : store'[j] = store[j]
       /\ \A q \in Procs, j \in Keys : q # p \/ j # k => owners'[q][j] = owners[q][j]
  BY <1>1, <1>8 DEF TypeOK
<1>c. /\ DOMAIN closing' = Requests /\ DOMAIN closing'[r] = {}
      /\ \A q \in Requests :
            /\ DOMAIN closing'[q] = DOMAIN closing[q]
            /\ closing'[q] \in [DOMAIN closing'[q] -> Calls]
            /\ \A i \in DOMAIN closing[q] :
                  /\ \/ closing'[q][i].owner = closing[q][i].owner
                     \/ closing[q][i].owner = r /\ closing'[q][i].owner = NoOne
                  /\ closing'[q][i].owner = r => accepted[q][i] # k
  BY <1>1, <1>2, <1>3, <1>8, Forgets
<1>11. TypeOK'
  <2>1. \A q \in Requests : /\ DOMAIN closing'[q] \subseteq DOMAIN accepted'[q]
                            /\ closing'[q] \in [DOMAIN closing'[q] -> Calls]
    BY <1>1, <1>9, <1>c DEF TypeOK
  <2>2. DOMAIN closing' = Requests
    BY <1>c
  <2> QED BY <1>1, <1>8, <1>9, <1>10, <2>1, <2>2 DEF TypeOK, Calls
<1>12. Shape(r)' /\ Parts(r)' = {}
  BY <1>1, <1>4, <1>9, <1>c DEF Shape, Parts
<1>13. \A j : Among(j, events) <=> Among(j, accepted[r]) \/ j = k
  <2>1. ASSUME NEW j, Among(j, accepted[r]) \/ j = k PROVE Among(j, events)
    BY <1>6, <2>1 DEF Among
  <2>2. ASSUME NEW j, Among(j, events) PROVE Among(j, accepted[r]) \/ j = k
    BY <1>6, <2>2 DEF Among
  <2> QED BY <2>1, <2>2
<1>14. Covered(r)'
  <2>1. ASSUME ~troubled[r], NEW j \in 1..Len(Batch[r]), j < pos[r] + 1
        PROVE  Batch[r][j] \in delivered \/ Among(Batch[r][j], events)
    <3>1. CASE j < pos[r]
      BY <1>1, <1>13, <2>1, <3>1 DEF Covered
    <3>2. CASE ~(j < pos[r])
      <4>1. j = pos[r]
        BY <1>1, <2>1, <3>2, Batches
      <4> QED BY <1>3, <1>13, <4>1 DEF Claimed
    <3> QED BY <3>1, <3>2
  <2> QED BY <1>1, <1>8, <1>9, <2>1 DEF Covered
<1>15. \A q \in Procs, j \in Keys : owners'[q][j] = r => home'[r] = q /\ Among(j, accepted'[r])
  <2>1. ASSUME NEW q \in Procs, NEW j \in Keys, owners'[q][j] = r
        PROVE  home[r] = q /\ Among(j, events)
    <3>1. CASE q = p /\ j = k
      BY <1>4, <1>13, <3>1
    <3>2. CASE q # p \/ j # k
      BY <1>1, <1>10, <1>13, <2>1, <3>2
    <3> QED BY <3>1, <3>2
  <2> QED BY <1>9, <2>1
<1>16. Closed(r)' /\ Foreign(r)'
  BY <1>12, <1>c DEF Closed, Foreign
<1>17. ASSUME stalls = 0 PROVE Owned(r)'
  <2>1. ASSUME NEW i \in DOMAIN accepted[r], accepted[r][i] \notin disowned[r]
        PROVE  /\ accepted[r][i] \in Keys \ {k}
               /\ owners[p][accepted[r][i]] = r /\ store[accepted[r][i]] = record
               /\ \A j \in DOMAIN accepted[r] : accepted[r][j] = accepted[r][i] => j = i
    <3>1. accepted[r][i] \in Keys
      BY <1>6
    <3>2. /\ owners[p][accepted[r][i]] = r /\ store[accepted[r][i]] = record
          /\ \A j \in DOMAIN accepted[r] : accepted[r][j] = accepted[r][i] => j = i
      BY <1>1, <1>2, <1>4, <1>r, <1>17, <2>1 DEF Owned
    <3> QED BY <1>7, <1>8, <3>1, <3>2
  <2>2. ASSUME NEW i \in DOMAIN events, events[i] \notin disowned[r]
        PROVE  /\ owners'[p][events[i]] = r /\ store'[events[i]] = record
               /\ \A j \in DOMAIN events : events[j] = events[i] => j = i
    <3>1. CASE i \in DOMAIN accepted[r]
      <4>1. /\ events[i] = accepted[r][i] /\ events[i] \in Keys \ {k}
            /\ owners[p][events[i]] = r /\ store[events[i]] = record
            /\ \A j \in DOMAIN accepted[r] : accepted[r][j] = events[i] => j = i
        <5>1. events[i] = accepted[r][i] /\ accepted[r][i] \notin disowned[r]
          BY <1>6, <2>2, <3>1
        <5> QED BY <2>1, <3>1, <5>1
      <4>2. /\ owners'[p][events[i]] = owners[p][events[i]]
            /\ store'[events[i]] = store[events[i]]
        BY <1>10, <4>1
      <4>3. ASSUME NEW j \in DOMAIN events, events[j] = events[i] PROVE j = i
        <5>1. j \in DOMAIN accepted[r] \/ events[j] = k
          BY <1>6
        <5> QED BY <1>6, <4>1, <4>3, <5>1
      <4> QED BY <4>1, <4>2, <4>3
    <3>2. CASE i \notin DOMAIN accepted[r]
      <4>1. i = Len(accepted[r]) + 1 /\ events[i] = k
        BY <1>6, <3>2
      <4>2. \A j \in DOMAIN accepted[r] : accepted[r][j] # k
        BY <2>1, <2>2, <4>1
      <4> QED BY <1>6, <1>10, <4>1, <4>2
    <3> QED BY <3>1, <3>2
  <2>3. accepted'[r] = events /\ home'[r] = p /\ disowned'[r] = disowned[r]
    BY <1>4, <1>8, <1>9
  <2> QED BY <1>r, <2>2, <2>3 DEF Owned, Record
<1>18. \A j \in Keys : store'[j] = store[j] \/ (~store[j].live /\ store'[j].kind = "held")
  BY <1>7, <1>8, <1>10
<1>19. \A q \in Procs, j \in Keys :
           owners'[q][j] = owners[q][j] \/ (~store[j].live /\ owners'[q][j] = r)
  <2>1. ASSUME NEW q \in Procs, NEW j \in Keys
        PROVE  owners'[q][j] = owners[q][j] \/ (~store[j].live /\ owners'[q][j] = r)
    <3>1. CASE q = p /\ j = k
      BY <1>8, <1>10, <3>1
    <3>2. CASE q # p \/ j # k
      BY <1>10, <3>2
    <3> QED BY <3>1, <3>2
  <2> QED BY <2>1
<1>20. \A j \in Keys : store'[j].kind = "done" => store[j].kind = "done" \/ j \in delivered'
  BY <1>18
<1>21. \A q \in Procs, j \in Keys : owners'[q][j] \in {owners[q][j], NoOne, r}
  BY <1>19
<1>22. ASSUME NEW q \in Requests \ {r}, NEW j \in Keys, Kept(q, j), home[q] \in Procs
       PROVE  owners'[home[q]][j] = owners[home[q]][j] /\ store'[j] = store[j]
  <2>1. store[j].live
    BY <1>22, HeldRecord DEF Kept
  <2> QED BY <1>18, <1>19, <1>22, <2>1
<1>23. ASSUME NEW q \in Requests \ {r}, NEW i \in DOMAIN closing[q], closing'[q][i].owner = r
       PROVE  accepted[q][i] \in disowned'[r] \/ ~Among(accepted[q][i], accepted'[r])
  <2>1. closing[q][i].owner = r /\ accepted[q][i] # k
    BY <1>1, <1>c, <1>23
  <2>2. accepted[q][i] \in disowned[r] \/ ~Among(accepted[q][i], accepted[r])
    BY <2>1, OfOthers
  <2> QED BY <1>8, <1>9, <1>13, <2>1, <2>2
<1>24. \A q \in Requests \ {r} :
           /\ home'[q] = home[q] /\ step'[q] = step[q] /\ pos'[q] = pos[q]
           /\ accepted'[q] = accepted[q] /\ troubled'[q] = troubled[q]
           /\ response'[q] = response[q]
           /\ disowned[q] \subseteq disowned'[q]
           /\ DOMAIN closing'[q] = DOMAIN closing[q]
           /\ \A i \in DOMAIN closing[q] :
                 \/ closing'[q][i].owner = closing[q][i].owner
                 \/ closing[q][i].owner = r /\ closing'[q][i].owner = NoOne
  BY <1>8, <1>9, <1>c
<1>25. delivered \subseteq delivered' /\ stalls' = stalls
  BY <1>8
<1> QED BY <1>11, <1>12, <1>14, <1>15, <1>16, <1>17, <1>20, <1>21, <1>22, <1>23, <1>24, <1>25,
           HandlerKeeps

\* Calls begin: the handler has nothing more to keep of their claims.
LEMMA BeginStep ==
    ASSUME IInv, NEW r \in Requests, NEW s \in {"unwind", "complete", "release"}, NEW P,
           Begin(r, s, P, closing) \/ Begin(r, s, P, Forgotten(r)),
           P = IF s = "unwind" THEN DOMAIN accepted[r] ELSE {1},
           step[r] \in {"claiming", "deliver", "complete"},
           s # "unwind" => accepted[r] # <<>> /\ step[r] # "claiming" /\ store' = store,
           s = "complete" => Head(accepted[r]) \in delivered',
           delivered \subseteq delivered', delivered' \subseteq Keys,
           UNCHANGED <<owners, troubled, response, stalls>>, faults' \in 0..MaxFaults,
           store' \in [Keys -> Records],
           \A k \in Keys : store'[k] = store[k] \/ (~store[k].live /\ store'[k].kind = "held")
    PROVE  IInv'
<1>1. /\ TypeOK /\ Shape(r) /\ Covered(r) /\ home[r] \in Procs
      /\ accepted[r] \in Seq(Keys) /\ pos[r] \in Nat /\ NoOne \notin Requests
      /\ \A i \in DOMAIN accepted[r] : accepted[r][i] \in Keys
      /\ \A p \in Procs, k \in Keys : owners[p][k] = r => home[r] = p /\ Among(k, accepted[r])
      /\ stalls = 0 => Owned(r)
  BY Handling
<1>2. P \subseteq DOMAIN accepted[r] /\ s \in Steps
  BY <1>1, HeadAndTail DEF Steps
<1>b. Begun(r, s, P)
  BY <1>1, <1>2, Begins
<1>3. /\ step' \in [Requests -> Steps] /\ step'[r] = s
      /\ home' = home /\ pos' = pos /\ accepted' = accepted
      /\ DOMAIN closing' = Requests /\ DOMAIN closing'[r] \subseteq P
      /\ closing'[r] \in [DOMAIN closing'[r] -> Calls]
      /\ \A i \in DOMAIN closing'[r] : closing'[r][i].owner = owners[home[r]][accepted[r][i]]
      /\ \A i \in P : owners[home[r]][accepted[r][i]] # NoOne => i \in DOMAIN closing'[r]
      /\ disowned' \in [Requests -> SUBSET Keys] /\ disowned'[r] = disowned[r]
      /\ \A i \in P, q \in Requests \ {r} :
            owners[home[r]][accepted[r][i]] = q => accepted[r][i] \in disowned'[q]
      /\ \A q \in Requests \ {r} :
            /\ step'[q] = step[q] /\ disowned[q] \subseteq disowned'[q]
            /\ DOMAIN closing'[q] = DOMAIN closing[q]
            /\ closing'[q] \in [DOMAIN closing[q] -> Calls]
            /\ \A i \in DOMAIN closing[q] :
                  \/ closing'[q][i].owner = closing[q][i].owner
                  \/ closing[q][i].owner = r /\ closing'[q][i].owner = NoOne
  BY <1>b DEF Begun
<1>4. TypeOK'
  <2>1. \A q \in Requests : /\ DOMAIN closing'[q] \subseteq DOMAIN accepted'[q]
                            /\ closing'[q] \in [DOMAIN closing'[q] -> Calls]
    <3>1. DOMAIN closing'[r] \subseteq DOMAIN accepted'[r]
      BY <1>2, <1>3
    <3>2. ASSUME NEW q \in Requests \ {r}
          PROVE  /\ DOMAIN closing'[q] \subseteq DOMAIN accepted'[q]
                 /\ closing'[q] \in [DOMAIN closing'[q] -> Calls]
      BY <1>1, <1>3 DEF TypeOK
    <3> QED BY <1>3, <3>1, <3>2
  <2> QED BY <1>1, <1>3, <2>1 DEF TypeOK, Calls
<1>5. Parts(r)' = P
  BY <1>3 DEF Parts
<1>6. Shape(r)'
  BY <1>1, <1>3, <1>5 DEF Shape
<1>7. Covered(r)'
  BY <1>1, <1>3 DEF Covered, Among
<1>8. Closed(r)' /\ Foreign(r)'
  <2>1. ASSUME NEW i \in P, owners[home[r]][accepted[r][i]] = r
        PROVE  i \in DOMAIN closing'[r] /\ closing'[r][i].owner = r
    BY <1>1, <1>3, <2>1
  <2>2. ASSUME NEW i \in DOMAIN closing'[r], NEW q \in Requests \ {r}, closing'[r][i].owner = q
        PROVE  accepted[r][i] \in disowned'[q]
    BY <1>3, <2>2
  <2> QED BY <1>3, <1>5, <2>1, <2>2 DEF Closed, Foreign
<1>9. ASSUME stalls = 0 PROVE Owned(r)'
  <2>1. ASSUME NEW j \in DOMAIN accepted'[r] \ Parts(r)', accepted'[r][j] \notin disowned'[r]
        PROVE  /\ owners'[home'[r]][accepted'[r][j]] = r
               /\ store'[accepted'[r][j]] = Record("held", r, TRUE)
               /\ \A m \in DOMAIN accepted'[r] : accepted'[r][m] = accepted'[r][j] => m = j
    <3>1. /\ s # "unwind" /\ j \in DOMAIN accepted[r] \ Parts(r)
          /\ accepted[r][j] \notin disowned[r] /\ store' = store
      BY <1>3, <1>5, <2>1 DEF Parts
    <3> QED BY <1>1, <1>3, <1>9, <3>1 DEF Owned
  <2> QED BY <2>1 DEF Owned, Record
<1>10. \A q \in Requests \ {r} : \A i \in DOMAIN closing[q] : closing'[q][i].owner = r =>
           accepted[q][i] \in disowned'[r] \/ ~Among(accepted[q][i], accepted'[r])
  BY <1>1, <1>3, OfOthers
<1>11. \A p \in Procs, k \in Keys :
           /\ owners'[p][k] \in {owners[p][k], NoOne, r}
           /\ owners'[p][k] = r => home'[r] = p /\ Among(k, accepted'[r])
  BY <1>1, <1>3
<1>12. \A k \in Keys : store'[k].kind = "done" => store[k].kind = "done" \/ k \in delivered'
  OBVIOUS
<1>13. ASSUME NEW q \in Requests \ {r}, NEW k \in Keys, Kept(q, k)
       PROVE  owners'[home[q]][k] = owners[home[q]][k] /\ store'[k] = store[k]
  BY <1>13, HeldRecord DEF Kept
<1>14. \A q \in Requests \ {r} :
           /\ home'[q] = home[q] /\ step'[q] = step[q] /\ pos'[q] = pos[q]
           /\ accepted'[q] = accepted[q] /\ troubled'[q] = troubled[q]
           /\ response'[q] = response[q]
           /\ disowned[q] \subseteq disowned'[q]
           /\ DOMAIN closing'[q] = DOMAIN closing[q]
           /\ \A i \in DOMAIN closing[q] :
                 \/ closing'[q][i].owner = closing[q][i].owner
                 \/ closing[q][i].owner = r /\ closing'[q][i].owner = NoOne
  BY <1>3
<1>15. stalls' = stalls
  OBVIOUS
<1> QED BY <1>4, <1>6, <1>7, <1>8, <1>9, <1>10, <1>11, <1>12, <1>13, <1>14, <1>15, HandlerKeeps

\* The steps at which calls begin.
LEMMA BeginSteps ==
    ASSUME IInv, NEW r \in Requests,
           \/ ClaimThrows(r) \/ DeliverResolves(r) \/ DeliverRejects(r)
           \/ CompleteThrows(r) /\ Begin(r, "release", {1}, closing) /\ UNCHANGED owners /\ Fault
    PROVE  IInv'
<1>1. /\ TypeOK /\ Shape(r) /\ step[r] \in {"claiming", "deliver", "complete"}
      /\ store \in [Keys -> Records] /\ delivered \subseteq Keys
      /\ accepted[r] \in Seq(Keys)
  <2>1. step[r] \in {"claiming", "deliver", "complete"}
    BY DEF ClaimThrows, DeliverResolves, DeliverRejects, CompleteThrows
  <2> QED BY <2>1, Handling DEF TypeOK
<1>2. CASE ClaimThrows(r)
  <2>1. step[r] = "claiming" /\ pos[r] <= Len(Batch[r])
    BY <1>1, <1>2 DEF ClaimThrows, Shape
  <2>2. PICK k \in Keys : k = Claimed(r)
    BY <2>1, ClaimedTyped
  <2>3. PICK record \in Records : record = Record("held", r, TRUE)
    BY HeldRecord
  <2>4. PICK P : P = DOMAIN accepted[r]
    OBVIOUS
  <2>5. /\ store' = store \/ (~store[k].live /\ store' = [store EXCEPT ![k] = record])
        /\ Begin(r, "unwind", P, closing) \/ Begin(r, "unwind", P, Forgotten(r))
        /\ faults' \in 0..MaxFaults
        /\ UNCHANGED <<owners, troubled, response, delivered, stalls>>
    BY <1>1, <1>2, <2>2, <2>3, <2>4, FaultsTyped DEF ClaimThrows, Link
  <2>6. /\ store' \in [Keys -> Records] /\ record.kind = "held"
        /\ \A j \in Keys : store'[j] = store[j] \/ (~store[j].live /\ store'[j].kind = "held")
    BY <1>1, <2>3, <2>5, HeldRecord
  <2> QED BY <1>1, <2>1, <2>4, <2>5, <2>6, BeginStep
<1>3. CASE DeliverResolves(r)
  <2>1. /\ Head(accepted[r]) \in Keys /\ faults' \in 0..MaxFaults
    BY <1>1, <1>3, HeadAndTail, FaultsTyped DEF DeliverResolves
  <2> QED BY <1>1, <1>3, <2>1, BeginStep DEF DeliverResolves
<1>4. CASE DeliverRejects(r)
  <2>1. faults' \in 0..MaxFaults
    BY <1>1, <1>4, FaultsTyped DEF DeliverRejects
  <2> QED BY <1>1, <1>4, <2>1, BeginStep DEF DeliverRejects
<1>5. CASE CompleteThrows(r) /\ Begin(r, "release", {1}, closing) /\ UNCHANGED owners /\ Fault
  <2>1. faults' \in 0..MaxFaults /\ accepted[r] # <<>> /\ step[r] = "complete"
    BY <1>1, <1>5, FaultsTyped DEF CompleteThrows, Shape
  <2> QED BY <1>1, <1>5, <2>1, BeginStep DEF CompleteThrows
<1> QED BY <1>2, <1>3, <1>4, <1>5

\* The record of a call is linked: it was the claim the call read, which is no
\* claim another handler is to keep.
LEMMA LinkStep ==
    ASSUME IInv, NEW r \in Requests, step[r] # "idle", CallLinks(r)
    PROVE  IInv'
<1>1. /\ TypeOK /\ Shape(r) /\ Covered(r) /\ Closed(r) /\ Foreign(r) /\ home[r] \in Procs
      /\ accepted[r] \in Seq(Keys) /\ NoOne \notin Requests
      /\ \A i \in DOMAIN accepted[r] : accepted[r][i] \in Keys
      /\ \A p \in Procs, j \in Keys : owners[p][j] = r => home[r] = p /\ Among(j, accepted[r])
      /\ stalls = 0 => Owned(r)
  BY Handling
<1>2. PICK i \in DOMAIN closing[r] :
           LET o == closing[r][i].owner
               k == accepted[r][i]
           IN  /\ ~closing[r][i].linked /\ Holds(o, k)
               /\ store' = [store EXCEPT ![k] =
                      IF step[r] = "complete" THEN Record("done", o, TRUE) ELSE Free]
               /\ closing' = [closing EXCEPT ![r][i].linked = TRUE]
  BY DEF CallLinks
<1>3. PICK o \in Requests, k \in Keys : o = closing[r][i].owner /\ k = accepted[r][i]
  BY <1>1, <1>2, Typed DEF Holds
<1>4. store[k].kind = "held" /\ store[k].owner = o
  BY <1>2, <1>3 DEF Holds
<1>5. PICK record \in Records :
           record = IF step[r] = "complete" THEN Record("done", o, TRUE) ELSE Free
  BY DEF Records, Record
<1>6. record.kind = "done" => step[r] = "complete"
  BY <1>5 DEF Free, Record
<1>7. /\ store' = [store EXCEPT ![k] = record]
      /\ closing' = [closing EXCEPT ![r][i].linked = TRUE]
  BY <1>2, <1>3, <1>5
<1>8. /\ owners' = owners /\ home' = home /\ step' = step /\ pos' = pos
      /\ accepted' = accepted /\ disowned' = disowned /\ troubled' = troubled
      /\ response' = response /\ delivered' = delivered /\ faults' = faults /\ stalls' = stalls
  BY DEF CallLinks
<1>9. /\ store' \in [Keys -> Records] /\ store'[k] = record
      /\ \A j \in Keys \ {k} : store'[j] = store[j]
  BY <1>1, <1>7 DEF TypeOK
<1>10. /\ DOMAIN closing' = Requests /\ DOMAIN closing'[r] = DOMAIN closing[r]
       /\ \A j \in DOMAIN closing[r] : closing'[r][j].owner = closing[r][j].owner
       /\ closing'[r] \in [DOMAIN closing[r] -> Calls]
       /\ \A q \in Requests \ {r} : closing'[q] = closing[q]
  <2>1. /\ DOMAIN closing = Requests /\ closing[r] \in [DOMAIN closing[r] -> Calls]
    BY <1>1 DEF TypeOK
  <2>2. closing'[r] = [closing[r] EXCEPT ![i].linked = TRUE]
    BY <1>7, <2>1
  <2>3. /\ [closing[r][i] EXCEPT !.linked = TRUE] \in Calls
        /\ [closing[r][i] EXCEPT !.linked = TRUE].owner = closing[r][i].owner
    BY <2>1 DEF Calls
  <2>4. closing'[r] = [closing[r] EXCEPT ![i] = [closing[r][i] EXCEPT !.linked = TRUE]]
    BY <2>2
  <2> QED BY <1>7, <2>1, <2>3, <2>4
<1>11. TypeOK'
  <2>1. \A q \in Requests : /\ DOMAIN closing'[q] \subseteq DOMAIN accepted'[q]
                            /\ closing'[q] \in [DOMAIN closing'[q] -> Calls]
    BY <1>1, <1>8, <1>10 DEF TypeOK
  <2> QED BY <1>1, <1>8, <1>9, <1>10, <2>1 DEF TypeOK, Calls
<1>12. Parts(r)' = Parts(r) /\ i \in Parts(r) /\ i \in DOMAIN accepted[r]
  BY <1>1, <1>8, Typed DEF Parts, Shape
<1>13. Shape(r)' /\ Covered(r)'
  BY <1>1, <1>8, <1>10, <1>12 DEF Shape, Covered, Among
<1>14. Closed(r)' /\ Foreign(r)'
  <2>1. ASSUME NEW j \in Parts(r)', owners'[home'[r]][accepted'[r][j]] = r
        PROVE  j \in DOMAIN closing'[r] /\ closing'[r][j].owner = r
    BY <1>1, <1>8, <1>10, <1>12, <2>1 DEF Closed
  <2>2. ASSUME NEW j \in DOMAIN closing'[r], NEW q \in Requests \ {r}, closing'[r][j].owner = q
        PROVE  accepted'[r][j] \in disowned'[q] \/ ~Among(accepted'[r][j], accepted'[q])
    BY <1>1, <1>8, <1>10, <2>2 DEF Foreign
  <2> QED BY <2>1, <2>2 DEF Closed, Foreign, Among
<1>15. ASSUME stalls = 0 PROVE Owned(r)'
  <2>1. ASSUME NEW j \in DOMAIN accepted'[r] \ Parts(r)', accepted'[r][j] \notin disowned'[r]
        PROVE  /\ owners'[home'[r]][accepted'[r][j]] = r
               /\ store'[accepted'[r][j]] = Record("held", r, TRUE)
               /\ \A m \in DOMAIN accepted'[r] : accepted'[r][m] = accepted'[r][j] => m = j
    <3>1. /\ owners[home[r]][accepted[r][j]] = r
          /\ store[accepted[r][j]] = Record("held", r, TRUE)
          /\ \A m \in DOMAIN accepted[r] : accepted[r][m] = accepted[r][j] => m = j
          /\ accepted[r][j] \in Keys
      BY <1>1, <1>8, <1>12, <1>15, <2>1 DEF Owned
    <3>2. accepted[r][j] # k
      BY <1>3, <1>8, <1>12, <2>1, <3>1
    <3> QED BY <1>8, <1>9, <3>1, <3>2
  <2> QED BY <2>1 DEF Owned, Record
<1>16. step[r] = "complete" => k \in delivered
  <2>1. step[r] = "complete" => k = Head(accepted[r]) /\ accepted[r] # <<>>
    BY <1>1, <1>3, <1>12, HeadAndTail DEF Parts, Shape
  <2> QED BY <1>1, <2>1 DEF Covered
<1>17. \A j \in Keys : store'[j].kind = "done" => store[j].kind = "done" \/ j \in delivered'
  BY <1>6, <1>8, <1>9, <1>16
<1>18. ASSUME NEW q \in Requests \ {r}, NEW j \in Keys, Kept(q, j), Among(j, accepted[q])
       PROVE  owners'[home[q]][j] = owners[home[q]][j] /\ store'[j] = store[j]
  <2>1. CASE j = k
    <3>1. o = q
      BY <1>4, <1>18, <2>1, HeldRecord DEF Kept
    <3>2. FALSE
      BY <1>1, <1>3, <1>18, <2>1, <3>1 DEF Foreign, Kept
    <3> QED BY <3>2
  <2>2. CASE j # k
    BY <1>8, <1>9, <2>2
  <2> QED BY <2>1, <2>2
<1>19. \A q \in Requests \ {r} : \A j \in DOMAIN closing[q] : closing'[q][j].owner = r =>
           accepted[q][j] \in disowned'[r] \/ ~Among(accepted[q][j], accepted'[r])
  BY <1>8, <1>10, OfOthers
<1>20. \A p \in Procs, j \in Keys :
           /\ owners'[p][j] \in {owners[p][j], NoOne, r}
           /\ owners'[p][j] = r => home'[r] = p /\ Among(j, accepted'[r])
  BY <1>1, <1>8
<1>21. \A q \in Requests \ {r} :
           /\ home'[q] = home[q] /\ step'[q] = step[q] /\ pos'[q] = pos[q]
           /\ accepted'[q] = accepted[q] /\ troubled'[q] = troubled[q]
           /\ response'[q] = response[q]
           /\ disowned[q] \subseteq disowned'[q]
           /\ DOMAIN closing'[q] = DOMAIN closing[q]
           /\ \A j \in DOMAIN closing[q] :
                 \/ closing'[q][j].owner = closing[q][j].owner
                 \/ closing[q][j].owner = r /\ closing'[q][j].owner = NoOne
  BY <1>8, <1>10
<1>22. delivered \subseteq delivered' /\ stalls' = stalls
  BY <1>8
<1> QED BY <1>11, <1>13, <1>14, <1>15, <1>17, <1>18, <1>19, <1>20, <1>21, <1>22, HandlerKeeps

\* A call is over: the entry of its event is deleted, or is not the one it read.
Ended(r, i, s, rest) ==
    /\ step' = [step EXCEPT ![r] = s]
    /\ closing' = [closing EXCEPT ![r] = rest]
    /\ \/ Delete(r, i)
       \/ /\ owners[home[r]][accepted[r][i]] # closing[r][i].owner
          /\ UNCHANGED <<owners, disowned>>
    /\ UNCHANGED <<store, home, pos, accepted, troubled, response, delivered, stalls>>
    /\ faults' \in 0..MaxFaults

\* The handler has nothing to do with the claim of that event any more.
LEMMA EndStep ==
    ASSUME IInv, NEW r \in Requests, step[r] # "idle", NEW i \in DOMAIN closing[r],
           NEW s \in Steps, s = step[r] \/ (step[r] = "complete" /\ s = "release"),
           NEW rest, DOMAIN rest = DOMAIN closing[r] \ {i}, rest \in [DOMAIN rest -> Calls],
           \A j \in DOMAIN rest : rest[j] = closing[r][j],
           Ended(r, i, s, rest)
    PROVE  IInv'
<1>0. /\ step' = [step EXCEPT ![r] = s]
      /\ closing' = [closing EXCEPT ![r] = rest]
      /\ \/ Delete(r, i)
         \/ /\ owners[home[r]][accepted[r][i]] # closing[r][i].owner
            /\ UNCHANGED <<owners, disowned>>
      /\ store' = store /\ home' = home /\ pos' = pos /\ accepted' = accepted
      /\ troubled' = troubled /\ response' = response /\ delivered' = delivered
      /\ stalls' = stalls /\ faults' \in 0..MaxFaults
  BY DEF Ended
<1>1. /\ TypeOK /\ Shape(r) /\ Covered(r) /\ Closed(r) /\ Foreign(r) /\ home[r] \in Procs
      /\ accepted[r] \in Seq(Keys) /\ NoOne \notin Requests
      /\ \A j \in DOMAIN accepted[r] : accepted[r][j] \in Keys
      /\ \A q \in Procs, j \in Keys : owners[q][j] = r => home[r] = q /\ Among(j, accepted[r])
      /\ stalls = 0 => Owned(r)
  BY Handling
<1>2. PICK p \in Procs, k \in Keys : p = home[r] /\ k = accepted[r][i]
  BY <1>1, Typed
<1>3. /\ step' \in [Requests -> Steps] /\ step'[r] = s
      /\ \A q \in Requests \ {r} : step'[q] = step[q]
  BY <1>0, <1>1 DEF TypeOK
<1>4. /\ DOMAIN closing' = Requests /\ closing'[r] = rest
      /\ \A q \in Requests \ {r} : closing'[q] = closing[q]
  BY <1>0, <1>1 DEF TypeOK
<1>5. /\ owners' \in [Procs -> [Keys -> Requests \cup {NoOne}]]
      /\ \/ owners'[p][k] = NoOne
         \/ owners'[p][k] = owners[p][k] /\ owners[p][k] # closing[r][i].owner
      /\ \A q \in Procs, j \in Keys : q # p \/ j # k => owners'[q][j] = owners[q][j]
      /\ disowned' \in [Requests -> SUBSET Keys] /\ disowned'[r] = disowned[r]
      /\ \A q \in Requests : disowned[q] \subseteq disowned'[q]
      /\ \A q \in Requests \ {r} :
            owners[p][k] = q => k \in disowned'[q] \/ owners'[p][k] = owners[p][k]
  <2>1. CASE Delete(r, i)
    <3>1. owners' = [owners EXCEPT ![p][k] = NoOne]
      BY <1>2, <2>1 DEF Delete
    <3>2. PICK K \in SUBSET Keys : K = {k}
      OBVIOUS
    <3>3. Disown(r, K)
      BY <1>2, <2>1, <3>2 DEF Delete
    <3>4. /\ disowned' \in [Requests -> SUBSET Keys]
          /\ disowned'[r] = disowned[r]
          /\ \A q \in Requests : disowned[q] \subseteq disowned'[q]
          /\ \A q \in Requests \ {r} : owners[p][k] = q => k \in disowned'[q]
      BY <1>1, <1>2, <3>2, <3>3, Disowns
    <3> QED BY <1>1, <3>1, <3>4 DEF TypeOK
  <2>2. CASE /\ owners[home[r]][accepted[r][i]] # closing[r][i].owner
             /\ UNCHANGED <<owners, disowned>>
    BY <1>1, <1>2, <2>2 DEF TypeOK
  <2> QED BY <1>0, <2>1, <2>2
<1>6. TypeOK'
  <2>1. \A q \in Requests : /\ DOMAIN closing'[q] \subseteq DOMAIN accepted'[q]
                            /\ closing'[q] \in [DOMAIN closing'[q] -> Calls]
    BY <1>0, <1>1, <1>4 DEF TypeOK
  <2> QED BY <1>0, <1>1, <1>3, <1>4, <1>5, <2>1 DEF TypeOK, Calls
<1>7. Parts(r)' = Parts(r) /\ i \in Parts(r) /\ i \in DOMAIN accepted[r]
  BY <1>0, <1>1, <1>3, Typed DEF Parts, Shape
<1>8. Shape(r)' /\ Covered(r)'
  BY <1>0, <1>1, <1>3, <1>4, <1>7 DEF Shape, Covered, Among
<1>9. Closed(r)'
  <2>0. Parts(r) \subseteq DOMAIN accepted[r]
    <3>1. step[r] \in {"complete", "release"} => 1 \in DOMAIN accepted[r]
      BY <1>1, HeadAndTail DEF Shape
    <3> QED BY <3>1 DEF Parts
  <2>1. ASSUME NEW j \in Parts(r), owners'[p][accepted[r][j]] = r
        PROVE  j \in DOMAIN rest /\ rest[j].owner = r
    <3>1. accepted[r][j] \in Keys
      BY <1>1, <2>0
    <3>2. owners[p][accepted[r][j]] = r
      BY <1>1, <1>5, <2>1, <3>1
    <3>3. j \in DOMAIN closing[r] /\ closing[r][j].owner = r
      BY <1>1, <1>2, <3>2 DEF Closed
    <3>4. j # i
      BY <1>1, <1>2, <1>5, <2>1, <3>2, <3>3
    <3> QED BY <3>3, <3>4
  <2> QED BY <1>0, <1>2, <1>4, <1>7, <2>1 DEF Closed
<1>10. Foreign(r)'
  <2>1. ASSUME NEW j \in DOMAIN closing'[r], NEW q \in Requests \ {r}, closing'[r][j].owner = q
        PROVE  accepted'[r][j] \in disowned'[q] \/ ~Among(accepted'[r][j], accepted'[q])
    <3>1. j \in DOMAIN closing[r] /\ closing[r][j].owner = q
      BY <1>4, <2>1
    <3> QED BY <1>0, <1>1, <1>5, <3>1 DEF Foreign
  <2> QED BY <2>1 DEF Foreign, Among
<1>11. ASSUME stalls = 0 PROVE Owned(r)'
  <2>1. ASSUME NEW j \in DOMAIN accepted'[r] \ Parts(r)', accepted'[r][j] \notin disowned'[r]
        PROVE  /\ owners'[home'[r]][accepted'[r][j]] = r
               /\ store'[accepted'[r][j]] = Record("held", r, TRUE)
               /\ \A m \in DOMAIN accepted'[r] : accepted'[r][m] = accepted'[r][j] => m = j
    <3>1. /\ owners[home[r]][accepted[r][j]] = r
          /\ store[accepted[r][j]] = Record("held", r, TRUE)
          /\ \A m \in DOMAIN accepted[r] : accepted[r][m] = accepted[r][j] => m = j
          /\ accepted[r][j] \in Keys
      BY <1>0, <1>1, <1>5, <1>7, <1>11, <2>1 DEF Owned
    <3>2. accepted[r][j] # k
      BY <1>0, <1>2, <1>7, <2>1, <3>1
    <3> QED BY <1>0, <1>2, <1>5, <3>1, <3>2
  <2> QED BY <2>1 DEF Owned, Record
<1>12. ASSUME NEW q \in Requests \ {r}, NEW j \in Keys, Kept(q, j), home[q] \in Procs
       PROVE  \/ j \in disowned'[q]
              \/ owners'[home[q]][j] = owners[home[q]][j] /\ store'[j] = store[j]
  BY <1>0, <1>5, <1>12 DEF Kept
<1>13. \A q \in Requests \ {r} : \A j \in DOMAIN closing[q] : closing'[q][j].owner = r =>
           accepted[q][j] \in disowned'[r] \/ ~Among(accepted[q][j], accepted'[r])
  BY <1>0, <1>4, <1>5, OfOthers
<1>14. \A q \in Procs, j \in Keys :
           /\ owners'[q][j] \in {owners[q][j], NoOne, r}
           /\ owners'[q][j] = r => home'[r] = q /\ Among(j, accepted'[r])
  <2>1. ASSUME NEW q \in Procs, NEW j \in Keys
        PROVE  owners'[q][j] = owners[q][j] \/ owners'[q][j] = NoOne
    <3>1. CASE q = p /\ j = k
      BY <1>5, <3>1
    <3>2. CASE q # p \/ j # k
      BY <1>5, <3>2
    <3> QED BY <3>1, <3>2
  <2> QED BY <1>0, <1>1, <2>1
<1>15. \A q \in Requests \ {r} :
           /\ home'[q] = home[q] /\ step'[q] = step[q] /\ pos'[q] = pos[q]
           /\ accepted'[q] = accepted[q] /\ troubled'[q] = troubled[q]
           /\ response'[q] = response[q]
           /\ disowned[q] \subseteq disowned'[q]
           /\ DOMAIN closing'[q] = DOMAIN closing[q]
           /\ \A j \in DOMAIN closing[q] :
                 \/ closing'[q][j].owner = closing[q][j].owner
                 \/ closing[q][j].owner = r /\ closing'[q][j].owner = NoOne
  BY <1>0, <1>3, <1>4, <1>5
<1>16. delivered \subseteq delivered' /\ stalls' = stalls
  BY <1>0
<1>17. \A j \in Keys : store'[j].kind = "done" => store[j].kind = "done" \/ j \in delivered'
  BY <1>0
<1> QED BY <1>0, <1>6, <1>8, <1>9, <1>10, <1>11, <1>12, <1>13, <1>14, <1>15, <1>16, <1>17,
           HandlerKeeps

\* The first event of the list is dealt with: its entry is the handler's no more.
LEMMA DoneStep ==
    ASSUME IInv, NEW r \in Requests, CompleteEvent(r) \/ ReleaseEvent(r)
    PROVE  IInv'
<1>1. /\ TypeOK /\ Shape(r) /\ Covered(r) /\ Closed(r) /\ home[r] \in Procs
      /\ accepted[r] \in Seq(Keys) /\ pos[r] \in Nat /\ NoOne \notin Requests
      /\ \A i \in DOMAIN accepted[r] : accepted[r][i] \in Keys
      /\ \A p \in Procs, k \in Keys : owners[p][k] = r => home[r] = p /\ Among(k, accepted[r])
      /\ stalls = 0 => Owned(r)
      /\ step[r] \in {"complete", "release"} /\ DOMAIN closing[r] = {}
  <2>1. step[r] \in {"complete", "release"} /\ DOMAIN closing[r] = {}
    BY DEF CompleteEvent, ReleaseEvent
  <2> QED BY <2>1, Handling
<1>2. accepted[r] # <<>> /\ pos[r] > Len(Batch[r]) /\ Parts(r) = {1}
  BY <1>1 DEF Shape, Parts
<1>3. PICK p \in Procs, k \in Keys : p = home[r] /\ k = Head(accepted[r])
  BY <1>1, <1>2, HeadAndTail
<1>4. PICK events \in Seq(Keys) : events = Tail(accepted[r])
  BY <1>1, <1>2, HeadAndTail
<1>5. /\ k = accepted[r][1] /\ 1 \in DOMAIN accepted[r]
      /\ DOMAIN accepted[r] = 1..Len(accepted[r]) /\ Len(accepted[r]) \in Nat \ {0}
      /\ DOMAIN events = 1..(Len(accepted[r]) - 1)
      /\ \A m \in DOMAIN events : events[m] = accepted[r][m + 1]
  BY <1>1, <1>2, <1>3, <1>4, HeadAndTail
<1>6. \A j : Among(j, accepted[r]) /\ j # k => Among(j, events)
  BY <1>1, <1>2, <1>3, <1>4, TailAmong
<1>7. \A j : Among(j, events) => Among(j, accepted[r])
  <2>1. \A m \in DOMAIN events : m + 1 \in DOMAIN accepted[r]
    BY <1>5
  <2> QED BY <1>5, <2>1 DEF Among
<1>8. owners[p][k] # r
  BY <1>1, <1>2, <1>3, <1>5 DEF Closed
<1>9. /\ Become(r, "deliver", pos[r], events) /\ (UNCHANGED troubled \/ Trouble(r))
      /\ step[r] = "release" => Trouble(r)
      /\ store' = store /\ owners' = owners /\ closing' = closing /\ disowned' = disowned
      /\ response' = response /\ delivered' = delivered /\ faults' = faults /\ stalls' = stalls
  BY <1>4 DEF CompleteEvent, ReleaseEvent, calls
<1>10. /\ step' \in [Requests -> Steps] /\ pos' \in [Requests -> Nat]
       /\ accepted' \in [Requests -> Seq(Keys)] /\ home' = home
       /\ step'[r] = "deliver" /\ pos'[r] = pos[r] /\ accepted'[r] = events
       /\ \A q \in Requests \ {r} :
             step'[q] = step[q] /\ pos'[q] = pos[q] /\ accepted'[q] = accepted[q]
  BY <1>1, <1>9, Becomes DEF Steps
<1>11. /\ troubled' \in [Requests -> BOOLEAN]
       /\ \A q \in Requests \ {r} : troubled'[q] = troubled[q]
       /\ troubled[r] => troubled'[r]
       /\ step[r] = "release" => troubled'[r]
  BY <1>1, <1>9, Troubled
<1>12. TypeOK'
  <2>1. \A q \in Requests : /\ DOMAIN closing'[q] \subseteq DOMAIN accepted'[q]
                            /\ closing'[q] \in [DOMAIN closing'[q] -> Calls]
    BY <1>1, <1>9, <1>10 DEF TypeOK
  <2> QED BY <1>1, <1>9, <1>10, <1>11, <2>1 DEF TypeOK, Calls
<1>13. Parts(r)' = {} /\ Shape(r)'
  BY <1>1, <1>2, <1>9, <1>10 DEF Shape, Parts
<1>14. Covered(r)'
  <2>1. ASSUME ~troubled'[r], NEW j \in 1..Len(Batch[r]), j < pos[r]
        PROVE  Batch[r][j] \in delivered \/ Among(Batch[r][j], events)
    <3>1. step[r] = "complete" /\ ~troubled[r] /\ k \in delivered
      BY <1>1, <1>3, <1>11, <2>1 DEF Covered
    <3>2. Batch[r][j] \in delivered \/ Among(Batch[r][j], accepted[r])
      BY <1>1, <2>1, <3>1 DEF Covered
    <3> QED BY <1>6, <3>1, <3>2
  <2> QED BY <1>1, <1>9, <1>10, <2>1 DEF Covered, Among
<1>15. Closed(r)' /\ Foreign(r)'
  BY <1>1, <1>9, <1>13 DEF Closed, Foreign
<1>16. ASSUME stalls = 0 PROVE Owned(r)'
  <2>1. ASSUME NEW j \in DOMAIN events, events[j] \notin disowned[r]
        PROVE  /\ owners[p][events[j]] = r
               /\ store[events[j]] = Record("held", r, TRUE)
               /\ \A m \in DOMAIN events : events[m] = events[j] => m = j
    <3>1. /\ j + 1 \in DOMAIN accepted[r] \ Parts(r) /\ events[j] = accepted[r][j + 1]
          /\ j \in Nat
      BY <1>2, <1>5
    <3>2. /\ owners[p][events[j]] = r
          /\ store[events[j]] = Record("held", r, TRUE)
          /\ \A m \in DOMAIN accepted[r] : accepted[r][m] = events[j] => m = j + 1
      BY <1>1, <1>3, <1>16, <2>1, <3>1 DEF Owned
    <3>3. ASSUME NEW m \in DOMAIN events, events[m] = events[j] PROVE m = j
      <4>1. m \in Nat /\ m + 1 \in DOMAIN accepted[r] /\ accepted[r][m + 1] = events[j]
        BY <1>5, <3>3
      <4> QED BY <3>1, <3>2, <4>1
    <3> QED BY <3>2, <3>3
  <2>2. ASSUME NEW j \in DOMAIN accepted'[r] \ Parts(r)', accepted'[r][j] \notin disowned'[r]
        PROVE  /\ owners'[home'[r]][accepted'[r][j]] = r
               /\ store'[accepted'[r][j]] = Record("held", r, TRUE)
               /\ \A m \in DOMAIN accepted'[r] : accepted'[r][m] = accepted'[r][j] => m = j
    BY <1>3, <1>9, <1>10, <2>1, <2>2
  <2> QED BY <2>2 DEF Owned, Record
<1>17. \A q \in Requests \ {r} : \A j \in DOMAIN closing[q] : closing'[q][j].owner = r =>
           accepted[q][j] \in disowned'[r] \/ ~Among(accepted[q][j], accepted'[r])
  BY <1>7, <1>9, <1>10, OfOthers
<1>18. \A q \in Procs, j \in Keys :
           /\ owners'[q][j] \in {owners[q][j], NoOne, r}
           /\ owners'[q][j] = r => home'[r] = q /\ Among(j, accepted'[r])
  BY <1>1, <1>3, <1>6, <1>8, <1>9, <1>10
<1>19. \A q \in Requests \ {r} :
           /\ home'[q] = home[q] /\ step'[q] = step[q] /\ pos'[q] = pos[q]
           /\ accepted'[q] = accepted[q] /\ troubled'[q] = troubled[q]
           /\ response'[q] = response[q]
           /\ disowned[q] \subseteq disowned'[q]
           /\ DOMAIN closing'[q] = DOMAIN closing[q]
           /\ \A j \in DOMAIN closing[q] :
                 \/ closing'[q][j].owner = closing[q][j].owner
                 \/ closing[q][j].owner = r /\ closing'[q][j].owner = NoOne
  BY <1>9, <1>10, <1>11
<1>20. \A j \in Keys : store'[j] = store[j]
  BY <1>9
<1>21. delivered \subseteq delivered' /\ stalls' = stalls
  BY <1>9
<1> QED BY <1>9, <1>12, <1>13, <1>14, <1>15, <1>16, <1>17, <1>18, <1>19, <1>20, <1>21,
           HandlerKeeps

\* A handler begins, or ends when it has no claim left; it answers 200 when it
\* knows of no trouble and has passed all its events.
LEMMA RestartStep ==
    ASSUME IInv, NEW r \in Requests, \A p \in Procs, k \in Keys : owners[p][k] # r,
           NEW s \in {"idle", "claim"}, NEW p \in Procs \cup {NoOne}, Restart(r, s, p),
           s = "claim" => p \in Procs,
           NEW status \in Responses, response' = [response EXCEPT ![r] = status],
           status = "ok" =>
               s = "idle" /\ step[r] = "deliver" /\ ~troubled[r] /\ accepted[r] = <<>>,
           troubled' = [troubled EXCEPT ![r] = FALSE] \/ UNCHANGED troubled,
           faults' \in 0..MaxFaults,
           UNCHANGED <<store, owners, delivered, stalls>>
    PROVE  IInv'
<1>1. /\ TypeOK /\ Shape(r) /\ Covered(r) /\ NoOne \notin Requests /\ s \in Steps
      /\ Len(Batch[r]) \in Nat
  BY RouterAssumption, Batches DEF IInv, RouterAssumption, Steps
<1>2. /\ step' \in [Requests -> Steps] /\ pos' \in [Requests -> Nat]
      /\ accepted' \in [Requests -> Seq(Keys)] /\ home' \in [Requests -> Procs \cup {NoOne}]
      /\ step'[r] = s /\ pos'[r] = 1 /\ accepted'[r] = <<>> /\ home'[r] = p
      /\ DOMAIN closing' = Requests /\ closing'[r] = <<>>
      /\ disowned' \in [Requests -> SUBSET Keys]
      /\ \A q \in Requests \ {r} :
            /\ step'[q] = step[q] /\ pos'[q] = pos[q] /\ accepted'[q] = accepted[q]
            /\ home'[q] = home[q] /\ closing'[q] = closing[q] /\ disowned'[q] = disowned[q]
  BY <1>1, Restarts
<1>3. /\ troubled' \in [Requests -> BOOLEAN] /\ response' \in [Requests -> Responses]
      /\ response'[r] = status
      /\ \A q \in Requests \ {r} : response'[q] = response[q]
      /\ \A q \in Requests \ {r} : troubled'[q] = troubled[q]
  <2>1. /\ troubled' \in [Requests -> BOOLEAN]
        /\ \A q \in Requests \ {r} : troubled'[q] = troubled[q]
    <3>1. CASE UNCHANGED troubled
      BY <1>1, <3>1 DEF TypeOK
    <3>2. CASE troubled' = [troubled EXCEPT ![r] = FALSE]
      BY <1>1, <3>2 DEF TypeOK
    <3> QED BY <3>1, <3>2
  <2> QED BY <1>1, <2>1 DEF TypeOK
<1>4. TypeOK'
  <2>1. ASSUME NEW q \in Requests
        PROVE  /\ DOMAIN closing'[q] \subseteq DOMAIN accepted'[q]
               /\ closing'[q] \in [DOMAIN closing'[q] -> Calls]
    <3>1. CASE q = r
      BY <1>2, <3>1
    <3>2. CASE q # r
      BY <1>1, <1>2, <3>2 DEF TypeOK
    <3> QED BY <3>1, <3>2
  <2> QED BY <1>1, <1>2, <1>3, <2>1 DEF TypeOK, Calls
<1>5. Shape(r)' /\ DOMAIN closing'[r] = {} /\ DOMAIN accepted'[r] = {} /\ Parts(r)' = {}
  BY <1>1, <1>2 DEF Shape, Parts
<1>6. Covered(r)'
  <2>1. ASSUME status = "ok", NEW i \in 1..Len(Batch[r]) PROVE Batch[r][i] \in delivered
    <3>1. pos[r] > Len(Batch[r]) /\ pos[r] \in Nat
      BY <1>1, <2>1 DEF Shape, TypeOK
    <3>2. i < pos[r] /\ ~Among(Batch[r][i], accepted[r])
      BY <1>1, <2>1, <3>1 DEF Among
    <3> QED BY <1>1, <2>1, <3>2 DEF Covered
  <2>2. \A i \in 1..Len(Batch[r]) : ~(i < 1)
    BY <1>1
  <2> QED BY <1>2, <1>3, <2>1, <2>2 DEF Covered
<1>7. Owned(r)' /\ Closed(r)' /\ Foreign(r)'
  BY <1>5 DEF Owned, Closed, Foreign
<1>8. \A q \in Requests \ {r} : \A j \in DOMAIN closing[q] : closing'[q][j].owner = r =>
           accepted[q][j] \in disowned'[r] \/ ~Among(accepted[q][j], accepted'[r])
  BY <1>5 DEF Among
<1>9. \A q \in Procs, j \in Keys : owners'[q][j] = owners[q][j] /\ owners'[q][j] # r
  OBVIOUS
<1>10. \A j \in Keys : store'[j] = store[j]
  OBVIOUS
<1>11. \A q \in Requests \ {r} :
           /\ home'[q] = home[q] /\ step'[q] = step[q] /\ pos'[q] = pos[q]
           /\ accepted'[q] = accepted[q] /\ troubled'[q] = troubled[q]
           /\ response'[q] = response[q]
           /\ disowned[q] \subseteq disowned'[q]
           /\ DOMAIN closing'[q] = DOMAIN closing[q]
           /\ \A j \in DOMAIN closing[q] :
                 \/ closing'[q][j].owner = closing[q][j].owner
                 \/ closing[q][j].owner = r /\ closing'[q][j].owner = NoOne
  BY <1>2, <1>3
<1>12. delivered \subseteq delivered' /\ stalls' = stalls
  OBVIOUS
<1> QED BY <1>4, <1>5, <1>6, <1>7, <1>8, <1>9, <1>10, <1>11, <1>12, HandlerKeeps

\* A handler with no calls under way has no entry, when it is to begin or end.
LEMMA NoEntry ==
    ASSUME IInv, NEW r \in Requests,
           accepted[r] = <<>> \/ (step[r] = "unwind" /\ DOMAIN closing[r] = {})
    PROVE  \A p \in Procs, k \in Keys : owners[p][k] # r
<1> SUFFICES ASSUME NEW p \in Procs, NEW k \in Keys, owners[p][k] = r PROVE FALSE
  OBVIOUS
<1>1. home[r] = p /\ r # NoOne
  BY RouterAssumption DEF IInv, NoClaimStranded, RouterAssumption
<1>2. PICK i \in DOMAIN accepted[r] : accepted[r][i] = k
  BY <1>1 DEF IInv, NoClaimStranded
<1>3. step[r] = "unwind" /\ DOMAIN closing[r] = {}
  BY <1>2
<1>4. Closed(r) /\ i \in Parts(r)
  BY <1>2, <1>3 DEF IInv, Parts
<1> QED BY <1>1, <1>2, <1>3, <1>4 DEF Closed

---------------------------------------------------------------------------
(* The leases, and crashes                                                 *)

\* Only the lease of one record changes: the claim of an event to be delivered
\* does not lapse unless a process stalls.
LEMMA LeaseStep ==
    ASSUME IInv, NEW k \in Keys, NEW b \in BOOLEAN, store' = [store EXCEPT ![k].live = b],
           store[k].kind = "held",
           UNCHANGED <<owners, handlers, delivered, faults>>, stalls' \in 0..MaxStalls,
           stalls' = 0 => stalls = 0 /\ (b = TRUE \/ ~Attended(k))
    PROVE  IInv'
<1>1. TypeOK /\ NoOne \notin Requests
  BY RouterAssumption DEF IInv, RouterAssumption
<1>2. /\ owners' = owners /\ home' = home /\ step' = step /\ pos' = pos
      /\ accepted' = accepted /\ troubled' = troubled /\ response' = response
      /\ closing' = closing /\ disowned' = disowned
      /\ delivered' = delivered /\ faults' = faults
  BY DEF handlers, calls
<1>3. /\ store[k] \in [kind : {"held", "done"}, owner : Requests, live : BOOLEAN]
      /\ \A j \in Keys \ {k} : store'[j] = store[j]
      /\ store'[k] = [store[k] EXCEPT !.live = b]
  BY <1>1 DEF TypeOK, Records, Free, Record
<1>4. /\ store'[k] \in [kind : {"held", "done"}, owner : Requests, live : BOOLEAN]
      /\ store'[k].kind = store[k].kind /\ store'[k].owner = store[k].owner
      /\ store'[k].live = b
  BY <1>3
<1>5. store' \in [Keys -> Records]
  <2>1. store'[k] \in Records
    BY <1>4 DEF Records
  <2>2. store \in [Keys -> Records] /\ DOMAIN store' = Keys
    BY <1>1 DEF TypeOK
  <2>3. store' = [j \in Keys |-> store'[j]]
    BY <1>1 DEF TypeOK
  <2> QED BY <1>3, <2>1, <2>2, <2>3
<1>6. TypeOK'
  BY <1>1, <1>2, <1>5 DEF TypeOK
<1>7. DoneIsDelivered' /\ NoClaimStranded'
  <2>1. \A j \in Keys : store'[j].kind = store[j].kind
    BY <1>3, <1>4
  <2> QED BY <1>2, <2>1 DEF IInv, DoneIsDelivered, NoClaimStranded
<1>8. \A r \in Requests : Shape(r)' /\ Covered(r)' /\ Closed(r)' /\ Foreign(r)'
  BY <1>2 DEF IInv, Shape, Covered, Closed, Foreign, Parts
<1>9. ASSUME stalls' = 0, NEW r \in Requests PROVE Owned(r)'
  <2>1. /\ Owned(r) /\ Shape(r) /\ Parts(r)' = Parts(r)
        /\ \A i \in DOMAIN accepted[r] : accepted[r][i] \in Keys
    BY <1>1, <1>2, <1>9, Typed DEF IInv, Parts
  <2>2. ASSUME NEW i \in DOMAIN accepted'[r] \ Parts(r)', accepted'[r][i] \notin disowned'[r]
        PROVE  /\ owners'[home'[r]][accepted'[r][i]] = r
               /\ store'[accepted'[r][i]] = Record("held", r, TRUE)
               /\ \A j \in DOMAIN accepted'[r] : accepted'[r][j] = accepted'[r][i] => j = i
    <3>1. /\ owners[home[r]][accepted[r][i]] = r
          /\ store[accepted[r][i]] = Record("held", r, TRUE)
          /\ \A j \in DOMAIN accepted[r] : accepted[r][j] = accepted[r][i] => j = i
          /\ accepted[r][i] \in Keys /\ home[r] \in Procs
      <4>1. i \in DOMAIN accepted[r] \ Parts(r) /\ accepted[r][i] \notin disowned[r]
        BY <1>2, <2>1, <2>2
      <4>2. accepted[r] # <<>>
        BY <4>1
      <4> QED BY <2>1, <4>1, <4>2 DEF Owned, Shape
    <3>2. CASE accepted[r][i] = k
      <4>0. store[k].kind = "held" /\ store[k].owner = r /\ store[k].live = TRUE
        BY <3>1, <3>2 DEF Record
      <4>1. Attended(k)
        <5>1. PICK p \in Procs : p = home[r]
          BY <3>1
        <5>2. StillOwns(p, k)
          BY <1>1, <3>1, <3>2, <4>0, <5>1 DEF StillOwns, Holds
        <5> QED BY <5>2 DEF Attended
      <4>2. b = TRUE
        BY <1>9, <4>1
      <4>3. store'[k] = store[k]
        <5>1. [store[k] EXCEPT !.live = TRUE] = store[k]
          BY <1>3, <4>0
        <5> QED BY <1>3, <4>2, <5>1
      <4> QED BY <1>2, <3>1, <3>2, <4>3
    <3>3. CASE accepted[r][i] # k
      BY <1>2, <1>3, <3>1, <3>3
    <3> QED BY <3>2, <3>3
  <2> QED BY <2>2 DEF Owned, Record
<1> QED BY <1>6, <1>7, <1>8, <1>9 DEF IInv

\* A crash takes the entries and the handlers of one process together; the
\* records stay, for nobody.
LEMMA CrashStep ==
    ASSUME IInv, NEW p \in Procs, Crash(p)
    PROVE  IInv'
<1>1. /\ TypeOK /\ NoOne \notin Requests /\ NoOne \notin Procs
      /\ \A r \in Requests : Len(Batch[r]) \in Nat
  BY RouterAssumption, Batches DEF IInv, RouterAssumption
<1>2. /\ \A k \in Keys : owners'[p][k] = NoOne
      /\ \A q \in Procs \ {p}, k \in Keys : owners'[q][k] = owners[q][k]
      /\ owners' \in [Procs -> [Keys -> Requests \cup {NoOne}]]
  BY <1>1 DEF Crash, TypeOK
<1>3. /\ store' = store /\ response' = response /\ delivered' = delivered /\ stalls' = stalls
      /\ faults' \in 0..MaxFaults
  BY <1>1, FaultsTyped DEF Crash
<1>4. ASSUME NEW r \in Requests, home[r] = p
      PROVE  /\ home'[r] = NoOne /\ step'[r] = "idle" /\ pos'[r] = 1
             /\ accepted'[r] = <<>> /\ closing'[r] = <<>> /\ disowned'[r] = {}
             /\ troubled'[r] = FALSE
  BY <1>4 DEF Crash
<1>5. ASSUME NEW r \in Requests, home[r] # p
      PROVE  /\ home'[r] = home[r] /\ step'[r] = step[r] /\ pos'[r] = pos[r]
             /\ accepted'[r] = accepted[r] /\ closing'[r] = closing[r]
             /\ disowned'[r] = disowned[r] /\ troubled'[r] = troubled[r]
  BY <1>1, <1>5 DEF Crash, TypeOK
<1>6. TypeOK'
  <2>1. home' \in [Requests -> Procs \cup {NoOne}]
    BY <1>1 DEF Crash, TypeOK
  <2>2. step' \in [Requests -> Steps]
    BY <1>1 DEF Crash, TypeOK, Steps
  <2>3. pos' \in [Requests -> Nat]
    BY <1>1 DEF Crash, TypeOK
  <2>4. accepted' \in [Requests -> Seq(Keys)]
    BY <1>1, EmptySeq DEF Crash, TypeOK
  <2>5. troubled' \in [Requests -> BOOLEAN]
    BY <1>1 DEF Crash, TypeOK
  <2>6. disowned' \in [Requests -> SUBSET Keys]
    BY <1>1 DEF Crash, TypeOK
  <2>7. DOMAIN closing' = Requests
    BY DEF Crash
  <2>8. ASSUME NEW r \in Requests
        PROVE  /\ DOMAIN closing'[r] \subseteq DOMAIN accepted'[r]
               /\ closing'[r] \in [DOMAIN closing'[r] -> Calls]
    <3>1. CASE home[r] = p
      <4>1. closing'[r] = <<>>
        BY <1>4, <3>1
      <4> QED BY <4>1
    <3>2. CASE home[r] # p
      BY <1>1, <1>5, <3>2 DEF TypeOK
    <3> QED BY <3>1, <3>2
  <2> QED BY <1>1, <1>2, <1>3, <2>1, <2>2, <2>3, <2>4, <2>5, <2>6, <2>7, <2>8 DEF TypeOK, Calls
<1>7. DoneIsDelivered'
  BY <1>3 DEF IInv, DoneIsDelivered
<1>8. NoClaimStranded'
  <2>1. ASSUME NEW q \in Procs, NEW k \in Keys, owners'[q][k] # NoOne
        PROVE  home'[owners'[q][k]] = q /\ Among(k, accepted'[owners'[q][k]])
    <3>1. q # p /\ owners'[q][k] = owners[q][k] /\ owners[q][k] \in Requests
      BY <1>1, <1>2, <2>1 DEF TypeOK
    <3>2. home[owners[q][k]] = q /\ Among(k, accepted[owners[q][k]])
      BY <2>1, <3>1 DEF IInv, NoClaimStranded, Among
    <3> QED BY <1>5, <3>1, <3>2
  <2> QED BY <2>1 DEF NoClaimStranded, Among
<1>9. ASSUME NEW r \in Requests, home[r] = p
      PROVE  Shape(r)' /\ Covered(r)' /\ Closed(r)' /\ Foreign(r)' /\ Owned(r)'
  <2>1. /\ step'[r] = "idle" /\ pos'[r] = 1 /\ accepted'[r] = <<>> /\ closing'[r] = <<>>
        /\ response'[r] = response[r] /\ delivered' = delivered
    BY <1>3, <1>4, <1>9
  <2>2. DOMAIN closing'[r] = {} /\ DOMAIN accepted'[r] = {} /\ Parts(r)' = {}
    BY <2>1 DEF Parts
  <2>3. Shape(r)' /\ Covered(r)'
    BY <1>1, <2>1, <2>2 DEF IInv, Shape, Covered
  <2>4. Closed(r)' /\ Foreign(r)' /\ Owned(r)'
    BY <2>2 DEF Closed, Foreign, Owned
  <2> QED BY <2>3, <2>4
<1>10. ASSUME NEW r \in Requests, home[r] # p
       PROVE  Shape(r)' /\ Covered(r)' /\ Closed(r)' /\ Foreign(r)' /\ (stalls' = 0 => Owned(r)')
  <2>1. /\ home'[r] = home[r] /\ step'[r] = step[r] /\ pos'[r] = pos[r]
        /\ accepted'[r] = accepted[r] /\ closing'[r] = closing[r]
        /\ disowned'[r] = disowned[r] /\ troubled'[r] = troubled[r]
        /\ response'[r] = response[r] /\ delivered' = delivered
        /\ Parts(r)' = Parts(r)
    BY <1>3, <1>5, <1>10 DEF Parts
  <2>2. /\ Shape(r) /\ Covered(r) /\ Closed(r) /\ Foreign(r) /\ (stalls = 0 => Owned(r))
        /\ \A i \in DOMAIN accepted[r] : accepted[r][i] \in Keys
    BY <1>1, Typed DEF IInv
  <2>3. Shape(r)' /\ Covered(r)'
    BY <2>1, <2>2 DEF Shape, Covered
  <2>4. \A j \in Keys : owners'[home[r]][j] = owners[home[r]][j] \/ step[r] = "idle"
    BY <1>2, <1>10, <2>2 DEF Shape
  <2>5. Parts(r) \subseteq DOMAIN accepted[r] /\ (step[r] = "idle" => DOMAIN accepted[r] = {})
    <3>1. step[r] \in {"complete", "release"} => 1 \in DOMAIN accepted[r]
      BY <1>1, <2>2, HeadAndTail DEF Shape, TypeOK
    <3> QED BY <2>2, <3>1 DEF Parts, Shape
  <2>6. Closed(r)'
    <3>1. ASSUME NEW i \in Parts(r)', owners'[home'[r]][accepted'[r][i]] = r
          PROVE  i \in DOMAIN closing'[r] /\ closing'[r][i].owner = r
      <4>1. owners[home[r]][accepted[r][i]] = r
        BY <2>1, <2>2, <2>4, <2>5, <3>1
      <4> QED BY <2>1, <2>2, <3>1, <4>1 DEF Closed
    <3> QED BY <3>1 DEF Closed
  <2>7. Foreign(r)'
    <3>1. ASSUME NEW i \in DOMAIN closing'[r], NEW q \in Requests \ {r}, closing'[r][i].owner = q
          PROVE  accepted'[r][i] \in disowned'[q] \/ ~Among(accepted'[r][i], accepted'[q])
      <4>1. CASE home[q] = p
        <5>1. accepted'[q] = <<>>
          BY <1>4, <4>1
        <5> QED BY <5>1 DEF Among
      <4>2. CASE home[q] # p
        <5>1. accepted'[q] = accepted[q] /\ disowned'[q] = disowned[q]
          BY <1>5, <4>2
        <5> QED BY <2>1, <2>2, <3>1, <5>1 DEF Foreign
      <4> QED BY <4>1, <4>2
    <3> QED BY <3>1 DEF Foreign, Among
  <2>8. ASSUME stalls' = 0 PROVE Owned(r)'
    <3>1. ASSUME NEW i \in DOMAIN accepted'[r] \ Parts(r)', accepted'[r][i] \notin disowned'[r]
          PROVE  /\ owners'[home'[r]][accepted'[r][i]] = r
                 /\ store'[accepted'[r][i]] = Record("held", r, TRUE)
                 /\ \A j \in DOMAIN accepted'[r] : accepted'[r][j] = accepted'[r][i] => j = i
      <4>1. /\ owners[home[r]][accepted[r][i]] = r
            /\ store[accepted[r][i]] = Record("held", r, TRUE)
            /\ \A j \in DOMAIN accepted[r] : accepted[r][j] = accepted[r][i] => j = i
            /\ accepted[r][i] \in Keys
        BY <1>3, <2>1, <2>2, <2>8, <3>1 DEF Owned
      <4>2. step[r] # "idle"
        BY <2>1, <2>5, <3>1
      <4> QED BY <1>3, <2>1, <2>4, <4>1, <4>2
    <3> QED BY <3>1 DEF Owned, Record
  <2> QED BY <2>3, <2>6, <2>7, <2>8
<1> QED BY <1>3, <1>6, <1>7, <1>8, <1>9, <1>10 DEF IInv

---------------------------------------------------------------------------
(* Every step                                                              *)

\* A stutter.
LEMMA NothingHappens ==
    ASSUME IInv, UNCHANGED vars
    PROVE  IInv'
<1>1. /\ store' = store /\ owners' = owners /\ home' = home /\ step' = step /\ pos' = pos
      /\ accepted' = accepted /\ troubled' = troubled /\ response' = response
      /\ closing' = closing /\ disowned' = disowned
      /\ delivered' = delivered /\ faults' = faults /\ stalls' = stalls
  BY DEF vars, handlers, calls
<1>2. TypeOK' /\ DoneIsDelivered' /\ NoClaimStranded'
  BY <1>1 DEF IInv, TypeOK, DoneIsDelivered, NoClaimStranded
<1>3. \A r \in Requests : Shape(r)' /\ Covered(r)' /\ Closed(r)' /\ Foreign(r)'
  BY <1>1 DEF IInv, Shape, Covered, Closed, Foreign, Parts
<1>4. stalls' = 0 => \A r \in Requests : Owned(r)'
  BY <1>1 DEF IInv, Owned, Parts
<1> QED BY <1>2, <1>3, <1>4 DEF IInv

\* A call ends: it returns, or throws.
LEMMA EndSteps ==
    ASSUME IInv, NEW r \in Requests, step[r] # "idle",
           \/ CallReturns(r) \/ ReleaseThrows(r)
           \/ /\ step[r] = "complete" /\ 1 \in DOMAIN closing[r]
              /\ Delete(r, 1)
              /\ closing' = [closing EXCEPT ![r] = <<>>]
              /\ step' = [step EXCEPT ![r] = "release"]
              /\ UNCHANGED <<store, home, pos, accepted, troubled, response, delivered,
                             faults, stalls>>
    PROVE  IInv'
<1>1. TypeOK /\ Shape(r)
  BY DEF IInv
<1>2. CASE CallReturns(r) \/ ReleaseThrows(r)
  <2>1. faults' \in 0..MaxFaults
    BY <1>1, <1>2, FaultsTyped DEF CallReturns, ReleaseThrows
  <2>2. PICK i \in DOMAIN closing[r] :
            /\ \/ Delete(r, i)
               \/ /\ owners[home[r]][accepted[r][i]] # closing[r][i].owner
                  /\ UNCHANGED <<owners, disowned>>
            /\ Over(r, i)
    BY <1>2 DEF CallReturns, ReleaseThrows
  <2>3. PICK rest : rest = Restrict(closing[r], DOMAIN closing[r] \ {i})
    OBVIOUS
  <2>4. /\ DOMAIN rest = DOMAIN closing[r] \ {i}
        /\ \A j \in DOMAIN rest : rest[j] = closing[r][j]
        /\ rest \in [DOMAIN rest -> Calls]
    BY <1>1, <2>3 DEF Restrict, TypeOK
  <2>5. PICK s \in Steps : s = step[r]
    BY <1>1 DEF TypeOK
  <2>6. step' = [step EXCEPT ![r] = s]
    BY <1>1, <2>2, <2>5 DEF Over, TypeOK
  <2>7. /\ closing' = [closing EXCEPT ![r] = rest]
        /\ UNCHANGED <<store, home, pos, accepted, troubled, response, delivered, stalls>>
    BY <2>2, <2>3 DEF Over
  <2>8. Ended(r, i, s, rest)
    BY <2>1, <2>2, <2>6, <2>7 DEF Ended
  <2>9. s = step[r] \/ (step[r] = "complete" /\ s = "release")
    BY <2>5
  <2>10. /\ DOMAIN rest = DOMAIN closing[r] \ {i} /\ rest \in [DOMAIN rest -> Calls]
         /\ \A j \in DOMAIN rest : rest[j] = closing[r][j]
    BY <2>4
  <2> QED BY <2>8, <2>9, <2>10, EndStep
<1>3. CASE /\ step[r] = "complete" /\ 1 \in DOMAIN closing[r]
           /\ Delete(r, 1)
           /\ closing' = [closing EXCEPT ![r] = <<>>]
           /\ step' = [step EXCEPT ![r] = "release"]
           /\ UNCHANGED <<store, home, pos, accepted, troubled, response, delivered,
                          faults, stalls>>
  <2>1. PICK rest : rest = <<>>
    OBVIOUS
  <2>2. PICK i \in DOMAIN closing[r] : i = 1
    BY <1>3
  <2>3. DOMAIN rest = DOMAIN closing[r] \ {i} /\ rest \in [DOMAIN rest -> Calls]
    BY <1>1, <1>3, <2>1, <2>2 DEF Shape, Parts
  <2>4. faults' \in 0..MaxFaults /\ \A j \in DOMAIN rest : rest[j] = closing[r][j]
    BY <1>1, <1>3, <2>1, FaultsTyped
  <2>5. PICK s \in Steps : s = "release"
    BY DEF Steps
  <2>6. Ended(r, i, s, rest)
    BY <1>3, <2>1, <2>2, <2>4, <2>5 DEF Ended
  <2> QED BY <1>3, <2>2, <2>3, <2>4, <2>5, <2>6, EndStep
<1> QED BY <1>2, <1>3

\* handle and deliverEach keep the invariant.
LEMMA HandleStep ==
    ASSUME IInv, NEW r \in Requests, Handle(r)
    PROVE  IInv'
<1>1. TypeOK /\ Shape(r)
  BY DEF IInv
<1>2. CASE ClaimHeldHere(r) \/ ClaimStart(r) \/ ClaimCompleted(r) \/ ClaimHeld(r)
           \/ ClaimedAll(r)
  BY <1>2, QuietSteps
<1>3. CASE ClaimAcquired(r) \/ ClaimThrows(r) \/ DeliverResolves(r) \/ DeliverRejects(r)
  BY <1>3, ClaimAcquiredStep, BeginSteps
<1>4. CASE CompleteEvent(r) \/ ReleaseEvent(r)
  BY <1>4, DoneStep
<1>5. CASE CallLinks(r) \/ CallReturns(r) \/ ReleaseThrows(r)
  <2>1. DOMAIN closing[r] # {}
    BY <1>5 DEF CallLinks, CallReturns, ReleaseThrows
  <2>2. step[r] # "idle"
    BY <1>1, <2>1 DEF Shape, Parts
  <2> QED BY <1>5, <2>2, LinkStep, EndSteps
<1>6. CASE CompleteThrows(r)
  <2>1. CASE Begin(r, "release", {1}, closing) /\ UNCHANGED owners /\ Fault
    BY <1>6, <2>1, BeginSteps
  <2>2. CASE ~(Begin(r, "release", {1}, closing) /\ UNCHANGED owners /\ Fault)
    <3>1. /\ step[r] = "complete" /\ 1 \in DOMAIN closing[r]
          /\ Delete(r, 1)
          /\ closing' = [closing EXCEPT ![r] = <<>>]
          /\ step' = [step EXCEPT ![r] = "release"]
          /\ UNCHANGED <<store, home, pos, accepted, troubled, response, delivered,
                         faults, stalls>>
      BY <1>6, <2>2 DEF CompleteThrows
    <3> QED BY <3>1, EndSteps
  <2> QED BY <2>1, <2>2
<1>7. CASE Unwound(r)
  <2>1. \A p \in Procs, k \in Keys : owners[p][k] # r
    BY <1>7, NoEntry DEF Unwound
  <2> QED BY <1>1, <1>7, <2>1, FaultsTyped, RestartStep DEF Unwound, Answer, Responses
<1>8. CASE Respond(r)
  <2>1. \A p \in Procs, k \in Keys : owners[p][k] # r
    BY <1>8, NoEntry DEF Respond
  <2> QED BY <1>1, <1>8, <2>1, FaultsTyped, RestartStep DEF Respond, Answer, Responses
<1> QED BY <1>2, <1>3, <1>4, <1>5, <1>6, <1>7, <1>8 DEF Handle

\* A delivery is posted, or turned away.
LEMMA PostStep ==
    ASSUME IInv, NEW r \in Requests, Arrive(r) \/ Refuse(r)
    PROVE  IInv'
<1>1. TypeOK /\ accepted[r] = <<>>
  BY DEF IInv, Shape, Arrive, Refuse
<1>2. \A p \in Procs, k \in Keys : owners[p][k] # r
  BY <1>1, NoEntry
<1>3. CASE Arrive(r)
  <2>1. PICK p \in Procs : Restart(r, "claim", p)
    BY <1>3 DEF Arrive
  <2> QED BY <1>1, <1>2, <1>3, <2>1, FaultsTyped, RestartStep DEF Arrive, Responses
<1>4. CASE Refuse(r)
  BY <1>1, <1>2, <1>4, FaultsTyped, RestartStep DEF Refuse, Answer, Responses
<1> QED BY <1>3, <1>4

\* A lease lapses, also that of a process that stalls, or is renewed late.
LEMMA LeaseSteps ==
    ASSUME IInv, NEW k \in Keys, Lapse(k) \/ Stall(k) \/ \E p \in Procs : Renew(p, k)
    PROVE  IInv'
<1>1. stalls \in 0..MaxStalls /\ MaxStalls \in Nat
  BY RouterAssumption DEF RouterAssumption, IInv, TypeOK
<1>2. CASE Lapse(k)
  BY <1>1, <1>2, LeaseStep DEF Lapse
<1>3. CASE Stall(k)
  <2>1. stalls' \in 0..MaxStalls /\ stalls' # 0
    BY <1>1, <1>3 DEF Stall
  <2> QED BY <1>3, <2>1, LeaseStep DEF Stall
<1>4. CASE \E p \in Procs : Renew(p, k)
  BY <1>1, <1>4, LeaseStep DEF Renew, StillOwns, Holds
<1> QED BY <1>2, <1>3, <1>4

\* Each action keeps the invariant.
LEMMA InvariantStep == IInv /\ [Next]_vars => IInv'
<1> SUFFICES ASSUME IInv, [Next]_vars PROVE IInv'
  OBVIOUS
<1>1. CASE \E r \in Requests : Arrive(r) \/ Refuse(r) \/ Handle(r)
  BY <1>1, HandleStep, PostStep
<1>2. CASE \E k \in Keys : Lapse(k) \/ Stall(k) \/ \E p \in Procs : Renew(p, k)
  BY <1>2, LeaseSteps
<1>3. CASE \E p \in Procs : Crash(p)
  BY <1>3, CrashStep
<1>4. CASE Finished \/ UNCHANGED vars
  BY <1>4, NothingHappens DEF Finished
<1> QED BY <1>1, <1>2, <1>3, <1>4 DEF Next

\* What the invariant says of acknowledgements and of what is delivered.
LEMMA InvariantImplies ==
    IInv => TypeOK /\ AckMeansDelivered /\ NoClaimStranded /\ DeliversOnlyWhatItHolds
<1> SUFFICES ASSUME IInv
             PROVE  TypeOK /\ AckMeansDelivered /\ NoClaimStranded /\ DeliversOnlyWhatItHolds
  OBVIOUS
<1>1. AckMeansDelivered
  BY Batches DEF IInv, Covered, AckMeansDelivered
<1>2. ASSUME stalls = 0, NEW r \in Requests, step[r] = "deliver",
             NEW i \in DOMAIN accepted[r], accepted[r][i] \notin disowned[r]
      PROVE  owners[home[r]][accepted[r][i]] = r /\ StillOwns(home[r], accepted[r][i])
  <2>1. Owned(r) /\ NoOne \notin Requests /\ Parts(r) = {}
    BY <1>2, RouterAssumption DEF IInv, RouterAssumption, Parts
  <2>2. /\ owners[home[r]][accepted[r][i]] = r
        /\ store[accepted[r][i]] = Record("held", r, TRUE)
    BY <1>2, <2>1 DEF Owned
  <2>3. store[accepted[r][i]].kind = "held" /\ store[accepted[r][i]].owner = r
    BY <2>2 DEF Record
  <2> QED BY <2>1, <2>2, <2>3 DEF StillOwns, Holds
<1>3. DeliversOnlyWhatItHolds
  BY <1>2 DEF DeliversOnlyWhatItHolds
<1> QED BY <1>1, <1>3 DEF IInv

\* The invariant holds in every state of every behaviour.
LEMMA Invariant == Spec => []IInv
BY InitEstablishes, InvariantStep, PTL DEF Spec

---------------------------------------------------------------------------
(* The theorems                                                            *)

\* Every variable of the router keeps its type.
THEOREM RouterTypeCorrect == Spec => []TypeOK
BY Invariant, InvariantImplies, PTL

\* The router answers 200 only for a batch whose events were all delivered, by
\* whichever handlers.
THEOREM AcknowledgedIsDelivered == Spec => []AckMeansDelivered
BY Invariant, InvariantImplies, PTL

\* Every claim a process renews is on the list of a handler that runs there:
\* handle and deliverEach complete or release whatever they acquire.
THEOREM NothingStranded == Spec => []NoClaimStranded
BY Invariant, InvariantImplies, PTL

\* Unless a process stalls past a lease, handlers hold live claims of all the
\* events they deliver, but for those whose entry the late delete of a call of
\* another handler took.
THEOREM HandlersHold == Spec => []DeliversOnlyWhatItHolds
BY Invariant, InvariantImplies, PTL

=============================================================================
