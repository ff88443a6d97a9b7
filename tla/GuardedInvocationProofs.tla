---------------------- MODULE GuardedInvocationProofs ----------------------
(***************************************************************************)
(* What GuardedInvocation guarantees for any requests, deployments and     *)
(* bounds: a withdrawn authority has no effect, an answered request is not *)
(* repeated, and a mutation is executed once per key but for overlapping   *)
(* invocations and lost ends.  The first invariant ties what an invocation *)
(* remembers of its start to what the stores say now: what still holds of  *)
(* the authority has held since (authority is only withdrawn).  The second *)
(* follows a key that was never overlapped: one invocation at a time       *)
(* mutates, it has its call upstream only while it waits, and what was     *)
(* done is recorded before the next one looks.                             *)
(***************************************************************************)
EXTENDS GuardedInvocation, SequenceTheorems, TLAPS

\* An active invocation has passed the checks before its step, and has held
\* whatever still holds.
HoldsAuthority ==
    \A w \in Invocations : Active(w) =>
        /\ Request(w) \in Requests
        /\ "capability" \in inv[w].lawful
        /\ valid \subseteq inv[w].lawful
        /\ inv[w].step # "connection" => "connection" \in inv[w].lawful

\* An approval in force has been in force during every active invocation.
HoldsApproval ==
    \A w \in Invocations : Active(w) =>
        /\ \A id \in DOMAIN approvals :
              InForce(id, Request(w).input) => "approval" \in inv[w].lawful
        /\ At(w, "preflight") /\ deployment.policy # "allow" => "approval" \in inv[w].lawful
        /\ At(w, "expire") => Given(w) \in overdue

\* An answered request has a record, and whoever starts after the answer does
\* not get past the lookup.
AnswersAreRecorded ==
    /\ \A r \in answered : records[r.key] # NoRequest
    /\ \A w \in Invocations : Active(w) =>
          /\ At(w, "audit") => records[Key(w)] # NoRequest
          /\ inv[w].late => Request(w) \in answered /\ inv[w].step \in {"connection", "lookup"}

IInv == TypeOK /\ HoldsAuthority /\ HoldsApproval /\ AnswersAreRecorded

\* The steps on the way to the effect, and those up to the answer.
Coming == {"limit", "approval", "expire", "policy", "ask", "preflight", "send"}
Acting == Coming \cup {"put", "audit"}

\* A dry run never acts; a call upstream has a caller that waits for it, or
\* none any more.
CallsHaveCallers ==
    /\ \A w \in Invocations : inv[w].step \in Acting => ~Request(w).dry
    /\ \A c \in inbound : At(c.by, "over") \/ (At(c.by, "send") /\ Key(c.by) = c.key)

\* An invocation that may execute the mutation of key k.
Mutates(w, k) == Active(w) /\ ~Request(w).dry /\ Key(w) = k

\* A key that was not overlapped: one invocation mutates, and waits for its
\* call; what was done is recorded or about to be, and is not coming again.
SoleMutation(k) ==
    /\ \A v, w \in Invocations : Mutates(v, k) /\ Mutates(w, k) => v = w
    /\ \A c \in inbound : c.key = k => At(c.by, "send")
    /\ done[k] > 0 => \/ records[k] # NoRequest
                      \/ \E w \in Invocations : At(w, "put") /\ Key(w) = k
    /\ \A w \in Invocations : inv[w].step \in Coming /\ Key(w) = k => done[k] = 0
    /\ done[k] <= 1

OnceInv ==
    /\ CallsHaveCallers
    /\ \A k \in Keys \ overlapped : SoleMutation(k)
    /\ deployment.adapter = "google" => \A k \in Keys : done[k] <= 1

---------------------------------------------------------------------------
(* The type invariant                                                      *)

Invs == [step : Steps, request : Requests \cup {NoRequest}, given : 0..MaxApprovals,
         lawful : SUBSET {"capability", "connection", "approval"},
         late : BOOLEAN]

\* Who has ended, or not begun, is well-formed.
LEMMA IdleTyped == Idle("over") \in Invs /\ Idle("over").step = "over"
BY InvocationAssumption DEF Idle, Running, Invs, Steps

\* A status is written over, in place.
LEMMA StatusTyped ==
    ASSUME TypeOK, NEW id \in DOMAIN approvals, NEW s \in Statuses, SetStatus(id, s)
    PROVE  /\ approvals' \in Seq([input : Inputs, status : Statuses])
           /\ DOMAIN approvals' = DOMAIN approvals
           /\ \A i \in DOMAIN approvals : /\ approvals'[i].input = approvals[i].input
                                          /\ i # id => approvals'[i] = approvals[i]
           /\ approvals'[id].status = s
<1> DEFINE Approvals == [input : Inputs, status : Statuses]
           changed == [approvals[id] EXCEPT !.status = s]
<1>0. approvals \in Seq(Approvals)
  BY DEF TypeOK
<1>1. approvals \in Seq(Approvals) /\ id \in 1..Len(approvals) /\ approvals[id] \in Approvals
  <2> HIDE DEF Approvals
  <2> QED BY <1>0, ElementOfSeq
<1>2. changed \in Approvals /\ changed.input = approvals[id].input /\ changed.status = s
  BY <1>1
<1>3. approvals' = [approvals EXCEPT ![id] = changed]
  BY DEF SetStatus
<1> HIDE DEF changed, Approvals
<1>4. approvals' \in Seq(Approvals) /\ DOMAIN approvals' = DOMAIN approvals
  BY <1>1, <1>2, <1>3, ExceptSeq
<1>5. /\ approvals'[id] = changed
      /\ \A i \in DOMAIN approvals : i # id => approvals'[i] = approvals[i]
  BY <1>1, <1>3, ExceptSeq
<1> QED BY <1>2, <1>4, <1>5 DEF Approvals

\* Go moves one invocation and leaves the others alone.
LEMMA GoMoves ==
    ASSUME TypeOK, NEW w \in Invocations, NEW s \in Steps, Go(w, s)
    PROVE  /\ inv' \in [Invocations -> Invs]
           /\ \A v \in Invocations \ {w} : inv'[v] = inv[v]
           /\ inv'[w].step = s
           /\ s # "over" => /\ inv'[w].request = inv[w].request
                            /\ inv'[w].given = inv[w].given
                            /\ inv'[w].lawful = inv[w].lawful
                            /\ inv'[w].late = inv[w].late
<1>1. CASE s = "over"
  <2>1. Idle("over") \in Invs
    BY IdleTyped
  <2>2. inv' = [inv EXCEPT ![w] = Idle("over")]
    BY <1>1 DEF Go
  <2> QED BY <1>1, <2>1, <2>2 DEF TypeOK, Invs, Idle, Running
<1>2. CASE s # "over"
  <2>1. inv' = [inv EXCEPT ![w] = [inv[w] EXCEPT !.step = s]]
    BY <1>2 DEF Go
  <2>2. inv[w] \in Invs
    BY DEF TypeOK, Invs
  <2>3. [inv[w] EXCEPT !.step = s] \in Invs
    BY <2>2 DEF Invs
  <2> QED BY <1>2, <2>1, <2>2, <2>3 DEF TypeOK, Invs
<1> QED BY <1>1, <1>2

---------------------------------------------------------------------------
(* The induction step, for all actions at once                             *)

\* The stores only lose authority and only gain records.
Monotone ==
    /\ deployment' = deployment /\ valid' \subseteq valid /\ overdue \subseteq overdue'
    /\ \A id \in DOMAIN approvals', input \in Inputs :
          InForce(id, input)' => id \in DOMAIN approvals /\ InForce(id, input)
    /\ \A k \in Keys : records[k] # NoRequest => records'[k] # NoRequest
    /\ answered \subseteq answered'
    /\ \A r \in answered' : r \in answered \/ records'[r.key] # NoRequest

\* What an invocation that is still active may have done in a step.
Advances(w) ==
    /\ Active(w)
    /\ inv'[w].request = inv[w].request /\ inv'[w].given = inv[w].given
    /\ inv'[w].lawful = inv[w].lawful /\ inv'[w].late = inv[w].late
    /\ inv'[w].step # "connection"
    /\ inv[w].step = "connection" => "connection" \in valid
    /\ inv'[w].step = "preflight" /\ deployment.policy # "allow" =>
          \E id \in DOMAIN approvals : InForce(id, Request(w).input)
    /\ inv'[w].step = "expire" => Given(w) \in overdue
    /\ inv'[w].step = "audit" => records'[Key(w)] # NoRequest
    /\ inv[w].late => inv'[w].step = "lookup"

LEMMA InvariantKept ==
    ASSUME IInv, TypeOK', Monotone,
           \A w \in Invocations : Active(w)' => inv'[w] = inv[w] \/ Advances(w)
    PROVE  IInv'
<1> USE DEF IInv, Active, At, Request, Given, Key
<1>0. ASSUME NEW w \in Invocations, Active(w)
      PROVE  Request(w) \in Requests /\ Key(w) \in Keys /\ Request(w).input \in Inputs
  BY <1>0 DEF HoldsAuthority, Keys, Inputs
<1>1. HoldsAuthority'
  BY DEF HoldsAuthority, Monotone, Advances
<1>2. HoldsApproval'
  <2> SUFFICES ASSUME NEW w \in Invocations, Active(w)'
               PROVE  /\ \A id \in DOMAIN approvals' :
                            InForce(id, Request(w).input)' => "approval" \in inv'[w].lawful
                      /\ inv'[w].step = "preflight" /\ deployment'.policy # "allow"
                            => "approval" \in inv'[w].lawful
                      /\ inv'[w].step = "expire" => inv'[w].given \in overdue'
    BY DEF HoldsApproval
  <2>1. Active(w) /\ inv'[w].request = inv[w].request /\ inv'[w].lawful = inv[w].lawful
    BY DEF Advances
  <2>2. Request(w).input \in Inputs
    BY <2>1, <1>0
  <2>3. \A id \in DOMAIN approvals : InForce(id, Request(w).input) => "approval" \in inv[w].lawful
    BY <2>1 DEF HoldsApproval
  <2>4. \A id \in DOMAIN approvals' :
            InForce(id, Request(w).input)' => "approval" \in inv'[w].lawful
    <3> TAKE id \in DOMAIN approvals'
    <3> HAVE InForce(id, Request(w).input)'
    <3>1. InForce(id, Request(w).input)' <=>
            /\ id \in DOMAIN approvals' \ overdue' /\ approvals'[id].status = "approved"
            /\ approvals'[id].input = Request(w).input
      BY <2>1 DEF InForce
    <3>2. id \in DOMAIN approvals /\ InForce(id, Request(w).input)
      BY <2>2, <3>1 DEF Monotone, InForce
    <3> QED BY <2>1, <2>3, <3>2
  <2>5. inv'[w].step = "preflight" /\ deployment'.policy # "allow" => "approval" \in inv'[w].lawful
    BY <2>1, <2>3 DEF HoldsApproval, Monotone, Advances
  <2>6. inv'[w].step = "expire" => inv'[w].given \in overdue'
    BY <2>1 DEF HoldsApproval, Monotone, Advances
  <2> QED BY <2>4, <2>5, <2>6
<1>3. AnswersAreRecorded'
  <2>0. \A r \in answered : r.key \in Keys
    BY DEF TypeOK, Keys
  <2>1. \A r \in answered' : records'[r.key] # NoRequest
    BY <2>0 DEF AnswersAreRecorded, Monotone
  <2>2. ASSUME NEW w \in Invocations, Active(w)'
        PROVE  /\ inv'[w].step = "audit" => records'[inv'[w].request.key] # NoRequest
               /\ inv'[w].late => /\ inv'[w].request \in answered'
                                  /\ inv'[w].step \in {"connection", "lookup"}
    <3>1. Active(w) /\ inv'[w].request = inv[w].request
      BY <2>2 DEF Advances
    <3>2. Key(w) \in Keys
      BY <3>1, <1>0
    <3> QED BY <2>2, <3>1, <3>2 DEF AnswersAreRecorded, Monotone, Advances
  <2> QED BY <2>1, <2>2 DEF AnswersAreRecorded
<1> QED BY <1>1, <1>2, <1>3

---------------------------------------------------------------------------
(* One step per action                                                     *)

\* One invocation moves to s, which is the end or the next check.
LEMMA MoverAdvances ==
    ASSUME IInv, NEW w \in Invocations, NEW s \in Steps, Go(w, s), Active(w),
           s = "over" \/
              /\ s \notin {"new", "connection"}
              /\ inv[w].step = "connection" => "connection" \in valid
              /\ s = "preflight" /\ deployment.policy # "allow" =>
                    \E id \in DOMAIN approvals : InForce(id, Request(w).input)
              /\ s = "expire" => Given(w) \in overdue
              /\ s = "audit" => records'[Key(w)] # NoRequest
              /\ inv[w].late => s = "lookup"
    PROVE  /\ inv' \in [Invocations -> Invs]
           /\ \A v \in Invocations : Active(v)' => inv'[v] = inv[v] \/ Advances(v)
<1>1. /\ inv' \in [Invocations -> Invs]
      /\ \A v \in Invocations \ {w} : inv'[v] = inv[v]
      /\ inv'[w].step = s
      /\ s # "over" => /\ inv'[w].request = inv[w].request
                       /\ inv'[w].given = inv[w].given
                       /\ inv'[w].lawful = inv[w].lawful
                       /\ inv'[w].late = inv[w].late
  BY GoMoves DEF IInv
<1>2. Active(w)' => Advances(w)
  BY <1>1 DEF Active, Advances, Request, Given, Key
<1> QED BY <1>1, <1>2

\* Facts about the request of an active invocation.
LEMMA RequestTyped ==
    ASSUME IInv, NEW w \in Invocations, Active(w)
    PROVE  /\ Request(w) \in Requests /\ Request(w) # NoRequest
           /\ Key(w) \in Keys /\ Request(w).input \in Inputs
BY InvocationAssumption DEF IInv, HoldsAuthority, Keys, Inputs, Key

LEMMA LocalStep ==
    ASSUME IInv, NEW w \in Invocations, NEW s \in Steps, Go(w, s), Stores, faults' \in 0..MaxFaults,
           overlapped' \subseteq Keys, Active(w),
           s = "over" \/
              /\ s \notin {"new", "connection", "audit"}
              /\ inv[w].step = "connection" => "connection" \in valid
              /\ s = "preflight" /\ deployment.policy # "allow" =>
                    \E id \in DOMAIN approvals : InForce(id, Request(w).input)
              /\ s = "expire" => Given(w) \in overdue
              /\ inv[w].late => s = "lookup"
    PROVE  IInv'
<1>1. /\ inv' \in [Invocations -> Invs]
      /\ \A v \in Invocations : Active(v)' => inv'[v] = inv[v] \/ Advances(v)
  BY MoverAdvances
<1>2. TypeOK'
  BY <1>1 DEF IInv, TypeOK, Stores, authority, Invs
<1>3. Monotone
  BY DEF Monotone, Stores, authority, InForce
<1> QED BY <1>1, <1>2, <1>3, InvariantKept

\* A new invocation remembers what holds now.
LEMMA StartStep ==
    ASSUME IInv, NEW w \in Invocations, NEW r \in Requests, NEW id \in 0..MaxApprovals,
           Start(w, r, id)
    PROVE  IInv'
<1> DEFINE held == valid \cup Approved(r.input)
           started == Running("connection", r, id, held, r \in answered)
<1>1. /\ UNCHANGED <<deployment, valid, approvals, overdue, records, inbound, done, answered>>
      /\ UNCHANGED faults
      /\ inv' = [inv EXCEPT ![w] = IF "capability" \notin valid THEN Idle("over") ELSE started]
  BY DEF Start, Stores, authority, Quiet
<1>0. overlapped' \subseteq Keys
  BY DEF Start, Overlap, IInv, TypeOK, Keys
<1>2. CASE "capability" \notin valid
  <2>1. Idle("over") \in Invs /\ Idle("over").step = "over"
    BY IdleTyped
  <2>2. inv' \in [Invocations -> Invs]
    BY <1>1, <1>2, <2>1 DEF IInv, TypeOK, Invs
  <2>3. TypeOK'
    BY <1>0, <1>1, <2>2 DEF IInv, TypeOK, Invs
  <2>4. \A v \in Invocations : Active(v)' => inv'[v] = inv[v]
    BY <1>1, <1>2, <2>1 DEF IInv, TypeOK, Active
  <2>5. Monotone
    BY <1>1 DEF Monotone, InForce
  <2> QED BY <2>3, <2>4, <2>5, InvariantKept
<1>3. CASE "capability" \in valid
  <2>0. (r \in answered) \in BOOLEAN
    OBVIOUS
  <2>1. /\ started \in Invs
        /\ started.step = "connection" /\ started.request = r /\ started.lawful = held
        /\ started.late = (r \in answered)
    <3>1. held \in SUBSET {"capability", "connection", "approval"}
      BY DEF IInv, TypeOK, Approved
    <3> HIDE DEF held
    <3> QED BY <2>0, <3>1, Zenon DEF Running, Invs, Steps
  <2> HIDE DEF started
  <2>2. inv' \in [Invocations -> Invs] /\ inv'[w] = started
        /\ \A v \in Invocations \ {w} : inv'[v] = inv[v]
    BY <1>1, <1>3, <2>1 DEF IInv, TypeOK, Invs
  <2>3. TypeOK'
    BY <1>0, <1>1, <2>2 DEF IInv, TypeOK, Invs
  <2>4. HoldsAuthority'
    BY <1>1, <1>3, <2>1, <2>2 DEF IInv, HoldsAuthority, Active, Request
  <2>5. HoldsApproval'
    <3>1. \A i \in DOMAIN approvals : InForce(i, r.input) => "approval" \in held
      BY DEF Approved
    <3> HIDE DEF held
    <3> QED BY <1>1, <2>1, <2>2, <3>1 DEF IInv, HoldsApproval, Active, At, Request, Given, InForce
  <2>6. AnswersAreRecorded'
    BY <1>1, <2>1, <2>2 DEF IInv, AnswersAreRecorded, Active, At, Request, Key
  <2> QED BY <2>3, <2>4, <2>5, <2>6 DEF IInv
<1> QED BY <1>2, <1>3

\* A resolution tells all active invocations with that input.
LEMMA ResolveStep ==
    ASSUME IInv, NEW id \in 1..MaxApprovals, NEW verdict \in {"approved", "denied"},
           Resolve(id, verdict)
    PROVE  IInv'
<1>1. /\ UNCHANGED <<deployment, valid, overdue, records, inbound, done, answered>>
      /\ UNCHANGED <<overlapped, faults>>
      /\ id \in DOMAIN approvals
      /\ approvals' = [approvals EXCEPT ![id].status = verdict]
  BY DEF Resolve, SetStatus, authority, Quiet
<1>2. /\ DOMAIN approvals' = DOMAIN approvals
      /\ approvals' \in Seq([input : Inputs, status : Statuses])
      /\ \A i \in DOMAIN approvals : /\ approvals'[i].input = approvals[i].input
                                     /\ i # id => approvals'[i] = approvals[i]
      /\ approvals'[id].status = verdict
  BY <1>1, StatusTyped DEF IInv, SetStatus, Statuses
<1>3. /\ inv' \in [Invocations -> Invs]
      /\ \A w \in Invocations :
            /\ inv'[w].step = inv[w].step /\ inv'[w].request = inv[w].request
            /\ inv'[w].given = inv[w].given /\ inv'[w].late = inv[w].late
            /\ inv[w].lawful \subseteq inv'[w].lawful
            /\ (/\ verdict = "approved" /\ id \notin overdue /\ Active(w)
                /\ Request(w).input = approvals[id].input) => "approval" \in inv'[w].lawful
  <2>1. inv' = [w \in Invocations |->
                 IF verdict = "approved" /\ id \notin overdue /\ Active(w)
                    /\ Request(w).input = approvals[id].input
                 THEN [inv[w] EXCEPT !.lawful = @ \cup {"approval"}] ELSE inv[w]]
    BY DEF Resolve, Active, At
  <2>2. inv \in [Invocations -> Invs]
    BY DEF IInv, TypeOK, Invs
  <2> QED BY <2>1, <2>2 DEF Invs
<1>4. TypeOK'
  BY <1>1, <1>2, <1>3 DEF IInv, TypeOK, Invs
<1>5. HoldsAuthority'
  BY <1>1, <1>3 DEF IInv, HoldsAuthority, Active, Request
<1>6. HoldsApproval'
  BY <1>1, <1>2, <1>3 DEF IInv, HoldsApproval, Active, At, Request, Given, InForce
<1>7. AnswersAreRecorded'
  BY <1>1, <1>3 DEF IInv, AnswersAreRecorded, Active, At, Request, Key
<1> QED BY <1>4, <1>5, <1>6, <1>7 DEF IInv

\* Steps that move one invocation only.
LEMMA LocalSteps ==
    ASSUME IInv, NEW w \in Invocations,
           \/ ReadConnection(w) \/ LookUp(w) \/ RateLimit(w) \/ FindApproved(w) \/ Decide(w)
           \/ GiveUp(w) \/ Fails(w)
    PROVE  IInv'
<1> USE RequestTyped, LocalStep DEF Active, At, Steps, Local
<1>0. faults \in 0..MaxFaults /\ (UNCHANGED faults => faults' \in 0..MaxFaults)
      /\ (Fault => faults' \in 0..MaxFaults)
  BY InvocationAssumption DEF IInv, TypeOK, Fault
<1>10. /\ UNCHANGED overlapped => overlapped' \subseteq Keys
       /\ Active(w) /\ Overlap({Key(w)}) => overlapped' \subseteq Keys
       /\ Overlap({}) => overlapped' \subseteq Keys
  BY DEF IInv, TypeOK, Overlap
<1>1. CASE ReadConnection(w)
  <2>1. inv[w].late => inv[w].step \in {"connection", "lookup"}
    BY <1>1 DEF ReadConnection, IInv, AnswersAreRecorded
  <2>2. \E s \in {"lookup", "over"} : Go(w, s) /\ (s = "lookup" => "connection" \in valid)
    BY <1>1 DEF ReadConnection
  <2> QED BY <1>0, <1>10, <1>1, <2>1, <2>2 DEF ReadConnection, Quiet
<1>2. CASE LookUp(w)
  <2>1. inv[w].late => records[Key(w)] # NoRequest
    BY <1>2 DEF LookUp, IInv, AnswersAreRecorded, Key
  <2>2. \E s \in {"over", "dry", "limit"} : Go(w, s) /\ (s # "over" => ~inv[w].late)
    BY <1>2, <2>1 DEF LookUp
  <2> QED BY <1>0, <1>10, <1>2, <2>2 DEF LookUp, Quiet
<1>3. CASE RateLimit(w)
  <2>1. ~inv[w].late
    BY <1>3 DEF RateLimit, IInv, AnswersAreRecorded
  <2> QED BY <1>0, <1>10, <1>3, <2>1 DEF RateLimit, Quiet
<1>4. CASE FindApproved(w)
  <2>1. ~inv[w].late
    BY <1>4 DEF FindApproved, IInv, AnswersAreRecorded
  <2>2. \E s \in {"preflight", "expire", "policy"} :
           /\ Go(w, s)
           /\ s = "preflight" => \E id \in DOMAIN approvals : InForce(id, Request(w).input)
           /\ s = "expire" => Given(w) \in overdue
    BY <1>4 DEF FindApproved, InForce
  <2> QED BY <1>0, <1>10, <1>4, <2>1, <2>2 DEF FindApproved, Quiet
<1>5. CASE Decide(w)
  <2>1. ~inv[w].late
    BY <1>5 DEF Decide, IInv, AnswersAreRecorded
  <2>2. \E s \in {"preflight", "over", "ask"} :
           Go(w, s) /\ (s = "preflight" => deployment.policy = "allow")
    BY <1>5 DEF Decide
  <2> QED BY <1>0, <1>10, <1>5, <2>1, <2>2 DEF Decide, Quiet
<1>6. CASE GiveUp(w)
  BY <1>0, <1>10, <1>6 DEF GiveUp
<1>7. CASE Fails(w)
  BY <1>0, <1>10, <1>7 DEF Fails
<1> QED BY <1>1, <1>2, <1>3, <1>4, <1>5, <1>6, <1>7

\* Steps that end an invocation or send it on, and change a store.
LEMMA StoreSteps ==
    ASSUME IInv, NEW w \in Invocations,
           \/ DryRun(w) \/ ExpireApproval(w) \/ AskApproval(w) \/ Preflight(w)
           \/ WriteRecord(w) \/ Audit(w)
    PROVE  IInv'
<1> USE DEF Active, At, Steps
<1>0. Active(w) /\ Request(w) \in Requests /\ Request(w) # NoRequest
      /\ Key(w) \in Keys /\ Request(w).input \in Inputs
  BY RequestTyped DEF DryRun, ExpireApproval, AskApproval, Preflight, WriteRecord, Audit
<1>1. CASE DryRun(w)
  <2>1. /\ inv' \in [Invocations -> Invs]
        /\ \A v \in Invocations : Active(v)' => inv'[v] = inv[v] \/ Advances(v)
    BY <1>0, <1>1, MoverAdvances DEF DryRun
  <2>2. TypeOK'
    BY <1>0, <1>1, <2>1 DEF DryRun, IInv, TypeOK, Invs, authority, Quiet
  <2>3. Monotone
    BY <1>0, <1>1 DEF DryRun, IInv, TypeOK, Monotone, InForce, authority, Key
  <2> QED BY <2>1, <2>2, <2>3, InvariantKept
<1>2. CASE ExpireApproval(w)
  <2>1. Given(w) \in overdue /\ Given(w) \in DOMAIN approvals /\ ~inv[w].late
    BY <1>2 DEF ExpireApproval, IInv, HoldsApproval, AnswersAreRecorded, TypeOK
  <2>2. /\ inv' \in [Invocations -> Invs]
        /\ \A v \in Invocations : Active(v)' => inv'[v] = inv[v] \/ Advances(v)
    BY <1>0, <1>2, <2>1, MoverAdvances DEF ExpireApproval
  <2>3. /\ approvals' \in Seq([input : Inputs, status : Statuses])
        /\ DOMAIN approvals' = DOMAIN approvals
        /\ \A i \in DOMAIN approvals : i # Given(w) => approvals'[i] = approvals[i]
        /\ approvals'[Given(w)].status = "expired"
    BY <1>2, <2>1, StatusTyped DEF ExpireApproval, IInv, Statuses
  <2>4. TypeOK'
    BY <1>2, <2>2, <2>3 DEF ExpireApproval, IInv, TypeOK, Invs, authority, Quiet
  <2>5. Monotone
    BY <1>2, <2>3 DEF ExpireApproval, Monotone, InForce, authority
  <2> QED BY <2>2, <2>4, <2>5, InvariantKept
<1>3. CASE AskApproval(w)
  <2>1. /\ inv' \in [Invocations -> Invs]
        /\ \A v \in Invocations : Active(v)' => inv'[v] = inv[v] \/ Advances(v)
    BY <1>0, <1>3, MoverAdvances DEF AskApproval
  <2>2. /\ approvals' \in Seq([input : Inputs, status : Statuses])
        /\ DOMAIN approvals \subseteq DOMAIN approvals'
        /\ \A i \in DOMAIN approvals : approvals'[i] = approvals[i]
        /\ \A i \in DOMAIN approvals' \ DOMAIN approvals : approvals'[i].status = "pending"
    <3> DEFINE Approvals == [input : Inputs, status : Statuses]
               asked == [input |-> Request(w).input, status |-> "pending"]
    <3>1. asked \in Approvals /\ asked.status = "pending"
      BY <1>0 DEF Statuses
    <3>2. approvals \in Seq(Approvals) /\ approvals' = Append(approvals, asked)
      BY <1>3 DEF AskApproval, IInv, TypeOK
    <3> HIDE DEF Approvals, asked
    <3>3. /\ approvals' \in Seq(Approvals) /\ Len(approvals') = Len(approvals) + 1
          /\ \A i \in 1..Len(approvals) : approvals'[i] = approvals[i]
          /\ approvals'[Len(approvals) + 1] = asked
      BY <3>1, <3>2, AppendProperties
    <3>4. /\ DOMAIN approvals = 1..Len(approvals) /\ DOMAIN approvals' = 1..Len(approvals')
          /\ Len(approvals) \in Nat
      BY <3>2, <3>3
    <3> QED BY <3>1, <3>3, <3>4 DEF Approvals
  <2>3. TypeOK'
    BY <1>3, <2>1, <2>2 DEF AskApproval, IInv, TypeOK, Invs, authority, Quiet
  <2>4. Monotone
    BY <1>3, <2>2 DEF AskApproval, Monotone, InForce, authority
  <2> QED BY <2>1, <2>3, <2>4, InvariantKept
<1>4. CASE Preflight(w)
  <2>1. ~inv[w].late
    BY <1>0, <1>4 DEF Preflight, IInv, AnswersAreRecorded
  <2>2. \E s \in {"send", "over"} : Go(w, s)
    BY <1>4 DEF Preflight, Send
  <2>3. /\ inv' \in [Invocations -> Invs]
        /\ \A v \in Invocations : Active(v)' => inv'[v] = inv[v] \/ Advances(v)
    BY <1>0, <1>4, <2>1, <2>2, MoverAdvances DEF Preflight
  <2>4. inbound' = inbound \/ inbound' = inbound \cup {[by |-> w, key |-> Key(w)]}
    BY <1>4 DEF Preflight, Send
  <2>5. TypeOK'
    BY <1>0, <1>4, <2>1, <2>3, <2>4 DEF Preflight, IInv, TypeOK, Invs, authority, Quiet
  <2>6. Monotone
    BY <1>4 DEF Preflight, Monotone, InForce, authority
  <2> QED BY <2>3, <2>5, <2>6, InvariantKept
<1>5. CASE WriteRecord(w)
  <2>1. records' = [records EXCEPT ![Key(w)] = Request(w)] /\ records'[Key(w)] # NoRequest
    BY <1>0, <1>5 DEF WriteRecord, IInv, TypeOK
  <2>2. ~inv[w].late
    BY <1>0, <1>5 DEF WriteRecord, IInv, AnswersAreRecorded
  <2>3. /\ inv' \in [Invocations -> Invs]
        /\ \A v \in Invocations : Active(v)' => inv'[v] = inv[v] \/ Advances(v)
    BY <1>0, <1>5, <2>1, <2>2, MoverAdvances DEF WriteRecord
  <2>4. TypeOK'
    BY <1>0, <1>5, <2>3 DEF WriteRecord, IInv, TypeOK, Invs, authority, Quiet
  <2>5. Monotone
    BY <1>0, <1>5, <2>1 DEF WriteRecord, IInv, TypeOK, Monotone, InForce, authority
  <2> QED BY <2>3, <2>4, <2>5, InvariantKept
<1>6. CASE Audit(w)
  <2>1. records[Key(w)] # NoRequest
    BY <1>0, <1>6 DEF Audit, IInv, AnswersAreRecorded
  <2>2. /\ inv' \in [Invocations -> Invs]
        /\ \A v \in Invocations : Active(v)' => inv'[v] = inv[v] \/ Advances(v)
    BY <1>0, <1>6, MoverAdvances DEF Audit
  <2>3. TypeOK'
    BY <1>0, <1>6, <2>2 DEF Audit, IInv, TypeOK, Invs, authority, Quiet
  <2>4. Monotone
    BY <1>0, <1>6, <2>1 DEF Audit, Monotone, InForce, authority, Key
  <2> QED BY <2>2, <2>3, <2>4, InvariantKept
<1> QED BY <1>1, <1>2, <1>3, <1>4, <1>5, <1>6

\* The mutation arrives, with or without a caller that waits for it.
LEMMA UpstreamSteps ==
    ASSUME IInv, NEW c \in inbound, Execute(c) \/ Reject(c)
    PROVE  IInv'
<1> USE DEF Active, At, Steps
<1>0. c.by \in Invocations /\ c.key \in Keys
  BY DEF IInv, TypeOK
<1>1. /\ UNCHANGED <<deployment, valid, approvals, overdue, records, answered>>
      /\ UNCHANGED <<overlapped, faults>>
      /\ inbound' = inbound \ {c}
  BY DEF Execute, Reject, authority, Quiet
<1>2. done' \in [Keys -> Nat] /\ \A k \in Keys : done'[k] = 0 => done[k] = 0
  <2>1. done \in [Keys -> Nat]
    BY DEF IInv, TypeOK
  <2>2. CASE Execute(c)
    <3>1. \E n \in {done[c.key], done[c.key] + 1} : done' = [done EXCEPT ![c.key] = n]
      BY <2>2 DEF Execute
    <3> QED BY <1>0, <2>1, <3>1
  <2>3. CASE Reject(c)
    BY <2>1, <2>3 DEF Reject
  <2> QED BY <2>2, <2>3
<1>3. /\ inv' \in [Invocations -> Invs]
      /\ \A v \in Invocations : Active(v)' => inv'[v] = inv[v] \/ Advances(v)
  <2>1. CASE At(c.by, "send")
    <3>1. \E s \in {"put", "over"} : Go(c.by, s)
      BY <2>1 DEF Execute, Reject
    <3>2. ~inv[c.by].late
      BY <1>0, <2>1 DEF IInv, AnswersAreRecorded
    <3> QED BY <1>0, <2>1, <3>1, <3>2, MoverAdvances
  <2>2. CASE ~At(c.by, "send")
    BY <2>2 DEF Execute, Reject, IInv, TypeOK, Invs
  <2> QED BY <2>1, <2>2
<1>4. TypeOK'
  BY <1>1, <1>2, <1>3 DEF IInv, TypeOK, Invs
<1>5. Monotone
  BY <1>1, <1>2 DEF Monotone, InForce
<1> QED BY <1>3, <1>4, <1>5, InvariantKept

\* Deadlines pass, authority is withdrawn.
LEMMA LossSteps ==
    ASSUME IInv, \/ \E id \in 1..MaxApprovals : PassDeadline(id)
                 \/ \E a \in valid : Withdraw(a)
    PROVE  IInv'
<1>1. /\ UNCHANGED <<deployment, inv, approvals, records, inbound, done, answered>>
      /\ UNCHANGED <<overlapped, faults>>
      /\ valid' \subseteq valid /\ overdue \subseteq overdue' /\ overdue' \subseteq DOMAIN approvals
  BY DEF PassDeadline, Withdraw, authority, Quiet, IInv, TypeOK
<1>2. TypeOK'
  BY <1>1 DEF IInv, TypeOK
<1>3. Monotone
  BY <1>1 DEF Monotone, InForce
<1>4. \A v \in Invocations : Active(v)' => inv'[v] = inv[v]
  BY <1>1
<1> QED BY <1>2, <1>3, <1>4, InvariantKept

---------------------------------------------------------------------------
(* Once per key                                                            *)

\* An invocation goes its way in a step in which nobody starts and no call
\* arrives: it moves on with its request, comes past an empty record only, and
\* leaves its call or its effect behind it only where its key is marked or
\* recorded.
Proceeds(v) ==
    /\ Active(v)' => Active(v) /\ inv'[v].request = inv[v].request
    /\ At(v, "over") => At(v, "over")'
    /\ inv'[v].step \in Acting => inv[v].step \in Acting \/ ~Request(v).dry
    /\ inv'[v].step \in Coming => \/ inv[v].step \in Coming
                                  \/ /\ At(v, "lookup") /\ records[Key(v)] = NoRequest
                                     /\ ~Request(v).dry
    /\ At(v, "send") => inv'[v] = inv[v] \/ (At(v, "over")' /\ Key(v) \in overlapped')
    /\ At(v, "put") => inv'[v] = inv[v] \/ Key(v) \in overlapped' \/ records'[Key(v)] # NoRequest

LEMMA ProceedingKeepsOnce ==
    ASSUME IInv, OnceInv, UNCHANGED <<deployment, done>>, inbound' \subseteq inbound,
           overlapped \subseteq overlapped',
           \A k \in Keys : records[k] # NoRequest => records'[k] # NoRequest,
           \A v \in Invocations : Proceeds(v)
    PROVE  OnceInv'
<1> USE DEF At, Request, Key
<1>0. \A c \in inbound : c.by \in Invocations /\ c.key \in Keys
  BY DEF IInv, TypeOK
<1>1. CallsHaveCallers'
  <2>1. \A w \in Invocations : inv'[w].step \in Acting => ~inv'[w].request.dry
    BY DEF OnceInv, CallsHaveCallers, Proceeds, Active, Acting, Coming
  <2>2. ASSUME NEW c \in inbound'
        PROVE  inv'[c.by].step = "over"
               \/ (inv'[c.by].step = "send" /\ inv'[c.by].request.key = c.key)
    BY <1>0, <2>2 DEF OnceInv, CallsHaveCallers, Proceeds
  <2> QED BY <2>1, <2>2 DEF CallsHaveCallers
<1>2. ASSUME NEW k \in Keys \ overlapped' PROVE SoleMutation(k)'
  <2>0. SoleMutation(k) /\ k \in Keys
    BY DEF OnceInv
  <2>1. ASSUME NEW v \in Invocations PROVE Mutates(v, k)' => Mutates(v, k)
    BY DEF Proceeds, Mutates
  <2>2. \A v, w \in Invocations : Mutates(v, k)' /\ Mutates(w, k)' => v = w
    BY <2>0, <2>1 DEF SoleMutation
  <2>3. ASSUME NEW c \in inbound', c.key = k PROVE inv'[c.by].step = "send"
    <3>1. inv[c.by].step = "send" /\ Key(c.by) = k
      BY <2>0, <2>3 DEF SoleMutation, OnceInv, CallsHaveCallers
    <3> QED BY <1>0, <3>1 DEF Proceeds
  <2>4. ASSUME done[k] > 0
        PROVE  records'[k] # NoRequest
               \/ \E w \in Invocations : inv'[w].step = "put" /\ inv'[w].request.key = k
    <3>1. CASE records[k] # NoRequest
      BY <2>0, <3>1
    <3>2. ASSUME NEW w \in Invocations, At(w, "put"), Key(w) = k
          PROVE  records'[k] # NoRequest
                 \/ (inv'[w].step = "put" /\ inv'[w].request.key = k)
      BY <3>2 DEF Proceeds
    <3> QED BY <2>0, <2>4, <3>1, <3>2 DEF SoleMutation
  <2>5. ASSUME NEW w \in Invocations, inv'[w].step \in Coming, inv'[w].request.key = k
        PROVE  done[k] = 0
    <3>1. Active(w) /\ Key(w) = k /\ done[k] \in Nat
      BY <2>0, <2>5 DEF Proceeds, Active, Coming, IInv, TypeOK
    <3>2. CASE inv[w].step \in Coming
      BY <2>0, <3>1, <3>2 DEF SoleMutation
    <3>3. CASE inv[w].step \notin Coming
      <4>1. ~Request(w).dry /\ records[k] = NoRequest /\ inv[w].step # "put"
        BY <2>5, <3>1, <3>3 DEF Proceeds, Coming
      <4>2. ASSUME NEW v \in Invocations, At(v, "put"), Key(v) = k PROVE FALSE
        <5>1. Mutates(v, k) /\ Mutates(w, k)
          BY <3>1, <4>1, <4>2 DEF Mutates, Active, OnceInv, CallsHaveCallers, Acting
        <5> QED BY <2>0, <4>1, <4>2, <5>1 DEF SoleMutation
      <4> QED BY <2>0, <3>1, <4>1, <4>2 DEF SoleMutation
    <3> QED BY <3>2, <3>3
  <2> QED BY <2>0, <2>2, <2>3, <2>4, <2>5 DEF SoleMutation
<1> QED BY <1>1, <1>2 DEF OnceInv

\* An invocation that starts mutates alone, or marks its key.
LEMMA StartKeepsOnce ==
    ASSUME IInv, OnceInv, NEW w \in Invocations, NEW r \in Requests, NEW id \in 0..MaxApprovals,
           Start(w, r, id)
    PROVE  OnceInv'
<1> USE DEF At, Request, Key
<1>1. /\ inv[w].step = "new" /\ UNCHANGED <<deployment, records, inbound, done>>
      /\ overlapped' = overlapped \cup (IF Concurrent(w, r) THEN {r.key} ELSE {})
      /\ r # NoRequest
  BY InvocationAssumption DEF Start, Stores, authority, Overlap
<1>2. /\ \A v \in Invocations \ {w} : inv'[v] = inv[v]
      /\ inv'[w].step = "over" \/ (inv'[w].step = "connection" /\ inv'[w].request = r)
  BY IdleTyped DEF Start, IInv, TypeOK, Running
<1>3. \A c \in inbound : c.by \in Invocations \ {w}
  BY <1>1 DEF IInv, TypeOK, OnceInv, CallsHaveCallers
<1>4. CallsHaveCallers'
  BY <1>1, <1>2, <1>3 DEF OnceInv, CallsHaveCallers, Acting, Coming
<1>5. ASSUME NEW k \in Keys \ overlapped' PROVE SoleMutation(k)'
  <2>0. SoleMutation(k)
    BY <1>1 DEF OnceInv
  <2>1. ASSUME NEW v \in Invocations \ {w} PROVE ~(Mutates(v, k)' /\ Mutates(w, k)')
    <3>1. Mutates(v, k)' <=> Active(v) /\ ~Request(v).dry /\ Key(v) = k
      BY <1>2 DEF Mutates, Active
    <3>2. Mutates(w, k)' => r.key = k /\ ~r.dry
      BY <1>2 DEF Mutates, Active
    <3> QED BY <1>1, <3>1, <3>2 DEF Concurrent
  <2>2. \A v \in Invocations \ {w} : Mutates(v, k)' => Mutates(v, k)
    BY <1>2 DEF Mutates, Active
  <2>3. \A u, v \in Invocations : Mutates(u, k)' /\ Mutates(v, k)' => u = v
    BY <2>0, <2>1, <2>2 DEF SoleMutation
  <2>4. \A c \in inbound' : c.key = k => inv'[c.by].step = "send"
    BY <1>1, <1>2, <1>3, <2>0 DEF SoleMutation
  <2>5. done[k] > 0 => \/ records[k] # NoRequest
                       \/ \E v \in Invocations : inv'[v].step = "put" /\ inv'[v].request.key = k
    BY <1>1, <1>2, <2>0 DEF SoleMutation
  <2>6. \A v \in Invocations : inv'[v].step \in Coming /\ inv'[v].request.key = k => done[k] = 0
    BY <1>2, <2>0 DEF SoleMutation, Coming
  <2> QED BY <1>1, <2>0, <2>3, <2>4, <2>5, <2>6 DEF SoleMutation
<1> QED BY <1>1, <1>4, <1>5 DEF OnceInv

\* A call is sent by an invocation that waits for it, and for the first time.
LEMMA SendKeepsOnce ==
    ASSUME IInv, OnceInv, NEW w \in Invocations, Preflight(w), inbound' # inbound
    PROVE  OnceInv'
<1> USE DEF At, Request, Key
<1> DEFINE sent == [by |-> w, key |-> Key(w)]
<1>1. /\ inv[w].step = "preflight" /\ Go(w, "send")
      /\ inbound' = inbound \cup {sent} /\ sent.by = w /\ sent.key = Key(w)
      /\ UNCHANGED <<deployment, records, done, overlapped>>
  BY DEF Preflight, Send, authority
<1> HIDE DEF sent
<1>2. /\ inv' \in [Invocations -> Invs]
      /\ \A v \in Invocations \ {w} : inv'[v] = inv[v]
      /\ inv'[w].step = "send" /\ inv'[w].request = inv[w].request
  BY <1>1, GoMoves DEF IInv, Steps
<1>3. \A c \in inbound : c.by \in Invocations \ {w}
  BY <1>1 DEF IInv, TypeOK, OnceInv, CallsHaveCallers
<1>4. CallsHaveCallers'
  <2>1. \A v \in Invocations : inv'[v].step \in Acting => ~inv'[v].request.dry
    BY <1>1, <1>2 DEF OnceInv, CallsHaveCallers, Acting, Coming
  <2>2. \A c \in inbound' : \/ inv'[c.by].step = "over"
                            \/ inv'[c.by].step = "send" /\ inv'[c.by].request.key = c.key
    BY <1>1, <1>2, <1>3 DEF OnceInv, CallsHaveCallers
  <2> QED BY <2>1, <2>2 DEF CallsHaveCallers
<1>5. ASSUME NEW k \in Keys \ overlapped' PROVE SoleMutation(k)'
  <2>0. SoleMutation(k)
    BY <1>1 DEF OnceInv
  <2>1. \A v \in Invocations : Mutates(v, k)' => Mutates(v, k)
    BY <1>1, <1>2 DEF Mutates, Active
  <2>2. \A u, v \in Invocations : Mutates(u, k)' /\ Mutates(v, k)' => u = v
    BY <2>0, <2>1 DEF SoleMutation
  <2>3. \A c \in inbound' : c.key = k => inv'[c.by].step = "send"
    BY <1>1, <1>2, <1>3, <2>0 DEF SoleMutation
  <2>4. done[k] > 0 => \/ records[k] # NoRequest
                       \/ \E v \in Invocations : inv'[v].step = "put" /\ inv'[v].request.key = k
    BY <1>1, <1>2, <2>0 DEF SoleMutation
  <2>5. \A v \in Invocations : inv'[v].step \in Coming /\ inv'[v].request.key = k => done[k] = 0
    BY <1>1, <1>2, <2>0 DEF SoleMutation, Coming
  <2> QED BY <1>1, <2>0, <2>2, <2>3, <2>4, <2>5 DEF SoleMutation
<1> QED BY <1>1, <1>4, <1>5 DEF OnceInv

\* A call arrives, or never does: it was the only one of its key.
LEMMA ArrivalKeepsOnce ==
    ASSUME IInv, OnceInv, NEW c \in inbound, Execute(c) \/ Reject(c)
    PROVE  OnceInv'
<1> USE DEF At, Request, Key
<1>1. /\ inbound' = inbound \ {c} /\ c \in [by : Invocations, key : Keys]
      /\ UNCHANGED <<deployment, records, overlapped>>
      /\ done \in [Keys -> Nat]
  BY DEF Execute, Reject, authority, IInv, TypeOK
<1>2. /\ \A v \in Invocations \ {c.by} : inv'[v] = inv[v]
      /\ inv[c.by].step # "send" => inv'[c.by] = inv[c.by]
      /\ inv[c.by].step = "send" =>
            \/ inv'[c.by].step = "over" /\ done' = done
            \/ Execute(c) /\ inv'[c.by].step = "put" /\ inv'[c.by].request = inv[c.by].request
  <2>1. CASE inv[c.by].step # "send"
    BY <2>1 DEF Execute, Reject
  <2>2. CASE inv[c.by].step = "send" /\ Execute(c)
    <3>1. Go(c.by, "put")
      BY <2>2 DEF Execute
    <3> QED BY <1>1, <2>2, <3>1, GoMoves DEF IInv, Steps
  <2>3. CASE inv[c.by].step = "send" /\ Reject(c)
    <3>1. Go(c.by, "over") /\ done' = done
      BY <2>3 DEF Reject
    <3> QED BY <1>1, <2>3, <3>1, GoMoves DEF IInv, Steps
  <2> QED BY <2>1, <2>2, <2>3
<1>3. /\ \A k \in Keys \ {c.key} : done'[k] = done[k]
      /\ done' = done \/ Execute(c)
      /\ Execute(c) => done'[c.key] = IF Duplicate(c.key) THEN done[c.key] ELSE done[c.key] + 1
  BY <1>1 DEF Execute, Reject
<1>4. CallsHaveCallers'
  <2>1. \A v \in Invocations : inv'[v].step \in Acting => ~inv'[v].request.dry
    BY <1>1, <1>2 DEF OnceInv, CallsHaveCallers, Acting, Coming
  <2>2. ASSUME NEW d \in inbound'
        PROVE  \/ inv'[d.by].step = "over"
               \/ inv'[d.by].step = "send" /\ inv'[d.by].request.key = d.key
    <3>1. /\ d \in inbound /\ d # c /\ d \in [by : Invocations, key : Keys]
          /\ inv[d.by].step = "over" \/ (inv[d.by].step = "send" /\ Key(d.by) = d.key)
      BY <1>1, <2>2 DEF OnceInv, CallsHaveCallers, IInv, TypeOK
    <3>2. d.by = c.by => inv[c.by].step = "over"
      BY <1>1, <3>1 DEF OnceInv, CallsHaveCallers
    <3> QED BY <1>1, <1>2, <3>1, <3>2
  <2> QED BY <2>1, <2>2 DEF CallsHaveCallers
<1>5. ASSUME NEW k \in Keys \ overlapped' PROVE SoleMutation(k)'
  <2>0. SoleMutation(k) /\ done[k] \in Nat
    BY <1>1 DEF OnceInv
  <2>1. \A v \in Invocations : Mutates(v, k)' => Mutates(v, k)
    BY <1>1, <1>2 DEF Mutates, Active
  <2>2. \A u, v \in Invocations : Mutates(u, k)' /\ Mutates(v, k)' => u = v
    BY <2>0, <2>1 DEF SoleMutation
  <2>3. ASSUME c.key = k
        PROVE  /\ inv[c.by].step = "send" /\ Key(c.by) = k /\ Mutates(c.by, k)
               /\ done[k] = 0 /\ done'[k] <= 1
    <3>1. inv[c.by].step = "send" /\ Key(c.by) = k
      BY <2>0, <2>3 DEF SoleMutation, OnceInv, CallsHaveCallers
    <3>2. Mutates(c.by, k) /\ done[k] = 0
      BY <1>1, <2>0, <3>1
         DEF Mutates, Active, OnceInv, CallsHaveCallers, SoleMutation, Acting, Coming
    <3> QED BY <1>3, <2>3, <3>1, <3>2
  <2>4. ASSUME NEW d \in inbound', d.key = k PROVE inv'[d.by].step = "send"
    <3>1. d \in inbound /\ d # c /\ d \in [by : Invocations, key : Keys] /\ inv[d.by].step = "send"
      BY <1>1, <2>0, <2>4 DEF SoleMutation, IInv, TypeOK
    <3>2. d.by # c.by
      BY <1>1, <2>4, <3>1 DEF OnceInv, CallsHaveCallers
    <3> QED BY <1>2, <3>1, <3>2
  <2>5. ASSUME done'[k] > 0
        PROVE  \/ records[k] # NoRequest
               \/ \E v \in Invocations : inv'[v].step = "put" /\ inv'[v].request.key = k
    <3>1. CASE c.key = k
      BY <1>1, <1>2, <2>3, <2>5, <3>1
    <3>2. CASE c.key # k
      <4>1. done[k] > 0
        BY <1>3, <2>5, <3>2
      <4>2. CASE records[k] # NoRequest
        BY <4>2
      <4>3. ASSUME NEW v \in Invocations, inv[v].step = "put", Key(v) = k
            PROVE  inv'[v] = inv[v]
        BY <1>2, <4>3
      <4> QED BY <2>0, <4>1, <4>2, <4>3 DEF SoleMutation
    <3> QED BY <3>1, <3>2
  <2>6. ASSUME NEW v \in Invocations, inv'[v].step \in Coming, inv'[v].request.key = k
        PROVE  done'[k] = 0
    <3>1. inv'[v] = inv[v]
      BY <1>2, <2>6 DEF Coming
    <3>2. c.key # k
      <4>1. SUFFICES ASSUME c.key = k PROVE FALSE
        OBVIOUS
      <4>2. Mutates(v, k)
        BY <2>6, <3>1 DEF Mutates, Active, OnceInv, CallsHaveCallers, Acting, Coming
      <4>3. v = c.by
        BY <1>1, <2>0, <2>3, <4>1, <4>2 DEF SoleMutation
      <4>4. done' = done
        BY <1>2, <2>3, <2>6, <3>1, <4>1, <4>3
      <4>5. inv'[v].step # "send"
        BY <1>2, <2>3, <4>1, <4>3
      <4> QED BY <2>3, <3>1, <4>1, <4>3, <4>5
    <3> QED BY <1>3, <2>0, <2>6, <3>1, <3>2 DEF SoleMutation
  <2>7. done'[k] <= 1
    BY <1>3, <2>0, <2>3 DEF SoleMutation
  <2> QED BY <1>1, <2>2, <2>4, <2>5, <2>6, <2>7 DEF SoleMutation
<1>6. deployment'.adapter = "google" => \A k \in Keys : done'[k] <= 1
  BY <1>1, <1>3 DEF OnceInv, Duplicate
<1> QED BY <1>4, <1>5, <1>6 DEF OnceInv

\* One invocation that moves to s proceeds, if this is a way to go.
LEMMA MoverProceeds ==
    ASSUME IInv, NEW w \in Invocations, NEW s \in Steps, Go(w, s), Active(w),
           s \notin {"new", "send"},
           s \in Acting => \/ inv[w].step \in Acting
                           \/ /\ At(w, "lookup") /\ records[Key(w)] = NoRequest /\ ~Request(w).dry,
           s \in Coming => inv[w].step \in Coming \cup {"lookup"},
           At(w, "send") => s = "over" /\ Key(w) \in overlapped',
           At(w, "put") => Key(w) \in overlapped' \/ records'[Key(w)] # NoRequest
    PROVE  \A v \in Invocations : Proceeds(v)
<1>1. /\ \A v \in Invocations \ {w} : inv'[v] = inv[v]
      /\ inv'[w].step = s
      /\ s # "over" => inv'[w].request = inv[w].request
  BY GoMoves DEF IInv
<1>2. \A v \in Invocations \ {w} : Proceeds(v)
  BY <1>1 DEF Proceeds, Active, At, Acting
<1>3. Proceeds(w)
  BY <1>1 DEF Proceeds, Active, At, Acting, Coming, Request
<1> QED BY <1>2, <1>3

\* The steps of an invocation between its start and its call, and after it.
LEMMA MovesKeepOnce ==
    ASSUME IInv, OnceInv, NEW w \in Invocations,
           \/ ReadConnection(w) \/ LookUp(w) \/ RateLimit(w) \/ FindApproved(w) \/ Decide(w)
           \/ DryRun(w) \/ ExpireApproval(w) \/ AskApproval(w)
           \/ Preflight(w) /\ inbound' = inbound
           \/ WriteRecord(w) \/ Audit(w) \/ GiveUp(w) \/ Fails(w)
    PROVE  OnceInv'
<1> USE DEF Active, At, Steps, Coming, Acting
<1>0. /\ Active(w) /\ Request(w) # NoRequest /\ Key(w) \in Keys
      /\ records \in [Keys -> Requests \cup {NoRequest}]
  BY RequestTyped
     DEF ReadConnection, LookUp, RateLimit, FindApproved, Decide, DryRun, ExpireApproval,
         AskApproval, Preflight, WriteRecord, Audit, GiveUp, Fails, IInv, TypeOK
<1>1. /\ UNCHANGED <<deployment, done, inbound>>
      /\ overlapped \subseteq overlapped'
      /\ \A k \in Keys : records[k] # NoRequest => records'[k] # NoRequest
  <2>1. CASE DryRun(w) \/ WriteRecord(w)
    BY <1>0, <2>1 DEF DryRun, WriteRecord, authority
  <2>2. CASE ~(DryRun(w) \/ WriteRecord(w))
    BY <2>2 DEF ReadConnection, LookUp, RateLimit, FindApproved, Decide, ExpireApproval,
         AskApproval, Preflight, Audit, GiveUp, Fails, Local, Stores, Overlap, authority
  <2> QED BY <2>1, <2>2
<1>2. \A v \in Invocations : Proceeds(v)
  <2>1. CASE ReadConnection(w)
    <3>1. \E s \in {"lookup", "over"} : Go(w, s) /\ At(w, "connection")
      BY <2>1 DEF ReadConnection
    <3> QED BY <1>0, <3>1, MoverProceeds
  <2>2. CASE LookUp(w)
    <3>1. \E s \in {"over", "dry", "limit"} :
             /\ Go(w, s) /\ At(w, "lookup")
             /\ s = "limit" => records[Key(w)] = NoRequest /\ ~Request(w).dry
      BY <2>2 DEF LookUp
    <3> QED BY <1>0, <3>1, MoverProceeds
  <2>3. CASE RateLimit(w)
    <3>1. \E s \in {"approval", "over"} : Go(w, s) /\ At(w, "limit")
      BY <2>3 DEF RateLimit
    <3> QED BY <1>0, <3>1, MoverProceeds
  <2>4. CASE FindApproved(w) \/ Decide(w)
    <3>1. \E s \in {"preflight", "expire", "policy", "over", "ask"} :
             Go(w, s) /\ inv[w].step \in {"approval", "policy"}
      BY <2>4 DEF FindApproved, Decide
    <3> QED BY <1>0, <3>1, MoverProceeds
  <2>5. CASE DryRun(w) \/ AskApproval(w) \/ Audit(w)
    <3>1. Go(w, "over") /\ inv[w].step \in {"dry", "ask", "audit"}
      BY <2>5 DEF DryRun, AskApproval, Audit
    <3> QED BY <1>0, <3>1, MoverProceeds
  <2>6. CASE ExpireApproval(w)
    <3>1. Go(w, "policy") /\ At(w, "expire")
      BY <2>6 DEF ExpireApproval
    <3> QED BY <1>0, <3>1, MoverProceeds
  <2>7. CASE Preflight(w) /\ inbound' = inbound
    <3>1. At(w, "preflight")
      BY <2>7 DEF Preflight
    <3>2. CASE Go(w, "over")
      BY <1>0, <3>1, <3>2, MoverProceeds
    <3>3. CASE Send(w)
      <4>1. [by |-> w, key |-> Key(w)] \in inbound
        BY <2>7, <3>3 DEF Send
      <4> QED BY <3>1, <4>1 DEF OnceInv, CallsHaveCallers
    <3> QED BY <2>7, <3>2, <3>3 DEF Preflight
  <2>8. CASE WriteRecord(w)
    <3>1. Go(w, "audit") /\ At(w, "put") /\ records'[Key(w)] # NoRequest
      BY <1>0, <2>8 DEF WriteRecord
    <3> QED BY <1>0, <3>1, MoverProceeds
  <2>9. CASE GiveUp(w)
    <3>1. Go(w, "over") /\ At(w, "send") /\ Key(w) \in overlapped'
      BY <2>9 DEF GiveUp, Overlap
    <3> QED BY <1>0, <3>1, MoverProceeds
  <2>10. CASE Fails(w)
    <3>1. Go(w, "over") /\ ~At(w, "send") /\ (At(w, "put") => Key(w) \in overlapped')
      BY <2>10 DEF Fails, Overlap
    <3> QED BY <1>0, <3>1, MoverProceeds
  <2> QED BY <2>1, <2>2, <2>3, <2>4, <2>5, <2>6, <2>7, <2>8, <2>9, <2>10
<1> QED BY <1>1, <1>2, ProceedingKeepsOnce

\* Steps that touch no invocation, no key and no call.
LEMMA OthersKeepOnce ==
    ASSUME IInv, OnceInv,
           \/ \E id \in 1..MaxApprovals, verdict \in {"approved", "denied"} : Resolve(id, verdict)
           \/ \E id \in 1..MaxApprovals : PassDeadline(id)
           \/ \E a \in valid : Withdraw(a)
           \/ UNCHANGED vars
    PROVE  OnceInv'
<1>1. UNCHANGED <<deployment, records, inbound, done, overlapped>>
  BY DEF Resolve, PassDeadline, Withdraw, vars, authority
<1>2. \A v \in Invocations : inv'[v].step = inv[v].step /\ inv'[v].request = inv[v].request
  <2>1. CASE UNCHANGED inv
    BY <2>1
  <2>2. ASSUME NEW id \in 1..MaxApprovals, NEW verdict \in {"approved", "denied"},
               Resolve(id, verdict), NEW v \in Invocations
        PROVE  inv'[v].step = inv[v].step /\ inv'[v].request = inv[v].request
    <3>1. inv[v] \in Invs
      BY DEF IInv, TypeOK, Invs
    <3>2. inv'[v] = inv[v] \/ inv'[v] = [inv[v] EXCEPT !.lawful = @ \cup {"approval"}]
      BY <2>2 DEF Resolve
    <3> QED BY <3>1, <3>2 DEF Invs
  <2> QED BY <2>1, <2>2 DEF PassDeadline, Withdraw, vars
<1>3. \A c \in inbound : c.by \in Invocations
  BY DEF IInv, TypeOK
<1>4. CallsHaveCallers'
  BY <1>1, <1>2, <1>3 DEF OnceInv, CallsHaveCallers, At, Request, Key
<1>5. ASSUME NEW k \in Keys \ overlapped PROVE SoleMutation(k)'
  <2>1. \A v \in Invocations : Mutates(v, k)' <=> Mutates(v, k)
    BY <1>2 DEF Mutates, Active, Request, Key
  <2>2. \A v, w \in Invocations : Mutates(v, k)' /\ Mutates(w, k)' => v = w
    BY <2>1 DEF OnceInv, SoleMutation
  <2> QED BY <1>1, <1>2, <1>3, <2>2 DEF OnceInv, SoleMutation, At, Request, Key
<1> QED BY <1>1, <1>4, <1>5 DEF OnceInv

---------------------------------------------------------------------------
(* The theorems                                                            *)

LEMMA InvariantInit == Init => IInv
<1> SUFFICES ASSUME Init PROVE IInv
  OBVIOUS
<1>1. Idle("new") \in Invs /\ Idle("new").step = "new"
  BY InvocationAssumption DEF Idle, Running, Invs, Steps
<1>2. inv \in [Invocations -> Invs] /\ \A w \in Invocations : ~Active(w)
  BY <1>1 DEF Init, Active
<1>3. approvals \in Seq([input : Inputs, status : Statuses]) /\ overdue \subseteq DOMAIN approvals
  BY DEF Init
<1>4. TypeOK
  BY <1>2, <1>3, InvocationAssumption DEF Init, TypeOK, Invs
<1> QED BY <1>2, <1>4 DEF IInv, HoldsAuthority, HoldsApproval, AnswersAreRecorded, Init

LEMMA InvariantStep == IInv /\ [Next]_vars => IInv'
<1> SUFFICES ASSUME IInv, [Next]_vars PROVE IInv'
  OBVIOUS
<1>1. ASSUME NEW w \in Invocations, NEW r \in Requests, NEW id \in 0..MaxApprovals, Start(w, r, id)
      PROVE  IInv'
  BY <1>1, StartStep
<1>2. ASSUME NEW w \in Invocations,
             \/ ReadConnection(w) \/ LookUp(w) \/ RateLimit(w) \/ FindApproved(w) \/ Decide(w)
             \/ GiveUp(w) \/ Fails(w)
      PROVE  IInv'
  BY <1>2, LocalSteps
<1>3. ASSUME NEW w \in Invocations,
             \/ DryRun(w) \/ ExpireApproval(w) \/ AskApproval(w) \/ Preflight(w)
             \/ WriteRecord(w) \/ Audit(w)
      PROVE  IInv'
  BY <1>3, StoreSteps
<1>4. ASSUME NEW c \in inbound, Execute(c) \/ Reject(c)
      PROVE  IInv'
  BY <1>4, UpstreamSteps
<1>5. ASSUME NEW id \in 1..MaxApprovals, NEW verdict \in {"approved", "denied"},
             Resolve(id, verdict)
      PROVE  IInv'
  BY <1>5, ResolveStep
<1>6. CASE \/ \E id \in 1..MaxApprovals : PassDeadline(id)
           \/ \E a \in valid : Withdraw(a)
  BY <1>6, LossSteps
<1>7. CASE UNCHANGED vars
  BY <1>7 DEF vars, authority, IInv, TypeOK, HoldsAuthority, HoldsApproval, AnswersAreRecorded,
              Active, At, Request, Given, Key, InForce
<1> QED BY <1>1, <1>2, <1>3, <1>4, <1>5, <1>6, <1>7 DEF Next, Invoke

LEMMA Invariance == Spec => []IInv
<1> QED BY InvariantInit, InvariantStep, PTL DEF Spec

\* Nothing is done at first.
LEMMA OnceInit == Init => OnceInv
<1> SUFFICES ASSUME Init PROVE OnceInv
  OBVIOUS
<1>1. \A w \in Invocations : inv[w].step = "new"
  BY DEF Init, Idle, Running
<1> QED BY <1>1 DEF Init, OnceInv, CallsHaveCallers, SoleMutation, Mutates, Active, At, Coming,
                    Acting

\* No step executes the mutation of an unmarked key again.
LEMMA OnceStep == IInv /\ OnceInv /\ [Next]_vars => OnceInv'
<1> SUFFICES ASSUME IInv, OnceInv, [Next]_vars PROVE OnceInv'
  OBVIOUS
<1>1. ASSUME NEW w \in Invocations, Invoke(w) \/ GiveUp(w) \/ Fails(w)
      PROVE  OnceInv'
  <2>1. CASE \E r \in Requests, id \in 0..MaxApprovals : Start(w, r, id)
    BY <2>1, StartKeepsOnce
  <2>2. CASE Preflight(w) /\ inbound' # inbound
    BY <2>2, SendKeepsOnce
  <2>3. CASE \/ ReadConnection(w) \/ LookUp(w) \/ RateLimit(w) \/ FindApproved(w) \/ Decide(w)
             \/ DryRun(w) \/ ExpireApproval(w) \/ AskApproval(w)
             \/ Preflight(w) /\ inbound' = inbound
             \/ WriteRecord(w) \/ Audit(w) \/ GiveUp(w) \/ Fails(w)
    BY <2>3, MovesKeepOnce
  <2> QED BY <1>1, <2>1, <2>2, <2>3 DEF Invoke
<1>2. ASSUME NEW c \in inbound, Execute(c) \/ Reject(c)
      PROVE  OnceInv'
  BY <1>2, ArrivalKeepsOnce
<1>3. CASE \/ \E id \in 1..MaxApprovals, verdict \in {"approved", "denied"} : Resolve(id, verdict)
           \/ \E id \in 1..MaxApprovals : PassDeadline(id)
           \/ \E a \in valid : Withdraw(a)
           \/ UNCHANGED vars
  BY <1>3, OthersKeepOnce
<1> QED BY <1>1, <1>2, <1>3 DEF Next

\* The stores and invocations keep their types, whatever overlaps: every
\* approval that is named exists, every record belongs to a request.
THEOREM InvocationTypeCorrect == Spec => []TypeOK
<1>1. IInv => TypeOK
  BY DEF IInv
<1> QED BY <1>1, Invariance, PTL

\* WithdrawnAuthorityHasNoEffect, for the awaits of invokeWithCapability, of
\* the guard and of the approval engine in any order.
THEOREM WithdrawnAuthority == Spec => WithdrawnAuthorityHasNoEffect
<1>1. IInv => \A w \in Invocations : Sends(w) =>
                 /\ {"capability", "connection"} \subseteq inv[w].lawful
                 /\ deployment.policy # "allow" => "approval" \in inv[w].lawful
  BY DEF IInv, HoldsAuthority, HoldsApproval, Active, At, Sends
<1> QED BY <1>1, Invariance, PTL DEF WithdrawnAuthorityHasNoEffect

\* AnsweredIsNotRepeated, though the guard reads and writes its record in
\* separate awaits.
THEOREM AnsweredOnce == Spec => AnsweredIsNotRepeated
<1>1. IInv => \A w \in Invocations : Sends(w) => ~inv[w].late
  BY DEF IInv, AnswersAreRecorded, Active, At, Sends
<1> QED BY <1>1, Invariance, PTL DEF AnsweredIsNotRepeated

\* DoneOnce, though lookup, effect and record are awaits apart: a mutation is
\* executed twice only under a key of overlapping invocations or one that was
\* lost before its record, and never by an upstream that knows the key.
THEOREM DoneOncePerKey == Spec => []DoneOnce
<1>1. IInv /\ OnceInv => DoneOnce
  BY DEF IInv, TypeOK, OnceInv, SoleMutation, DoneOnce
<1> QED BY <1>1, Invariance, OnceInit, OnceStep, PTL DEF Spec
=============================================================================
