--------------------------- MODULE ClaimJournal ---------------------------
(***************************************************************************)
(* FileSystemAtomicIdempotencyStore (src/idempotency.ts): a durable,       *)
(* append-only claim journal shared by every process that may receive the  *)
(* same event.  Keys never share a file, so one key is modelled.           *)
(*                                                                         *)
(* A journal node is a file.  The path of a node is derived from the token *)
(* of the node before it, and it is created with a hard link, which fails  *)
(* when the path exists: the node at position n + 1 can be created only    *)
(* while position n is the last one.  A node's token is its position, and  *)
(* the random token of an owner is <<caller, position of its first claim>>:*)
(* a caller wins a position at most once, and a token whose link lost is   *)
(* thrown away.                                                            *)
(*                                                                         *)
(* Every await of the code ends a step: between two steps of one call the  *)
(* other calls of the process, its heartbeats and the other processes run. *)
(***************************************************************************)
EXTENDS Naturals, Sequences

CONSTANTS
    Procs,      \* store instances: one per process
    Callers,    \* concurrent requests that claim the key
    Home,       \* Home[c]: the process request c runs in
    Lease,      \* processingLeaseMs
    Ttl,        \* the ttlMs callers pass to claimStatus
    MaxDepth,   \* MAX_CLAIM_CHAIN_DEPTH (100_000 in the code)
    LegacyStamps, \* expiresAt of the version-1 records a start may find
    MaxTime,    \* bound: the clock stops here
    MaxCrashes  \* bound: number of process crashes

ASSUME ConstantsAssumption ==
    /\ Home \in [Callers -> Procs]
    /\ Lease \in Nat \ {0}
    /\ Ttl \in Nat \ {0}
    /\ MaxDepth \in Nat \ {0}
    /\ LegacyStamps \subseteq Nat
    /\ MaxTime \in Nat
    /\ MaxCrashes \in Nat

VARIABLES
    journal,    \* the linked files of the key, oldest first
    now,        \* Date.now(), one clock for all processes
    owners,     \* owners[p]: the entry of the key in the owners map of p
    step,       \* step[c]: where request c stands
    mine,       \* mine[c]: the owner token request c acquired
    told,       \* told[c]: the result request c last acted on
    seen,       \* seen[c]: the position readHead returned to c, 0 for null
    draft,      \* draft[c]: the node c is about to link after that position
    renewals,   \* the renewOwnership calls that have started and not ended
    crashes

locals == <<step, mine, told, seen, draft>>
vars == <<journal, now, owners, locals, renewals, crashes>>

Tokens == Callers \X (Nat \ {0})
NoToken == <<>>

Kinds == {"legacy", "claim", "completed", "available"}
Nodes == [kind : Kinds, owner : Tokens \cup {NoToken}, expiresAt : Nat]
Node(kind, token, stamp) == [kind |-> kind, owner |-> token, expiresAt |-> stamp]
NoDraft == Node("legacy", NoToken, 0)

\* LocalClaimOwner; its `renewing` flag is RenewalOf(p, token) # {}.
LocalOwners == [token : Tokens, closing : BOOLEAN, timer : BOOLEAN]
Owner(token, closing, timer) ==
    [token |-> token, closing |-> closing, timer |-> timer]
NoOwner == Owner(NoToken, FALSE, FALSE)

Renewals == [proc : Procs, token : Tokens, step : {"read", "link"},
             seen : Nat, expiresAt : Nat]
Renewal(p, token, at, n, stamp) ==
    [proc |-> p, token |-> token, step |-> at, seen |-> n, expiresAt |-> stamp]

\* Where a request stands: calling claimStatus (claim*), holding a claim
\* (working), calling complete or release (end*), or about to release after
\* complete threw (giveup), as WebhookRouter.deliverEach does.
LinkingSteps == {"claimLink", "claimSync"}
EndingSteps == {"endRead", "endLink", "endSync"}
HoldingSteps == {"working", "giveup"} \cup EndingSteps
Steps == {"idle", "claimRead", "claimDecide"} \cup LinkingSteps \cup HoldingSteps

\* The results a request acts on: claimStatus answered 'completed' (the event
\* is acknowledged as a replay), or complete returned.  Any other is "none".
Answers == {"none", "completed", "complete_ok"}

\* Request c moves: its step, token, last result, head and draft.
Become(c, s, token, result, n, node) ==
    /\ step' = [step EXCEPT ![c] = s]
    /\ mine' = [mine EXCEPT ![c] = token]
    /\ told' = [told EXCEPT ![c] = result]
    /\ seen' = [seen EXCEPT ![c] = n]
    /\ draft' = [draft EXCEPT ![c] = node]

BecomeIdle(c, token, result) == Become(c, "idle", token, result, 0, NoDraft)

---------------------------------------------------------------------------
(* The files                                                               *)

HeadNode == journal[Len(journal)]

\* Fault: no depth limit on the walk.
ReadableAlways == TRUE

\* readHead walks the chain; it throws once the chain outgrew MaxDepth.
\* Nodes are never rewritten, so the walk returns the head of the moment its
\* last read found no file.
Readable == Len(journal) <= MaxDepth

\* fs.link onto the successor path of the node at position n.
Link(n, node) ==
    /\ Len(journal) = n
    /\ journal' = Append(journal, node)

LinkLost(n) == Len(journal) # n

\* Faults: any claim will do; or any node of the owner.
OwnsHeadAnyOwner(token) == Len(journal) > 0 /\ HeadNode.kind = "claim"
OwnsHeadAnyKind(token) == Len(journal) > 0 /\ HeadNode.owner = token

\* The head is a claim that `token` may renew, complete or release.
OwnsHead(token) ==
    /\ Len(journal) > 0
    /\ HeadNode.kind = "claim"
    /\ HeadNode.owner = token

---------------------------------------------------------------------------
(* claimStatus                                                             *)

\* `if (this.owners.has(key)) return 'in_progress'`, then ensureRoot.
ClaimRefused(c) ==
    /\ step[c] = "idle"
    /\ owners[Home[c]] # NoOwner
    /\ BecomeIdle(c, NoToken, "none")
    /\ UNCHANGED <<journal, now, owners, renewals, crashes>>

ClaimStart(c) ==
    /\ step[c] = "idle"
    /\ owners[Home[c]] = NoOwner
    /\ Become(c, "claimRead", NoToken, "none", 0, NoDraft)
    /\ UNCHANGED <<journal, now, owners, renewals, crashes>>

ClaimReadHead(c) ==
    /\ step[c] = "claimRead"
    /\ Readable
    /\ Become(c, "claimDecide", NoToken, "none", Len(journal), NoDraft)
    /\ UNCHANGED <<journal, now, owners, renewals, crashes>>

\* Faults: the lease of a claim, the ttl of a completion is not looked at; a
\* version-1 record counts as completed work.
StatusIgnoresLease(n, t) ==
    IF n = 0 \/ journal[n].expiresAt <= t \/ journal[n].kind # "completed"
    THEN "acquired" ELSE "completed"

StatusIgnoresCompletion(n, t) ==
    IF n = 0 \/ journal[n].expiresAt <= t \/ journal[n].kind # "claim"
    THEN "acquired" ELSE "in_progress"

StatusTrustsLegacy(n, t) ==
    IF n = 0 \/ journal[n].expiresAt <= t \/ journal[n].kind = "available"
    THEN "acquired"
    ELSE IF journal[n].kind = "claim" THEN "in_progress" ELSE "completed"

\* The answer the node at position n gives at time t; "acquired" if its
\* successor wins the link.
StatusOf(n, t) ==
    IF n = 0 \/ journal[n].expiresAt <= t \/ journal[n].kind = "available"
    THEN "acquired"
    ELSE IF journal[n].kind = "completed" THEN "completed" ELSE "in_progress"

ClaimAnswered(c) ==
    /\ step[c] = "claimDecide"
    /\ StatusOf(seen[c], now) # "acquired"
    /\ BecomeIdle(c, NoToken,
          IF StatusOf(seen[c], now) = "completed" THEN "completed" ELSE "none")
    /\ UNCHANGED <<journal, now, owners, renewals, crashes>>

\* claimNode with a random owner token, stamped with the clock just read.
ClaimDecide(c) ==
    /\ step[c] = "claimDecide"
    /\ StatusOf(seen[c], now) = "acquired"
    /\ LET token == <<c, seen[c] + 1>> IN
       Become(c, "claimLink", token, "none", seen[c], Node("claim", token, now + Lease))
    /\ UNCHANGED <<journal, now, owners, renewals, crashes>>

\* writeExclusive returned false: read the head again.
ClaimLinkLost(c) ==
    /\ step[c] = "claimLink"
    /\ LinkLost(seen[c])
    /\ Become(c, "claimRead", NoToken, "none", 0, NoDraft)
    /\ UNCHANGED <<journal, now, owners, renewals, crashes>>

\* The link is on disk; syncDirectory is still awaited.
ClaimLinkWon(c) ==
    /\ step[c] = "claimLink"
    /\ Link(seen[c], draft[c])
    /\ Become(c, "claimSync", mine[c], "none", 0, NoDraft)
    /\ UNCHANGED <<now, owners, renewals, crashes>>

\* startOwnership: replaces whatever entry the map holds by now.
ClaimAcquired(c) ==
    /\ step[c] = "claimSync"
    /\ owners' = [owners EXCEPT ![Home[c]] = Owner(mine[c], FALSE, TRUE)]
    /\ Become(c, "working", mine[c], "none", 0, NoDraft)
    /\ UNCHANGED <<journal, now, renewals, crashes>>

\* A read, write, link or directory sync throws, or the chain is too deep.
\* After the link the claim stays on disk with nobody to renew it.
ClaimFails(c) ==
    /\ step[c] \in {"claimRead"} \cup LinkingSteps
    /\ BecomeIdle(c, NoToken, "none")
    /\ UNCHANGED <<journal, now, owners, renewals, crashes>>

---------------------------------------------------------------------------
(* complete and release: transitionOwned                                   *)

\* complete or release returns to request c, or throws; a request goes on to
\* release after complete threw.
Returns(c, kind) ==
    IF kind = "completed"
    THEN BecomeIdle(c, mine[c], "complete_ok")
    ELSE BecomeIdle(c, NoToken, "none")

\* Fault: complete swallows the loss of its ownership.
ThrowsNothing(c, kind) == Returns(c, kind)

Throws(c, kind) ==
    IF kind = "completed"
    THEN Become(c, "giveup", mine[c], "none", 0, NoDraft)
    ELSE BecomeIdle(c, NoToken, "none")

\* Called by the request that works, or to release after complete threw.
MayEnd(c, kind) ==
    \/ step[c] = "working"
    \/ step[c] = "giveup" /\ kind = "available"

\* With no entry in the owners map both just return.
EndNothing(c, kind) ==
    /\ MayEnd(c, kind)
    /\ owners[Home[c]] = NoOwner
    /\ Returns(c, kind)
    /\ UNCHANGED <<journal, now, owners, renewals, crashes>>

\* Whoever put the entry there becomes the local `owner`; its heartbeat stops.
EndStart(c, kind) ==
    /\ MayEnd(c, kind)
    /\ owners[Home[c]] # NoOwner
    /\ owners' = [owners EXCEPT ![Home[c]] = Owner(@.token, TRUE, FALSE)]
    /\ Become(c, "endRead", mine[c], "none", 0, Node(kind, owners[Home[c]].token, 0))
    /\ UNCHANGED <<journal, now, renewals, crashes>>

\* The head is still a claim of the local `owner`: build its successor.
EndReadHead(c) ==
    /\ step[c] = "endRead"
    /\ Readable
    /\ OwnsHead(draft[c].owner)
    /\ LET stamp == IF draft[c].kind = "completed" THEN now + Ttl ELSE 0 IN
       Become(c, "endLink", mine[c], "none", Len(journal),
              Node(draft[c].kind, draft[c].owner, stamp))
    /\ UNCHANGED <<journal, now, owners, renewals, crashes>>

\* The head is not: drop the map entry, whosever it is.  complete throws
\* 'ownership was lost before completion', release returns.
EndOwnershipLost(c) ==
    /\ step[c] = "endRead"
    /\ Readable
    /\ ~OwnsHead(draft[c].owner)
    /\ owners' = [owners EXCEPT ![Home[c]] = NoOwner]
    /\ Throws(c, draft[c].kind)
    /\ UNCHANGED <<journal, now, renewals, crashes>>

EndLinkLost(c) ==
    /\ step[c] = "endLink"
    /\ LinkLost(seen[c])
    /\ Become(c, "endRead", mine[c], "none", 0, Node(draft[c].kind, draft[c].owner, 0))
    /\ UNCHANGED <<journal, now, owners, renewals, crashes>>

EndLinkWon(c) ==
    /\ step[c] = "endLink"
    /\ Link(seen[c], draft[c])
    /\ Become(c, "endSync", mine[c], "none", 0, Node(draft[c].kind, draft[c].owner, 0))
    /\ UNCHANGED <<now, owners, renewals, crashes>>

EndDone(c) ==
    /\ step[c] = "endSync"
    /\ owners' = [owners EXCEPT ![Home[c]] = NoOwner]
    /\ Returns(c, draft[c].kind)
    /\ UNCHANGED <<journal, now, renewals, crashes>>

\* Fault: the heartbeat is rescheduled without `owners.get(key) === owner`.
CatchUnchecked(entry, node) ==
    IF node.kind = "available" THEN NoOwner ELSE Owner(entry.token, FALSE, TRUE)

\* The catch block: release forgets its owner, complete resumes renewing it.
Catch(entry, node) ==
    CASE entry.token # node.owner  -> entry
      [] entry.token = node.owner /\ node.kind = "available" -> NoOwner
      [] OTHER -> Owner(entry.token, FALSE, TRUE)

EndFails(c) ==
    /\ step[c] \in EndingSteps
    /\ owners' = [owners EXCEPT ![Home[c]] = Catch(@, draft[c])]
    /\ Throws(c, draft[c].kind)
    /\ UNCHANGED <<journal, now, renewals, crashes>>

---------------------------------------------------------------------------
(* The heartbeat: renewOwnership                                           *)

RenewalOf(p, token) == {r \in renewals : r.proc = p /\ r.token = token}

\* The interval fires for the owner object the map still holds.
RenewStart(p) ==
    /\ owners[p] # NoOwner
    /\ owners[p].timer
    /\ ~owners[p].closing
    /\ RenewalOf(p, owners[p].token) = {}
    /\ renewals' = renewals \cup {Renewal(p, owners[p].token, "read", 0, 0)}
    /\ UNCHANGED <<journal, now, owners, locals, crashes>>

RenewReadHead(r) ==
    /\ r.step = "read"
    /\ Readable
    /\ OwnsHead(r.token)
    /\ renewals' = (renewals \ {r}) \cup
          {Renewal(r.proc, r.token, "link", Len(journal), now + Lease)}
    /\ UNCHANGED <<journal, now, owners, locals, crashes>>

\* Not the owner any more: stopHeartbeat on this owner object.
RenewOwnershipLost(r) ==
    /\ r.step = "read"
    /\ Readable
    /\ ~OwnsHead(r.token)
    /\ renewals' = renewals \ {r}
    /\ owners' = [owners EXCEPT ![r.proc] =
          IF @.token = r.token THEN Owner(@.token, @.closing, FALSE) ELSE @]
    /\ UNCHANGED <<journal, now, locals, crashes>>

\* The loop goes on only while the owner is in the map and not closing.
RenewLinkLost(r) ==
    /\ r.step = "link"
    /\ LinkLost(r.seen)
    /\ renewals' = (renewals \ {r}) \cup
          (IF owners[r.proc].token = r.token /\ ~owners[r.proc].closing
           THEN {Renewal(r.proc, r.token, "read", 0, 0)} ELSE {})
    /\ UNCHANGED <<journal, now, owners, locals, crashes>>

RenewLinkWon(r) ==
    /\ r.step = "link"
    /\ Link(r.seen, Node("claim", r.token, r.expiresAt))
    /\ renewals' = renewals \ {r}
    /\ UNCHANGED <<now, owners, locals, crashes>>

\* An I/O error or a chain that is too deep ends the renewal; the interval
\* stays.
RenewFails(r) ==
    /\ renewals' = renewals \ {r}
    /\ UNCHANGED <<journal, now, owners, locals, crashes>>

---------------------------------------------------------------------------
(* The environment                                                         *)

\* A process dies and restarts: its map, calls and timers are gone.
Crash(p) ==
    /\ crashes < MaxCrashes
    /\ crashes' = crashes + 1
    /\ owners' = [owners EXCEPT ![p] = NoOwner]
    /\ step' = [c \in Callers |-> IF Home[c] = p THEN "idle" ELSE step[c]]
    /\ mine' = [c \in Callers |-> IF Home[c] = p THEN NoToken ELSE mine[c]]
    /\ told' = [c \in Callers |-> IF Home[c] = p THEN "none" ELSE told[c]]
    /\ seen' = [c \in Callers |-> IF Home[c] = p THEN 0 ELSE seen[c]]
    /\ draft' = [c \in Callers |-> IF Home[c] = p THEN NoDraft ELSE draft[c]]
    /\ renewals' = {r \in renewals : r.proc # p}
    /\ UNCHANGED <<journal, now>>

Tick ==
    /\ now < MaxTime
    /\ now' = now + 1
    /\ UNCHANGED <<journal, owners, locals, renewals, crashes>>

---------------------------------------------------------------------------
\* An empty directory, or one where a version-1 process left its record.
Init ==
    /\ journal \in {<<>>} \cup {<<Node("legacy", NoToken, e)>> : e \in LegacyStamps}
    /\ now = 0
    /\ owners = [p \in Procs |-> NoOwner]
    /\ step = [c \in Callers |-> "idle"]
    /\ mine = [c \in Callers |-> NoToken]
    /\ told = [c \in Callers |-> "none"]
    /\ seen = [c \in Callers |-> 0]
    /\ draft = [c \in Callers |-> NoDraft]
    /\ renewals = {}
    /\ crashes = 0

ClaimStep(c) ==
    \/ ClaimRefused(c) \/ ClaimStart(c) \/ ClaimReadHead(c) \/ ClaimAnswered(c)
    \/ ClaimDecide(c) \/ ClaimLinkLost(c) \/ ClaimLinkWon(c) \/ ClaimAcquired(c)
    \/ ClaimFails(c)

EndStep(c) ==
    \/ \E kind \in {"completed", "available"} : EndNothing(c, kind) \/ EndStart(c, kind)
    \/ EndReadHead(c) \/ EndOwnershipLost(c) \/ EndLinkLost(c) \/ EndLinkWon(c)
    \/ EndDone(c) \/ EndFails(c)

RenewStep(r) ==
    \/ RenewReadHead(r) \/ RenewOwnershipLost(r) \/ RenewLinkLost(r)
    \/ RenewLinkWon(r) \/ RenewFails(r)

Next ==
    \/ \E c \in Callers : ClaimStep(c) \/ EndStep(c)
    \/ \E p \in Procs : RenewStart(p) \/ Crash(p)
    \/ \E r \in renewals : RenewStep(r)
    \/ Tick

Spec == Init /\ [][Next]_vars

---------------------------------------------------------------------------
(* Properties                                                              *)

\* Types; a request that links, holds or ends a claim has a token.
TypeOK ==
    /\ journal \in Seq(Nodes)
    /\ now \in Nat
    /\ owners \in [Procs -> LocalOwners \cup {NoOwner}]
    /\ step \in [Callers -> Steps]
    /\ mine \in [Callers -> Tokens \cup {NoToken}]
    /\ told \in [Callers -> Answers]
    /\ seen \in [Callers -> Nat]
    /\ draft \in [Callers -> Nodes]
    /\ \A c \in Callers :
          /\ step[c] \in LinkingSteps \cup HoldingSteps => mine[c] \in Tokens
          /\ step[c] \in EndingSteps => draft[c].owner \in Tokens
    /\ renewals \subseteq Renewals
    /\ crashes \in Nat

Positions == 1..Len(journal)

\* "A stale process cannot complete or release a successor's claim": a
\* completion or a release directly follows a claim of the same owner token,
\* whatever renewals, takeovers and second thoughts raced it to the link.
OnlyOwnerEndsClaim ==
    \A i \in Positions :
        journal[i].kind \in {"completed", "available"} =>
            /\ i > 1
            /\ journal[i - 1].kind = "claim"
            /\ journal[i - 1].owner = journal[i].owner

\* Leases exclude each other: of two claims of different owners, the later
\* one was stamped when the earlier one had expired, unless its owner ended
\* it in between (claimStatus and renewOwnership decide on a clock and a head
\* read before the link).
LeasesExcludeEachOther ==
    \A i, j \in Positions :
        (/\ i < j
         /\ journal[i].kind = "claim"
         /\ journal[j].kind = "claim"
         /\ journal[i].owner # journal[j].owner
         /\ \A k \in i..j : journal[k].kind \in {"completed", "available"}
                               => journal[k].owner # journal[i].owner)
        => journal[i].expiresAt + Lease <= journal[j].expiresAt

\* Completed work is not claimed again before its completion expires, and a
\* version-1 record is respected until it does.
CompletionHoldsForTtl ==
    \A i, j \in Positions :
        (/\ i < j
         /\ journal[i].kind \in {"completed", "legacy"}
         /\ journal[j].kind = "claim")
        => journal[i].expiresAt + Lease <= journal[j].expiresAt

\* claimStatus answers 'completed' only for work some owner completed: an
\* HTTP handler never acknowledges an unfinished attempt.
CompletedAnswerIsTrue ==
    \A c \in Callers : told[c] = "completed" =>
        \E i \in Positions : journal[i].kind = "completed"

\* complete "retains a successful claim": when it returned to a request, the
\* claim that request acquired is completed in the journal.
CompleteIsRetained ==
    \A c \in Callers : told[c] = "complete_ok" =>
        \E i \in Positions :
            journal[i].kind = "completed" /\ journal[i].owner = mine[c]

\* MAX_CLAIM_CHAIN_DEPTH: writers race, yet the chain never outgrows the
\* depth readHead accepts by more than the one link that made it unreadable.
ChainIsBounded == Len(journal) <= MaxDepth + 1

\* "New state is never replaced or deleted."
JournalOnlyGrows ==
    [][ /\ Len(journal') >= Len(journal)
        /\ \A i \in Positions : journal'[i] = journal[i] ]_vars
---------------------------------------------------------------------------
(* The journal implements AtomicClaim                                      *)

\* The last node decides; "available" nodes and the empty journal are free.
AbstractClaim ==
    IF Len(journal) = 0 \/ HeadNode.kind = "available"
    THEN [kind |-> "free", owner |-> NoToken, live |-> FALSE]
    ELSE [kind |-> IF HeadNode.kind = "completed" THEN "done" ELSE "held",
          owner |-> HeadNode.owner,
          live |-> HeadNode.expiresAt > now]

SpentTokens == {journal[i].owner : i \in Positions} \ {NoToken}

Abstract == INSTANCE AtomicClaim WITH
    Owners <- Tokens, NoOne <- NoToken,
    claim <- AbstractClaim, spent <- SpentTokens

\* Every step of the store, its races and its failures included, is a step of
\* AtomicClaim or leaves the key as it was.
ImplementsAtomicClaim == Abstract!Spec
===========================================================================
