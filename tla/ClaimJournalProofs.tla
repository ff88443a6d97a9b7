------------------------ MODULE ClaimJournalProofs ------------------------
(***************************************************************************)
(* Proofs about ClaimJournal for any number of processes and requests, any *)
(* lease, ttl and chain depth.                                             *)
(***************************************************************************)
EXTENDS ClaimJournal, TLAPS

LEMMA NoTokenIsNoToken == NoToken \notin Tokens
BY DEF NoToken, Tokens

LEMMA NoOwnerIsNoOwner == NoOwner \notin LocalOwners
BY NoTokenIsNoToken DEF NoOwner, Owner, LocalOwners

LEMMA NodeTyped ==
    ASSUME NEW kind \in Kinds, NEW token \in Tokens \cup {NoToken}, NEW stamp \in Nat
    PROVE  /\ Node(kind, token, stamp) \in Nodes
           /\ Node(kind, token, stamp).kind = kind
           /\ Node(kind, token, stamp).owner = token
           /\ Node(kind, token, stamp).expiresAt = stamp
BY DEF Node, Nodes

LEMMA OwnerTyped ==
    ASSUME NEW token \in Tokens, NEW closing \in BOOLEAN, NEW timer \in BOOLEAN
    PROVE  Owner(token, closing, timer) \in LocalOwners
BY DEF Owner, LocalOwners

LEMMA TokenTyped == \A c \in Callers, n \in Nat : <<c, n + 1>> \in Tokens
BY DEF Tokens

LEMMA NoDraftTyped == NoDraft \in Nodes
BY NodeTyped DEF NoDraft, Kinds

\* What one request may become without disturbing the types.
LEMMA BecomeTyped ==
    ASSUME TypeOK, NEW c \in Callers, NEW s \in Steps, NEW token \in Tokens \cup {NoToken},
           NEW result \in Answers, NEW n \in Nat, NEW node \in Nodes,
           Become(c, s, token, result, n, node),
           s \in LinkingSteps \cup HoldingSteps => token \in Tokens,
           s \in EndingSteps => node.owner \in Tokens
    PROVE  /\ step' \in [Callers -> Steps]
           /\ mine' \in [Callers -> Tokens \cup {NoToken}]
           /\ told' \in [Callers -> Answers]
           /\ seen' \in [Callers -> Nat]
           /\ draft' \in [Callers -> Nodes]
           /\ \A d \in Callers :
                 /\ step'[d] \in LinkingSteps \cup HoldingSteps => mine'[d] \in Tokens
                 /\ step'[d] \in EndingSteps => draft'[d].owner \in Tokens
BY DEF Become, TypeOK

LEMMA TypeStep == TypeOK /\ [Next]_vars => TypeOK'
<1> SUFFICES ASSUME TypeOK, [Next]_vars PROVE TypeOK'
    OBVIOUS
<1> USE ConstantsAssumption, NoDraftTyped, BecomeTyped
<1> USE DEF LinkingSteps, HoldingSteps, EndingSteps, Steps, Answers, BecomeIdle
<1>1. ASSUME NEW c \in Callers, ClaimStep(c) PROVE TypeOK'
  <2>1. CASE ClaimRefused(c)
      BY <2>1 DEF ClaimRefused, TypeOK
  <2>2. CASE ClaimStart(c)
      BY <2>2 DEF ClaimStart, TypeOK
  <2>3. CASE ClaimReadHead(c)
    <3>1. Len(journal) \in Nat
        BY DEF TypeOK
    <3> QED BY <2>3, <3>1 DEF ClaimReadHead, TypeOK
  <2>4. CASE ClaimAnswered(c)
    <3> DEFINE result == IF StatusOf(seen[c], now) = "completed" THEN "completed" ELSE "none"
    <3>1. result \in Answers
        OBVIOUS
    <3>2. Become(c, "idle", NoToken, result, 0, NoDraft)
        BY <2>4 DEF ClaimAnswered
    <3> HIDE DEF result
    <3> QED BY <2>4, <3>1, <3>2 DEF ClaimAnswered, TypeOK
  <2>5. CASE ClaimDecide(c)
    <3> DEFINE token == <<c, seen[c] + 1>>
               node == Node("claim", token, now + Lease)
    <3>1. token \in Tokens /\ now + Lease \in Nat /\ seen[c] \in Nat
        BY TokenTyped DEF TypeOK
    <3>2. node \in Nodes
        BY <3>1, NodeTyped DEF Kinds
    <3>3. Become(c, "claimLink", token, "none", seen[c], node)
        BY <2>5 DEF ClaimDecide
    <3> HIDE DEF token, node
    <3> QED BY <2>5, <3>1, <3>2, <3>3 DEF ClaimDecide, TypeOK
  <2>6. CASE ClaimLinkLost(c)
      BY <2>6 DEF ClaimLinkLost, TypeOK
  <2>7. CASE ClaimLinkWon(c)
    <3>1. journal' \in Seq(Nodes)
        BY <2>7 DEF ClaimLinkWon, Link, TypeOK
    <3> QED BY <2>7, <3>1 DEF ClaimLinkWon, TypeOK
  <2>8. CASE ClaimAcquired(c)
    <3>1. owners' \in [Procs -> LocalOwners \cup {NoOwner}]
        BY <2>8, OwnerTyped DEF ClaimAcquired, TypeOK
    <3> QED BY <2>8, <3>1 DEF ClaimAcquired, TypeOK
  <2>9. CASE ClaimFails(c)
      BY <2>9 DEF ClaimFails, TypeOK
  <2> QED BY <1>1, <2>1, <2>2, <2>3, <2>4, <2>5, <2>6, <2>7, <2>8, <2>9 DEF ClaimStep
<1>2. ASSUME NEW c \in Callers, EndStep(c) PROVE TypeOK'
  <2>0. step[c] \in HoldingSteps => mine[c] \in Tokens
      BY DEF TypeOK
  \* The draft an ending step leaves keeps its kind and its owner.
  <2>a. ASSUME NEW stamp \in Nat, step[c] \in EndingSteps
        PROVE  LET node == Node(draft[c].kind, draft[c].owner, stamp)
               IN  node \in Nodes /\ node.owner \in Tokens
    <3>1. draft[c].kind \in Kinds /\ draft[c].owner \in Tokens
        BY <2>a DEF TypeOK, Nodes
    <3> QED BY <3>1, NodeTyped
  <2>1. ASSUME NEW kind \in {"completed", "available"}, EndNothing(c, kind)
        PROVE  TypeOK'
      BY <2>0, <2>1 DEF EndNothing, MayEnd, Returns, TypeOK
  <2>2. ASSUME NEW kind \in {"completed", "available"}, EndStart(c, kind)
        PROVE  TypeOK'
    <3> DEFINE token == owners[Home[c]].token
               node == Node(kind, token, 0)
    <3>1. token \in Tokens
        BY <2>2 DEF EndStart, TypeOK, LocalOwners
    <3>2. node \in Nodes /\ node.owner \in Tokens
        BY <3>1, NodeTyped DEF Kinds
    <3>3. owners' \in [Procs -> LocalOwners \cup {NoOwner}]
        BY <2>2, <3>1, OwnerTyped DEF EndStart, TypeOK
    <3>4. Become(c, "endRead", mine[c], "none", 0, node) /\ mine[c] \in Tokens
        BY <2>0, <2>2 DEF EndStart, MayEnd
    <3> HIDE DEF token, node
    <3> QED BY <2>2, <3>2, <3>3, <3>4 DEF EndStart, TypeOK
  <2>3. CASE EndReadHead(c)
    <3> DEFINE stamp == IF draft[c].kind = "completed" THEN now + Ttl ELSE 0
               node == Node(draft[c].kind, draft[c].owner, stamp)
    <3>1. stamp \in Nat
        BY DEF TypeOK
    <3>2. Become(c, "endLink", mine[c], "none", Len(journal), node)
          /\ mine[c] \in Tokens /\ Len(journal) \in Nat
        BY <2>0, <2>3 DEF EndReadHead, TypeOK
    <3>3. node \in Nodes /\ node.owner \in Tokens
        BY <2>3, <2>a, <3>1 DEF EndReadHead
    <3> HIDE DEF node
    <3> QED BY <2>3, <3>2, <3>3 DEF EndReadHead, TypeOK
  <2>4. CASE EndOwnershipLost(c)
      BY <2>0, <2>4 DEF EndOwnershipLost, Throws, TypeOK
  <2>5. CASE EndLinkLost(c)
    <3> DEFINE node == Node(draft[c].kind, draft[c].owner, 0)
    <3>1. node \in Nodes /\ node.owner \in Tokens
        BY <2>5, <2>a DEF EndLinkLost
    <3>2. Become(c, "endRead", mine[c], "none", 0, node) /\ mine[c] \in Tokens
        BY <2>0, <2>5 DEF EndLinkLost
    <3> HIDE DEF node
    <3> QED BY <2>5, <3>1, <3>2 DEF EndLinkLost, TypeOK
  <2>6. CASE EndLinkWon(c)
    <3> DEFINE node == Node(draft[c].kind, draft[c].owner, 0)
    <3>1. node \in Nodes /\ node.owner \in Tokens
        BY <2>6, <2>a DEF EndLinkWon
    <3>2. Become(c, "endSync", mine[c], "none", 0, node) /\ mine[c] \in Tokens
        BY <2>0, <2>6 DEF EndLinkWon
    <3>3. journal' \in Seq(Nodes)
        BY <2>6 DEF EndLinkWon, Link, TypeOK
    <3> HIDE DEF node
    <3> QED BY <2>6, <3>1, <3>2, <3>3 DEF EndLinkWon, TypeOK
  <2>7. CASE EndDone(c)
      BY <2>0, <2>7 DEF EndDone, Returns, TypeOK
  <2>8. CASE EndFails(c)
    <3>1. Catch(owners[Home[c]], draft[c]) \in LocalOwners \cup {NoOwner}
      <4>1. CASE owners[Home[c]].token = draft[c].owner
        <5>1. owners[Home[c]].token \in Tokens
            BY <2>8, <4>1 DEF EndFails, TypeOK
        <5> QED BY <4>1, <5>1, OwnerTyped DEF Catch
      <4>2. CASE owners[Home[c]].token # draft[c].owner
          BY <4>2 DEF Catch, TypeOK
      <4> QED BY <4>1, <4>2
    <3>2. owners' \in [Procs -> LocalOwners \cup {NoOwner}]
        BY <2>8, <3>1 DEF EndFails, TypeOK
    <3> QED BY <2>0, <2>8, <3>2 DEF EndFails, Throws, TypeOK
  <2> QED BY <1>2, <2>1, <2>2, <2>3, <2>4, <2>5, <2>6, <2>7, <2>8 DEF EndStep
<1>3. ASSUME NEW p \in Procs, RenewStart(p) \/ Crash(p) PROVE TypeOK'
  <2>1. CASE RenewStart(p)
    <3>1. owners[p].token \in Tokens
        BY <2>1 DEF RenewStart, TypeOK, LocalOwners
    <3>2. renewals' \subseteq Renewals
        BY <2>1, <3>1 DEF RenewStart, Renewal, Renewals, TypeOK
    <3> QED BY <2>1, <3>2 DEF RenewStart, TypeOK, locals
  <2>2. CASE Crash(p)
      BY <2>2 DEF Crash, TypeOK
  <2> QED BY <1>3, <2>1, <2>2
<1>4. ASSUME NEW r \in renewals, RenewStep(r) PROVE TypeOK'
  <2>0. /\ r.proc \in Procs /\ r.token \in Tokens /\ r.seen \in Nat /\ r.expiresAt \in Nat
        /\ now + Lease \in Nat /\ Len(journal) \in Nat
      BY DEF TypeOK, Renewals
  <2>1. CASE RenewReadHead(r)
    <3>1. renewals' \subseteq Renewals
        BY <2>0, <2>1 DEF RenewReadHead, Renewal, Renewals, TypeOK
    <3> QED BY <2>1, <3>1 DEF RenewReadHead, TypeOK, locals
  <2>2. CASE RenewOwnershipLost(r)
    <3>1. owners' \in [Procs -> LocalOwners \cup {NoOwner}]
      <4>1. CASE owners[r.proc].token = r.token
        <5>1. owners[r.proc] \in LocalOwners
            BY <2>0, <4>1, NoTokenIsNoToken DEF TypeOK, NoOwner, Owner
        <5>2. Owner(owners[r.proc].token, owners[r.proc].closing, FALSE) \in LocalOwners
            BY <5>1, OwnerTyped DEF LocalOwners
        <5> QED BY <2>0, <2>2, <4>1, <5>2 DEF RenewOwnershipLost, TypeOK
      <4>2. CASE owners[r.proc].token # r.token
          BY <2>0, <2>2, <4>2 DEF RenewOwnershipLost, TypeOK
      <4> QED BY <4>1, <4>2
    <3> QED BY <2>2, <3>1 DEF RenewOwnershipLost, TypeOK, locals
  <2>3. CASE RenewLinkLost(r)
    <3>1. renewals' \subseteq Renewals
        BY <2>0, <2>3 DEF RenewLinkLost, Renewal, Renewals, TypeOK
    <3> QED BY <2>3, <3>1 DEF RenewLinkLost, TypeOK, locals
  <2>4. CASE RenewLinkWon(r)
    <3>1. journal' \in Seq(Nodes)
        BY <2>0, <2>4, NodeTyped DEF RenewLinkWon, Link, TypeOK, Kinds
    <3> QED BY <2>4, <3>1 DEF RenewLinkWon, TypeOK, locals
  <2>5. CASE RenewFails(r)
      BY <2>5 DEF RenewFails, TypeOK, locals
  <2> QED BY <1>4, <2>1, <2>2, <2>3, <2>4, <2>5 DEF RenewStep
<1>5. CASE Tick
    BY <1>5 DEF Tick, TypeOK, locals
<1>6. CASE UNCHANGED vars
    BY <1>6 DEF vars, TypeOK, locals
<1> QED BY <1>1, <1>2, <1>3, <1>4, <1>5, <1>6 DEF Next

LEMMA TypeInit == Init => TypeOK
<1> SUFFICES ASSUME Init PROVE TypeOK
    OBVIOUS
<1>1. journal \in Seq(Nodes)
  <2>1. \A e \in LegacyStamps : <<Node("legacy", NoToken, e)>> \in Seq(Nodes)
      BY ConstantsAssumption, NodeTyped DEF Kinds
  <2>2. <<>> \in Seq(Nodes)
      OBVIOUS
  <2>3. journal = <<>> \/ \E e \in LegacyStamps : journal = <<Node("legacy", NoToken, e)>>
      BY DEF Init
  <2> QED BY <2>1, <2>2, <2>3
<1> QED BY <1>1, NoDraftTyped
        DEF Init, TypeOK, Steps, Answers, LinkingSteps, HoldingSteps, EndingSteps

\* The store keeps its types: no map entry without a token, no request that
\* links, holds or ends a claim without one.
THEOREM TypeCorrect == Spec => []TypeOK
BY TypeInit, TypeStep, PTL DEF Spec

---------------------------------------------------------------------------
(* The invariant behind the journal's properties                           *)

\* At time t the node may follow the node at position n of the chain.
MayFollow(chain, t, n, node) ==
    /\ n \in 0..Len(chain)
    /\ node \in Nodes
    /\ \/ /\ node.kind = "claim"
          /\ node.owner \in Tokens
          /\ node.expiresAt <= t + Lease
          /\ \A i \in 1..n : chain[i].kind = "claim" => chain[i].expiresAt <= node.expiresAt
          /\ \/ /\ \/ n = 0
                   \/ chain[n].kind = "available"
                   \/ chain[n].expiresAt + Lease <= node.expiresAt
                /\ node.owner[2] = n + 1
             \/ n > 0 /\ chain[n].kind = "claim" /\ chain[n].owner = node.owner
       \/ /\ node.kind \in {"completed", "available"}
          /\ n > 0
          /\ chain[n].kind = "claim"
          /\ chain[n].owner = node.owner

\* Whatever is about to be linked was fit to follow the head it was drafted
\* for, and still is if that head has not changed.
DraftsFit ==
    /\ \A c \in Callers :
          /\ step[c] = "claimDecide" => seen[c] \in 0..Len(journal) /\ seen[c] <= MaxDepth
          /\ step[c] \in {"claimLink", "endLink"} =>
                MayFollow(journal, now, seen[c], draft[c]) /\ seen[c] <= MaxDepth
          /\ step[c] \in EndingSteps => draft[c].kind \in {"completed", "available"}
    /\ \A r \in renewals : r.step = "link" =>
          MayFollow(journal, now, r.seen, Node("claim", r.token, r.expiresAt)) /\ r.seen <= MaxDepth

\* Only the first node may be a version-1 record.
LegacyIsOldest == \A i \in Positions : journal[i].kind = "legacy" => i = 1

\* The token of an owner is as old as its first claim; nodes are owned.
TokensAreOld ==
    \A i \in Positions :
        /\ journal[i].kind = "legacy" => journal[i].owner = NoToken
        /\ journal[i].kind # "legacy" =>
              journal[i].owner \in Tokens /\ journal[i].owner[2] <= i

\* Claims are stamped in the order they are linked, never ahead of the clock.
StampsGrow ==
    /\ \A i \in Positions : journal[i].kind = "claim" => journal[i].expiresAt <= now + Lease
    /\ \A i, j \in Positions :
          i < j /\ journal[i].kind = "claim" /\ journal[j].kind = "claim"
          => journal[i].expiresAt <= journal[j].expiresAt

ChainInv ==
    /\ LegacyIsOldest
    /\ TokensAreOld
    /\ StampsGrow
    /\ ChainIsBounded
    /\ OnlyOwnerEndsClaim
    /\ LeasesExcludeEachOther
    /\ CompletionHoldsForTtl

JournalInv == TypeOK /\ DraftsFit /\ ChainInv

\* Steps that link nothing: the chain stays, and the passing of time breaks
\* no draft.
LEMMA QuietStep ==
    ASSUME TypeOK, ChainInv, journal' = journal, now' \in Nat, now <= now'
    PROVE  /\ ChainInv'
           /\ \A n, node : MayFollow(journal, now, n, node) => MayFollow(journal', now', n, node)
<1>0. /\ now \in Nat /\ Lease \in Nat
      /\ \A i \in Positions : journal[i].expiresAt \in Nat
  <2>1. \A i \in Positions : journal[i] \in Nodes
      BY DEF TypeOK, Positions
  <2> QED BY <2>1, ConstantsAssumption DEF TypeOK, Nodes
<1>a. now + Lease <= now' + Lease /\ now + Lease \in Nat /\ now' + Lease \in Nat
  <2>1. ASSUME NEW a \in Nat, NEW b \in Nat, a <= b
        PROVE  a + Lease <= b + Lease /\ a + Lease \in Nat /\ b + Lease \in Nat
      BY <2>1, ConstantsAssumption
  <2>2. now \in Nat
      BY <1>0
  <2> QED BY ONLY <2>1, <2>2, now' \in Nat, now <= now'
<1>1. ChainInv'
  <2>1. StampsGrow'
    <3>3. \A i \in Positions : journal[i].kind = "claim" => journal[i].expiresAt <= now' + Lease
        BY <1>0, <1>a DEF ChainInv, StampsGrow
    <3> QED BY <3>3 DEF ChainInv, StampsGrow, Positions
  <2> QED BY <2>1 DEF ChainInv, LegacyIsOldest, TokensAreOld, ChainIsBounded, OnlyOwnerEndsClaim,
                      LeasesExcludeEachOther, CompletionHoldsForTtl, Positions
<1>2. ASSUME NEW n, NEW node, MayFollow(journal, now, n, node) PROVE MayFollow(journal', now', n, node)
  <2>2. node.expiresAt \in Nat
      BY <1>2 DEF MayFollow, Nodes
  <2>3. node.expiresAt <= now + Lease => node.expiresAt <= now' + Lease
      BY <1>a, <2>2
  <2> QED BY <1>2, <2>3 DEF MayFollow
<1> QED BY <1>1, <1>2

\* A link: the new node fits its predecessor, so the chain stays in order and
\* every other draft stays fit for the head it was made for.
LEMMA LinkStep ==
    ASSUME TypeOK, ChainInv, NEW node, MayFollow(journal, now, Len(journal), node),
           Len(journal) <= MaxDepth, journal' = Append(journal, node), now' = now
    PROVE  /\ ChainInv'
           /\ \A n, m : MayFollow(journal, now, n, m) => MayFollow(journal', now', n, m)
<1> USE ConstantsAssumption
<1> DEFINE L == Len(journal)
<1>0. /\ L \in Nat /\ node \in Nodes
      /\ Len(journal') = L + 1
      /\ \A i \in 1..L : journal'[i] = journal[i]
      /\ journal'[L + 1] = node
      /\ \A i \in 1..L : journal[i] \in Nodes
    BY DEF MayFollow, TypeOK
<1>1. \A i \in 1..(L + 1) : i \in 1..L \/ i = L + 1
    BY <1>0
<1> USE <1>0, <1>1
\* The node before a completion or a release is the claim it ends.
<1>2. ASSUME L > 0, journal[L].kind \in {"completed", "available"}
      PROVE  /\ L - 1 \in 1..L
             /\ journal[L - 1].kind = "claim"
             /\ journal[L - 1].owner = journal[L].owner
    BY <1>2 DEF ChainInv, OnlyOwnerEndsClaim, Positions
<1>3. LegacyIsOldest'
    BY DEF ChainInv, LegacyIsOldest, Positions, MayFollow
<1>a. TokensAreOld'
  <2>1. node.kind # "legacy" /\ node.owner \in Tokens /\ node.owner[2] <= L + 1
    <3>1. CASE L > 0 /\ journal[L].kind = "claim" /\ journal[L].owner = node.owner
      <4>1. journal[L].owner \in Tokens /\ journal[L].owner[2] <= L
          BY <3>1 DEF ChainInv, TokensAreOld, Positions
      <4>2. journal[L].owner[2] \in Nat
          BY <4>1 DEF Tokens
      <4> QED BY <3>1, <4>1, <4>2 DEF MayFollow
    <3>2. CASE node.owner[2] = L + 1 /\ node.kind = "claim"
        BY <3>2 DEF MayFollow
    <3> QED BY <3>1, <3>2 DEF MayFollow
  <2> QED BY <2>1 DEF ChainInv, TokensAreOld, Positions
<1>4. StampsGrow'
    BY DEF ChainInv, StampsGrow, Positions, MayFollow, Nodes
<1>5. ChainIsBounded'
    BY DEF ChainIsBounded
<1>6. OnlyOwnerEndsClaim'
    BY DEF ChainInv, OnlyOwnerEndsClaim, Positions, MayFollow
<1>7. LeasesExcludeEachOther'
  <2> SUFFICES ASSUME NEW i \in 1..L, journal[i].kind = "claim", node.kind = "claim",
                      journal[i].owner # node.owner,
                      \A k \in i..L : journal[k].kind \in {"completed", "available"}
                                         => journal[k].owner # journal[i].owner
               PROVE  journal[i].expiresAt + Lease <= node.expiresAt
      BY DEF ChainInv, LeasesExcludeEachOther, Positions
  <2>1. \A j \in 1..L : i < j /\ journal[j].kind = "claim" /\ journal[i].owner # journal[j].owner
                        => journal[i].expiresAt + Lease <= journal[j].expiresAt
      BY DEF ChainInv, LeasesExcludeEachOther, Positions
  <2>2. \A j \in 1..L : journal[j].kind = "claim" => journal[j].expiresAt <= node.expiresAt
      BY DEF MayFollow
  <2>3. CASE journal[L].kind \in {"completed", "available"}
    <3>1. i < L - 1 /\ journal[i].owner # journal[L - 1].owner
        BY <1>2, <2>3
    <3> QED BY <1>2, <2>1, <2>2, <2>3, <3>1 DEF Nodes
  <2>4. CASE journal[L].kind = "claim" /\ journal[L].owner # journal[i].owner
      BY <2>1, <2>2, <2>4 DEF Nodes
  <2>5. CASE journal[L].kind = "claim" /\ journal[L].owner = journal[i].owner
    <3>1. journal[L].expiresAt + Lease <= node.expiresAt
        BY <2>5 DEF MayFollow
    <3>2. journal[i].expiresAt <= journal[L].expiresAt
        BY <2>5 DEF ChainInv, StampsGrow, Positions, Nodes
    <3> QED BY <3>1, <3>2 DEF Nodes
  <2>6. CASE journal[L].kind = "legacy"
      BY <2>6 DEF ChainInv, LegacyIsOldest, Positions
  <2> QED BY <2>3, <2>4, <2>5, <2>6 DEF Nodes, Kinds
<1>8. CompletionHoldsForTtl'
  <2> SUFFICES ASSUME NEW i \in 1..L, journal[i].kind \in {"completed", "legacy"},
                      node.kind = "claim"
               PROVE  journal[i].expiresAt + Lease <= node.expiresAt
      BY DEF ChainInv, CompletionHoldsForTtl, Positions
  <2>1. \A j \in 1..L : i < j /\ journal[j].kind = "claim"
                        => journal[i].expiresAt + Lease <= journal[j].expiresAt
      BY DEF ChainInv, CompletionHoldsForTtl, Positions
  <2>2. \A j \in 1..L : journal[j].kind = "claim" => journal[j].expiresAt <= node.expiresAt
      BY DEF MayFollow
  <2>3. CASE i = L
      BY <2>3 DEF MayFollow
  <2>4. CASE i < L /\ journal[L].kind = "claim"
      BY <2>1, <2>2, <2>4 DEF Nodes
  <2>5. CASE i < L /\ journal[L].kind \in {"completed", "available"}
    <3>1. i < L - 1
        BY <1>2, <2>5
    <3>2. journal[i].expiresAt + Lease <= journal[L - 1].expiresAt
        BY <1>2, <2>1, <2>5, <3>1
    <3>3. journal[L - 1].expiresAt <= node.expiresAt
        BY <1>2, <2>2, <2>5
    <3>4. /\ journal[i].expiresAt \in Nat /\ journal[L - 1].expiresAt \in Nat
          /\ node.expiresAt \in Nat
        BY <1>2, <2>5 DEF Nodes
    <3> QED BY <3>2, <3>3, <3>4
  <2>6. CASE i < L /\ journal[L].kind = "legacy"
      BY <2>6 DEF ChainInv, LegacyIsOldest, Positions
  <2> QED BY <2>3, <2>4, <2>5, <2>6 DEF Nodes, Kinds
<1>9. ASSUME NEW n, NEW m, MayFollow(journal, now, n, m) PROVE MayFollow(journal', now', n, m)
    BY <1>9 DEF MayFollow
<1> QED BY <1>3, <1>a, <1>4, <1>5, <1>6, <1>7, <1>8, <1>9 DEF ChainInv

\* A request moves on: its new draft fits, the others keep theirs.
LEMMA BecomeFits ==
    ASSUME TypeOK, DraftsFit, NEW c \in Callers, NEW s, NEW token, NEW result, NEW n, NEW node,
           Become(c, s, token, result, n, node),
           renewals' = renewals,
           Len(journal) \in Nat, Len(journal') \in Nat, Len(journal) <= Len(journal'),
           \A k, m : MayFollow(journal, now, k, m) => MayFollow(journal', now', k, m),
           s = "claimDecide" => n \in 0..Len(journal') /\ n <= MaxDepth,
           s \in {"claimLink", "endLink"} => MayFollow(journal', now', n, node) /\ n <= MaxDepth,
           s \in EndingSteps => node.kind \in {"completed", "available"}
    PROVE  DraftsFit'
<1>1. ASSUME NEW d \in Callers
      PROVE  /\ step'[d] = "claimDecide" => seen'[d] \in 0..Len(journal') /\ seen'[d] <= MaxDepth
             /\ step'[d] \in {"claimLink", "endLink"} =>
                   MayFollow(journal', now', seen'[d], draft'[d]) /\ seen'[d] <= MaxDepth
             /\ step'[d] \in EndingSteps => draft'[d].kind \in {"completed", "available"}
  <2>1. CASE d = c
    <3>1. step'[d] = s /\ seen'[d] = n /\ draft'[d] = node
        BY <2>1 DEF Become, TypeOK
    <3> QED BY <3>1
  <2>2. CASE d # c
    <3>1. step'[d] = step[d] /\ seen'[d] = seen[d] /\ draft'[d] = draft[d]
        BY <2>2 DEF Become, TypeOK
    <3>2. step[d] = "claimDecide" => seen[d] \in 0..Len(journal') /\ seen[d] <= MaxDepth
        BY DEF DraftsFit
    <3> QED BY <3>1, <3>2 DEF DraftsFit
  <2> QED BY <2>1, <2>2
<1>2. ASSUME NEW r \in renewals', r.step = "link"
      PROVE  MayFollow(journal', now', r.seen, Node("claim", r.token, r.expiresAt)) /\ r.seen <= MaxDepth
    BY <1>2 DEF DraftsFit
<1> QED BY <1>1, <1>2 DEF DraftsFit

\* A heartbeat or the clock moves on: requests keep their drafts.
LEMMA RenewalFits ==
    ASSUME DraftsFit, UNCHANGED locals,
           Len(journal) \in Nat, Len(journal') \in Nat, Len(journal) <= Len(journal'),
           \A k, m : MayFollow(journal, now, k, m) => MayFollow(journal', now', k, m),
           \A r \in renewals' : r.step = "link" =>
              \/ r \in renewals
              \/ MayFollow(journal', now', r.seen, Node("claim", r.token, r.expiresAt)) /\ r.seen <= MaxDepth
    PROVE  DraftsFit'
<1>1. ASSUME NEW d \in Callers
      PROVE  /\ step[d] = "claimDecide" => seen[d] \in 0..Len(journal') /\ seen[d] <= MaxDepth
             /\ step[d] \in {"claimLink", "endLink"} =>
                   MayFollow(journal', now', seen[d], draft[d]) /\ seen[d] <= MaxDepth
             /\ step[d] \in EndingSteps => draft[d].kind \in {"completed", "available"}
    BY DEF DraftsFit, locals
<1>2. ASSUME NEW r \in renewals', r.step = "link"
      PROVE  MayFollow(journal', now', r.seen, Node("claim", r.token, r.expiresAt)) /\ r.seen <= MaxDepth
    BY <1>2 DEF DraftsFit
<1> QED BY <1>1, <1>2 DEF DraftsFit, locals

LEMMA JournalStep == JournalInv /\ [Next]_vars => JournalInv'
<1> SUFFICES ASSUME TypeOK, DraftsFit, ChainInv, [Next]_vars PROVE DraftsFit' /\ ChainInv'
    BY TypeStep DEF JournalInv
<1>0. /\ Len(journal) \in Nat /\ now \in Nat /\ Lease \in Nat
      /\ \A i \in Positions : journal[i] \in Nodes
    BY ConstantsAssumption DEF TypeOK, Positions
<1>q. ASSUME journal' = journal, now' = now \/ now' = now + 1
      PROVE  /\ ChainInv'
             /\ \A n, node : MayFollow(journal, now, n, node) => MayFollow(journal', now', n, node)
             /\ Len(journal') \in Nat /\ Len(journal) <= Len(journal')
  <2>1. now' \in Nat /\ now <= now'
      BY <1>0, <1>q
  <2>2. Len(journal') = Len(journal)
      BY <1>q
  <2> QED BY <1>0, <1>q, <2>1, <2>2, QuietStep
<1>l. ASSUME NEW node, Link(Len(journal), node), MayFollow(journal, now, Len(journal), node),
             Len(journal) <= MaxDepth, now' = now
      PROVE  /\ ChainInv'
             /\ \A n, m : MayFollow(journal, now, n, m) => MayFollow(journal', now', n, m)
             /\ Len(journal') \in Nat /\ Len(journal) <= Len(journal')
  <2>1. Len(journal') = Len(journal) + 1
      BY <1>l DEF Link, TypeOK, MayFollow
  <2> QED BY <1>0, <1>l, <2>1, LinkStep DEF Link
<1> USE DEF LinkingSteps, HoldingSteps, EndingSteps, BecomeIdle
<1>1. ASSUME NEW c \in Callers, ClaimStep(c) PROVE DraftsFit' /\ ChainInv'
  <2>1. CASE ClaimRefused(c) \/ ClaimFails(c)
      BY <1>0, <1>q, <2>1, BecomeFits DEF ClaimRefused, ClaimFails
  <2>2. CASE ClaimStart(c) \/ ClaimLinkLost(c)
      BY <1>0, <1>q, <2>2, BecomeFits DEF ClaimStart, ClaimLinkLost
  <2>3. CASE ClaimReadHead(c)
      BY <1>0, <1>q, <2>3, BecomeFits DEF ClaimReadHead, Readable
  <2>4. CASE ClaimAnswered(c)
      BY <1>0, <1>q, <2>4, BecomeFits DEF ClaimAnswered
  <2>5. CASE ClaimDecide(c)
    <3> DEFINE token == <<c, seen[c] + 1>>
               node == Node("claim", token, now + Lease)
    <3>1. seen[c] \in 0..Len(journal) /\ seen[c] <= MaxDepth
        BY <2>5 DEF ClaimDecide, DraftsFit
    <3>2. /\ node \in Nodes /\ node.kind = "claim" /\ node.owner = token
          /\ node.expiresAt = now + Lease /\ token \in Tokens
        BY <1>0, <3>1, TokenTyped, NodeTyped DEF Kinds
    <3>t. token[2] = seen[c] + 1
        OBVIOUS
    <3>3. \A i \in 1..seen[c] : journal[i].kind = "claim" => journal[i].expiresAt <= now + Lease
        BY <3>1 DEF ChainInv, StampsGrow, Positions
    <3>4. \/ seen[c] = 0
          \/ journal[seen[c]].kind = "available"
          \/ journal[seen[c]].expiresAt + Lease <= now + Lease
      <4>1. seen[c] # 0 => journal[seen[c]].expiresAt \in Nat
          BY <1>0, <3>1 DEF Positions, Nodes
      <4> QED BY <1>0, <2>5, <4>1 DEF ClaimDecide, StatusOf
    <3>5. Become(c, "claimLink", token, "none", seen[c], node)
        BY <2>5 DEF ClaimDecide
    <3>6. MayFollow(journal, now, seen[c], node)
      <4> HIDE DEF node, token
      <4> QED BY <1>0, <3>1, <3>2, <3>t, <3>3, <3>4 DEF MayFollow
    <3>7. journal' = journal /\ now' = now /\ renewals' = renewals
        BY <2>5 DEF ClaimDecide
    <3> HIDE DEF node, token
    <3> QED BY <1>0, <1>q, <3>1, <3>5, <3>6, <3>7, BecomeFits
  <2>6. CASE ClaimLinkWon(c)
    <3>1. MayFollow(journal, now, seen[c], draft[c]) /\ seen[c] <= MaxDepth
        BY <2>6 DEF ClaimLinkWon, DraftsFit
    <3>2. seen[c] = Len(journal) /\ now' = now /\ renewals' = renewals
        BY <2>6 DEF ClaimLinkWon, Link
    <3>3. Link(Len(journal), draft[c])
        BY <2>6, <3>2 DEF ClaimLinkWon
    <3> QED BY <1>0, <1>l, <2>6, <3>1, <3>2, <3>3, BecomeFits DEF ClaimLinkWon
  <2>7. CASE ClaimAcquired(c)
      BY <1>0, <1>q, <2>7, BecomeFits DEF ClaimAcquired
  <2> QED BY <1>1, <2>1, <2>2, <2>3, <2>4, <2>5, <2>6, <2>7 DEF ClaimStep
<1>2. ASSUME NEW c \in Callers, EndStep(c) PROVE DraftsFit' /\ ChainInv'
  <2>0. step[c] \in EndingSteps =>
           /\ draft[c].kind \in {"completed", "available"}
           /\ draft[c].kind \in Kinds /\ draft[c].owner \in Tokens
      BY DEF DraftsFit, TypeOK, Kinds
  <2>1. ASSUME NEW kind \in {"completed", "available"}, EndNothing(c, kind)
        PROVE  DraftsFit' /\ ChainInv'
    <3>1. PICK token, result : Become(c, "idle", token, result, 0, NoDraft)
        BY <2>1 DEF EndNothing, Returns
    <3> QED BY <1>0, <1>q, <2>1, <3>1, BecomeFits DEF EndNothing
  <2>2. ASSUME NEW kind \in {"completed", "available"}, EndStart(c, kind)
        PROVE  DraftsFit' /\ ChainInv'
    <3> DEFINE node == Node(kind, owners[Home[c]].token, 0)
    <3>1. node.kind = kind
        BY DEF Node
    <3>2. Become(c, "endRead", mine[c], "none", 0, node)
        BY <2>2 DEF EndStart
    <3> HIDE DEF node
    <3> QED BY <1>0, <1>q, <2>2, <3>1, <3>2, BecomeFits DEF EndStart
  <2>3. CASE EndReadHead(c)
    <3> DEFINE stamp == IF draft[c].kind = "completed" THEN now + Ttl ELSE 0
               node == Node(draft[c].kind, draft[c].owner, stamp)
    <3>1. stamp \in Nat
        BY <1>0, ConstantsAssumption
    <3>2. /\ node \in Nodes /\ node.kind = draft[c].kind /\ node.owner = draft[c].owner
          /\ draft[c].kind \in {"completed", "available"}
        BY <2>0, <2>3, <3>1, NodeTyped DEF EndReadHead
    <3>3. /\ Become(c, "endLink", mine[c], "none", Len(journal), node)
          /\ Len(journal) <= MaxDepth /\ OwnsHead(draft[c].owner)
          /\ journal' = journal /\ now' = now /\ renewals' = renewals
        BY <2>3 DEF EndReadHead, Readable
    <3>4. MayFollow(journal, now, Len(journal), node)
      <4> HIDE DEF node
      <4> QED BY <1>0, <3>2, <3>3 DEF MayFollow, OwnsHead, HeadNode
    <3> HIDE DEF node
    <3> QED BY <1>0, <1>q, <3>2, <3>3, <3>4, BecomeFits
  <2>4. CASE EndOwnershipLost(c) \/ EndFails(c)
    <3>1. PICK s, token, result :
             s \in {"idle", "giveup"} /\ Become(c, s, token, result, 0, NoDraft)
        BY <2>4 DEF EndOwnershipLost, EndFails, Throws
    <3>2. journal' = journal /\ now' = now /\ renewals' = renewals
        BY <2>4 DEF EndOwnershipLost, EndFails
    <3> QED BY <1>0, <1>q, <3>1, <3>2, BecomeFits
  <2>5. CASE EndLinkLost(c)
    <3> DEFINE node == Node(draft[c].kind, draft[c].owner, 0)
    <3>1. node.kind = draft[c].kind /\ draft[c].kind \in {"completed", "available"}
        BY <2>0, <2>5 DEF EndLinkLost, Node
    <3>2. Become(c, "endRead", mine[c], "none", 0, node)
        BY <2>5 DEF EndLinkLost
    <3> HIDE DEF node
    <3> QED BY <1>0, <1>q, <2>5, <3>1, <3>2, BecomeFits DEF EndLinkLost
  <2>6. CASE EndLinkWon(c)
    <3> DEFINE node == Node(draft[c].kind, draft[c].owner, 0)
    <3>1. node.kind = draft[c].kind /\ draft[c].kind \in {"completed", "available"}
        BY <2>0, <2>6 DEF EndLinkWon, Node
    <3>2. /\ Become(c, "endSync", mine[c], "none", 0, node)
          /\ now' = now /\ renewals' = renewals /\ seen[c] = Len(journal)
        BY <2>6 DEF EndLinkWon, Link
    <3>3. MayFollow(journal, now, seen[c], draft[c]) /\ seen[c] <= MaxDepth
        BY <2>6 DEF EndLinkWon, DraftsFit
    <3>4. Link(Len(journal), draft[c])
        BY <2>6, <3>2 DEF EndLinkWon
    <3> HIDE DEF node
    <3> QED BY <1>0, <1>l, <3>1, <3>2, <3>3, <3>4, BecomeFits
  <2>7. CASE EndDone(c)
    <3>1. PICK token, result : Become(c, "idle", token, result, 0, NoDraft)
        BY <2>7 DEF EndDone, Returns
    <3> QED BY <1>0, <1>q, <2>7, <3>1, BecomeFits DEF EndDone
  <2> QED BY <1>2, <2>1, <2>2, <2>3, <2>4, <2>5, <2>6, <2>7 DEF EndStep
<1>3. ASSUME NEW p \in Procs, RenewStart(p) \/ Crash(p) PROVE DraftsFit' /\ ChainInv'
  <2>1. CASE RenewStart(p)
      BY <1>0, <1>q, <2>1, RenewalFits DEF RenewStart, Renewal
  <2>2. CASE Crash(p)
    <3>1. journal' = journal /\ now' = now
        BY <2>2 DEF Crash
    <3>2. \A d \in Callers : \/ step'[d] = "idle"
                             \/ step'[d] = step[d] /\ seen'[d] = seen[d] /\ draft'[d] = draft[d]
        BY <2>2 DEF Crash
    <3>3. renewals' \subseteq renewals
        BY <2>2 DEF Crash
    <3>4. ASSUME NEW d \in Callers
          PROVE  /\ step'[d] = "claimDecide" => seen'[d] \in 0..Len(journal') /\ seen'[d] <= MaxDepth
                 /\ step'[d] \in {"claimLink", "endLink"} =>
                       MayFollow(journal', now', seen'[d], draft'[d]) /\ seen'[d] <= MaxDepth
                 /\ step'[d] \in EndingSteps => draft'[d].kind \in {"completed", "available"}
        BY <1>0, <1>q, <3>1, <3>2 DEF DraftsFit
    <3>5. ASSUME NEW r \in renewals', r.step = "link"
          PROVE  MayFollow(journal', now', r.seen, Node("claim", r.token, r.expiresAt)) /\ r.seen <= MaxDepth
        BY <1>q, <3>1, <3>3, <3>5 DEF DraftsFit
    <3>6. DraftsFit'
        BY <3>4, <3>5 DEF DraftsFit
    <3> QED BY <1>q, <3>1, <3>6
  <2> QED BY <1>3, <2>1, <2>2
<1>4. ASSUME NEW r \in renewals, RenewStep(r) PROVE DraftsFit' /\ ChainInv'
  <2>0. /\ r.token \in Tokens /\ r.seen \in Nat /\ r.expiresAt \in Nat
      BY DEF TypeOK, Renewals
  <2>1. CASE RenewReadHead(r)
    <3> DEFINE node == Node("claim", r.token, now + Lease)
               q == Renewal(r.proc, r.token, "link", Len(journal), now + Lease)
    <3>1. /\ node \in Nodes /\ node.kind = "claim" /\ node.owner = r.token
          /\ node.expiresAt = now + Lease
        BY <1>0, <2>0, NodeTyped DEF Kinds
    <3>2. /\ Len(journal) <= MaxDepth /\ OwnsHead(r.token)
          /\ journal' = journal /\ now' = now /\ UNCHANGED locals
          /\ renewals' \subseteq renewals \cup {q}
        BY <2>1 DEF RenewReadHead, Readable
    <3>3. \A i \in 1..Len(journal) : journal[i].kind = "claim" => journal[i].expiresAt <= now + Lease
        BY DEF ChainInv, StampsGrow, Positions
    <3>4. MayFollow(journal, now, Len(journal), node)
      <4> HIDE DEF node
      <4> QED BY <1>0, <2>0, <3>1, <3>2, <3>3 DEF MayFollow, OwnsHead, HeadNode
    <3>5. q.seen = Len(journal) /\ Node("claim", q.token, q.expiresAt) = node
        BY DEF Renewal
    <3> HIDE DEF node, q
    <3> QED BY <1>0, <1>q, <3>2, <3>4, <3>5, RenewalFits
  <2>2. CASE RenewOwnershipLost(r) \/ RenewFails(r)
      BY <1>0, <1>q, <2>2, RenewalFits DEF RenewOwnershipLost, RenewFails
  <2>3. CASE RenewLinkLost(r)
      BY <1>0, <1>q, <2>3, RenewalFits DEF RenewLinkLost, Renewal
  <2>4. CASE RenewLinkWon(r)
    <3> DEFINE node == Node("claim", r.token, r.expiresAt)
    <3>1. /\ Link(Len(journal), node) /\ r.seen = Len(journal) /\ r.step = "link"
          /\ now' = now /\ UNCHANGED locals /\ renewals' \subseteq renewals
        BY <2>4 DEF RenewLinkWon, Link
    <3>2. MayFollow(journal, now, Len(journal), node) /\ Len(journal) <= MaxDepth
        BY <3>1 DEF DraftsFit
    <3> HIDE DEF node
    <3> QED BY <1>0, <1>l, <3>1, <3>2, RenewalFits
  <2> QED BY <1>4, <2>1, <2>2, <2>3, <2>4 DEF RenewStep
<1>5. CASE Tick
    BY <1>0, <1>q, <1>5, RenewalFits DEF Tick
<1>6. CASE UNCHANGED vars
    BY <1>0, <1>q, <1>6, RenewalFits DEF vars
<1> QED BY <1>1, <1>2, <1>3, <1>4, <1>5, <1>6 DEF Next

LEMMA JournalInit == Init => JournalInv
<1> SUFFICES ASSUME Init PROVE JournalInv
    OBVIOUS
<1>1. /\ Len(journal) \in {0, 1}
      /\ \A i \in 1..Len(journal) : journal[i].kind = "legacy" /\ journal[i].owner = NoToken
  <2>1. ASSUME NEW e \in LegacyStamps, journal = <<Node("legacy", NoToken, e)>>
        PROVE  Len(journal) = 1 /\ journal[1].kind = "legacy" /\ journal[1].owner = NoToken
      BY <2>1 DEF Node
  <2> QED BY <2>1 DEF Init
<1>2. DraftsFit
    BY DEF Init, DraftsFit, EndingSteps
<1>3. ChainInv
    BY <1>1, ConstantsAssumption
       DEF ChainInv, LegacyIsOldest, TokensAreOld, StampsGrow, ChainIsBounded, OnlyOwnerEndsClaim,
           LeasesExcludeEachOther, CompletionHoldsForTtl, Positions
<1> QED BY <1>2, <1>3, TypeInit DEF JournalInv

LEMMA JournalInvariant == Spec => []JournalInv
BY JournalInit, JournalStep, PTL DEF Spec

\* A completion or a release always ends the claim of its own owner.
THEOREM OwnerEndsItsClaim == Spec => []OnlyOwnerEndsClaim
<1>1. JournalInv => OnlyOwnerEndsClaim
    BY DEF JournalInv, ChainInv
<1> QED BY <1>1, JournalInvariant, PTL

\* Two owners never hold unexpired leases over the same key, unless the first
\* one ended its claim.
THEOREM LeasesAreExclusive == Spec => []LeasesExcludeEachOther
<1>1. JournalInv => LeasesExcludeEachOther
    BY DEF JournalInv, ChainInv
<1> QED BY <1>1, JournalInvariant, PTL

\* Completed work is not claimed again before its ttl.
THEOREM CompletionIsKept == Spec => []CompletionHoldsForTtl
<1>1. JournalInv => CompletionHoldsForTtl
    BY DEF JournalInv, ChainInv
<1> QED BY <1>1, JournalInvariant, PTL

\* The chain stops growing at the depth readHead accepts.
THEOREM ChainStaysBounded == Spec => []ChainIsBounded
<1>1. JournalInv => ChainIsBounded
    BY DEF JournalInv, ChainInv
<1> QED BY <1>1, JournalInvariant, PTL

\* Links are the only steps that touch the journal, and they append.
LEMMA OnlyLinksWrite ==
    ASSUME JournalInv, [Next]_vars
    PROVE  \/ journal' = journal /\ (now' = now \/ now' = now + 1)
           \/ \E node : /\ MayFollow(journal, now, Len(journal), node)
                        /\ journal' = Append(journal, node) /\ now' = now
<1>1. ASSUME NEW c \in Callers, ClaimStep(c)
      PROVE  \/ journal' = journal /\ now' = now
             \/ \E node : /\ MayFollow(journal, now, Len(journal), node)
                          /\ journal' = Append(journal, node) /\ now' = now
  <2>1. CASE ClaimLinkWon(c)
      BY <2>1 DEF ClaimLinkWon, Link, JournalInv, DraftsFit
  <2>2. CASE ~ClaimLinkWon(c)
      BY <1>1, <2>2 DEF ClaimStep, ClaimRefused, ClaimStart, ClaimReadHead, ClaimAnswered,
         ClaimDecide, ClaimLinkLost, ClaimAcquired, ClaimFails
  <2> QED BY <2>1, <2>2
<1>2. ASSUME NEW c \in Callers, EndStep(c)
      PROVE  \/ journal' = journal /\ now' = now
             \/ \E node : /\ MayFollow(journal, now, Len(journal), node)
                          /\ journal' = Append(journal, node) /\ now' = now
  <2>1. CASE EndLinkWon(c)
      BY <2>1 DEF EndLinkWon, Link, JournalInv, DraftsFit
  <2>2. CASE ~EndLinkWon(c)
      BY <1>2, <2>2 DEF EndStep, EndNothing, EndStart, EndReadHead, EndOwnershipLost,
         EndLinkLost, EndDone, EndFails
  <2> QED BY <2>1, <2>2
<1>3. ASSUME NEW r \in renewals, RenewStep(r)
      PROVE  \/ journal' = journal /\ now' = now
             \/ \E node : /\ MayFollow(journal, now, Len(journal), node)
                          /\ journal' = Append(journal, node) /\ now' = now
  <2>1. CASE RenewLinkWon(r)
      BY <2>1 DEF RenewLinkWon, Link, JournalInv, DraftsFit
  <2>2. CASE ~RenewLinkWon(r)
      BY <1>3, <2>2 DEF RenewStep, RenewReadHead, RenewOwnershipLost, RenewLinkLost, RenewFails
  <2> QED BY <2>1, <2>2
<1>4. ASSUME NEW p \in Procs, RenewStart(p) \/ Crash(p) PROVE journal' = journal /\ now' = now
    BY <1>4 DEF RenewStart, Crash
<1>5. CASE Tick
    BY <1>5 DEF Tick
<1>6. CASE UNCHANGED vars
    BY <1>6 DEF vars
<1> QED BY <1>1, <1>2, <1>3, <1>4, <1>5, <1>6 DEF Next

\* Every node stays where it is when the journal moves on.
LEMMA NodesStay ==
    ASSUME JournalInv, [Next]_vars
    PROVE  Len(journal') >= Len(journal) /\ \A i \in Positions : journal'[i] = journal[i]
<1>0. journal \in Seq(Nodes) /\ Len(journal) \in Nat
    BY DEF JournalInv, TypeOK
<1>1. CASE journal' = journal
    BY <1>0, <1>1
<1>2. ASSUME NEW node, node \in Nodes, journal' = Append(journal, node)
      PROVE  Len(journal') >= Len(journal) /\ \A i \in Positions : journal'[i] = journal[i]
    BY <1>0, <1>2 DEF Positions
<1> QED BY <1>1, <1>2, OnlyLinksWrite DEF MayFollow

\* Nothing in the journal is ever replaced or deleted.
THEOREM JournalGrows == Spec => JournalOnlyGrows
<1>1. ASSUME JournalInv, [Next]_vars
      PROVE  Len(journal') >= Len(journal) /\ \A i \in Positions : journal'[i] = journal[i]
    BY <1>1, NodesStay
<1> QED BY <1>1, JournalInvariant, PTL DEF Spec, JournalOnlyGrows

---------------------------------------------------------------------------
(* The journal implements AtomicClaim                                      *)

\* The abstract claim the last node of a chain stands for.
LEMMA HeadDecides ==
    ASSUME JournalInv, Len(journal) > 0
    PROVE  /\ HeadNode \in Nodes
           /\ HeadNode.kind = "available" =>
                 AbstractClaim = [kind |-> "free", owner |-> NoToken, live |-> FALSE]
           /\ HeadNode.kind = "completed" =>
                 AbstractClaim = [kind |-> "done", owner |-> HeadNode.owner,
                                  live |-> HeadNode.expiresAt > now]
           /\ HeadNode.kind \in {"claim", "legacy"} =>
                 AbstractClaim = [kind |-> "held", owner |-> HeadNode.owner,
                                  live |-> HeadNode.expiresAt > now]
<1>1. HeadNode \in Nodes
    BY DEF JournalInv, TypeOK, HeadNode
<1> QED BY <1>1 DEF AbstractClaim

LEMMA ClaimRecord ==
    ASSUME NEW k, NEW o, NEW S, o \in S, NEW b \in BOOLEAN
    PROVE  [kind |-> k, owner |-> o, live |-> b] \in [kind : {k}, owner : S, live : BOOLEAN]
OBVIOUS

\* A link takes over a key nobody protects, or renews, completes or releases
\* the claim of the owner that makes it.
LEMMA LinkRefines ==
    ASSUME JournalInv, JournalInv', NEW node, MayFollow(journal, now, Len(journal), node),
           journal' = Append(journal, node), now' = now
    PROVE  Abstract!Next
<1> DEFINE L == Len(journal)
           abstract == [kind |-> IF node.kind = "completed" THEN "done" ELSE "held",
                        owner |-> node.owner, live |-> node.expiresAt > now]
<1>0. /\ L \in Nat /\ node \in Nodes /\ now \in Nat /\ Lease \in Nat
      /\ Len(journal') = L + 1
      /\ \A i \in 1..L : journal'[i] = journal[i]
      /\ journal'[L + 1] = node
      /\ \A i \in 1..L : journal[i] \in Nodes
      /\ node.expiresAt \in Nat
  <2>1. node \in Nodes /\ journal \in Seq(Nodes) /\ now \in Nat
      BY DEF MayFollow, JournalInv, TypeOK
  <2>2. node.expiresAt \in Nat
      BY <2>1 DEF Nodes
  <2> QED BY <2>1, <2>2, ConstantsAssumption
<1>b. (node.expiresAt > now) \in BOOLEAN
    OBVIOUS
<1>1. /\ node.kind = "available" =>
            AbstractClaim' = [kind |-> "free", owner |-> NoToken, live |-> FALSE]
      /\ node.kind \in {"claim", "completed"} => AbstractClaim' = abstract
    BY <1>0 DEF AbstractClaim, HeadNode
<1>2. SpentTokens' = (SpentTokens \cup {node.owner}) \ {NoToken}
  <2>1. {journal'[i].owner : i \in 1..(L + 1)} = {journal[i].owner : i \in 1..L} \cup {node.owner}
      BY <1>0
  <2> QED BY <1>0, <2>1 DEF SpentTokens, Positions
<1>3. node.kind \in {"claim", "completed", "available"} /\ node.owner \in Tokens
    BY <1>0 DEF MayFollow, JournalInv, ChainInv, TokensAreOld, Positions
<1>4. CASE L > 0 /\ journal[L].kind = "claim" /\ journal[L].owner = node.owner
  <2>1. AbstractClaim = [kind |-> "held", owner |-> node.owner, live |-> journal[L].expiresAt > now]
      BY <1>0, <1>4, HeadDecides DEF HeadNode
  <2>2. SpentTokens' = SpentTokens
      BY <1>0, <1>2, <1>3, <1>4, NoTokenIsNoToken DEF SpentTokens, Positions
  <2>3. Abstract!OwnedBy(Tokens)
      BY <1>3, <2>1 DEF Abstract!OwnedBy
  <2>4. CASE node.kind = "claim"
    <3>0. /\ AbstractClaim' = [kind |-> "held", owner |-> node.owner, live |-> node.expiresAt > now]
          /\ AbstractClaim.owner = node.owner
        BY <1>1, <2>1, <2>4
    <3>1. AbstractClaim' \in [kind : {"held"}, owner : {AbstractClaim.owner}, live : BOOLEAN]
        BY <1>b, <3>0, ClaimRecord
    <3> QED BY <2>2, <2>3, <3>1 DEF Abstract!Next, Abstract!Renew, Abstract!Held
  <2>5. CASE node.kind = "completed"
    <3>0. /\ AbstractClaim' = [kind |-> "done", owner |-> node.owner, live |-> node.expiresAt > now]
          /\ AbstractClaim.owner = node.owner
        BY <1>1, <2>1, <2>5
    <3>1. AbstractClaim' \in [kind : {"done"}, owner : {AbstractClaim.owner}, live : BOOLEAN]
        BY <1>b, <3>0, ClaimRecord
    <3> QED BY <2>2, <2>3, <3>1 DEF Abstract!Next, Abstract!Complete, Abstract!Done
  <2>6. CASE node.kind = "available"
      BY <1>1, <2>2, <2>3, <2>6 DEF Abstract!Next, Abstract!Release, Abstract!Free
  <2> QED BY <1>3, <2>4, <2>5, <2>6
<1>5. CASE ~(L > 0 /\ journal[L].kind = "claim" /\ journal[L].owner = node.owner)
  <2>1. /\ node.kind = "claim" /\ node.owner[2] = L + 1
        /\ node.expiresAt <= now + Lease
        /\ L = 0 \/ journal[L].kind = "available" \/ journal[L].expiresAt + Lease <= node.expiresAt
      BY <1>5 DEF MayFollow
  <2>2. ~AbstractClaim.live
    <3>1. CASE L = 0 \/ journal[L].kind = "available"
        BY <1>0, <3>1 DEF AbstractClaim, HeadNode
    <3>2. CASE L > 0 /\ journal[L].expiresAt + Lease <= node.expiresAt
      <4>1. journal[L].expiresAt \in Nat
          BY <1>0, <3>2 DEF Nodes
      <4>2. ~(journal[L].expiresAt > now)
          BY <1>0, <2>1, <3>2, <4>1
      <4> QED BY <1>0, <3>2, <4>2 DEF AbstractClaim, HeadNode
    <3> QED BY <1>0, <2>1, <3>1, <3>2
  <2>3. node.owner \notin SpentTokens
    <3>1. ASSUME NEW i \in 1..L, journal[i].owner = node.owner PROVE FALSE
      <4>1. journal[i].owner \in Tokens /\ journal[i].owner[2] <= i
          BY <1>3, <3>1, NoTokenIsNoToken DEF JournalInv, ChainInv, TokensAreOld, Positions
      <4> QED BY <1>0, <2>1, <3>1, <4>1
    <3> QED BY <3>1 DEF SpentTokens, Positions
  <2>4. AbstractClaim' \in [kind : {"held"}, owner : Tokens \ SpentTokens, live : BOOLEAN]
    <3>1. AbstractClaim' = [kind |-> "held", owner |-> node.owner, live |-> node.expiresAt > now]
        BY <1>1, <2>1
    <3> QED BY <1>b, <1>3, <2>3, <3>1, ClaimRecord
  <2>5. AbstractClaim'.owner = node.owner
      BY <1>1, <2>1
  <2>6. SpentTokens' = SpentTokens \cup {AbstractClaim'.owner}
      BY <1>2, <1>3, <2>5, NoTokenIsNoToken DEF SpentTokens
  <2> QED BY <2>2, <2>4, <2>6 DEF Abstract!Next, Abstract!Acquire, Abstract!Held
<1> QED BY <1>4, <1>5

\* The passing of time lets the last node lapse or changes nothing.
LEMMA QuietRefines ==
    ASSUME JournalInv, journal' = journal, now' = now \/ now' = now + 1
    PROVE  Abstract!Next \/ UNCHANGED <<AbstractClaim, SpentTokens>>
<1>1. SpentTokens' = SpentTokens
    BY DEF SpentTokens, Positions
<1>2. CASE now' = now
    BY <1>1, <1>2 DEF AbstractClaim, HeadNode
<1>3. CASE Len(journal) = 0 \/ HeadNode.kind = "available"
    BY <1>1, <1>3 DEF AbstractClaim, HeadNode
<1>4. CASE Len(journal) > 0 /\ HeadNode.kind # "available" /\ now' = now + 1
  <2> DEFINE kind == IF HeadNode.kind = "completed" THEN "done" ELSE "held"
  <2>0. HeadNode.expiresAt \in Nat /\ now \in Nat
      BY <1>4, HeadDecides DEF JournalInv, TypeOK, Nodes
  <2>1. /\ AbstractClaim = [kind |-> kind, owner |-> HeadNode.owner,
                            live |-> HeadNode.expiresAt > now]
        /\ AbstractClaim' = [kind |-> kind, owner |-> HeadNode.owner,
                             live |-> HeadNode.expiresAt > now + 1]
      BY <1>4 DEF AbstractClaim, HeadNode
  <2>2. CASE (HeadNode.expiresAt > now) = (HeadNode.expiresAt > now + 1)
      BY <1>1, <2>1, <2>2
  <2>3. CASE HeadNode.expiresAt > now /\ ~(HeadNode.expiresAt > now + 1)
    <3>a. (HeadNode.expiresAt > now) = TRUE /\ (HeadNode.expiresAt > now + 1) = FALSE
        BY <2>3
    <3>b. /\ AbstractClaim = [kind |-> kind, owner |-> HeadNode.owner, live |-> TRUE]
          /\ AbstractClaim' = [kind |-> kind, owner |-> HeadNode.owner, live |-> FALSE]
        BY <2>1, <3>a
    <3>1. /\ AbstractClaim.live
          /\ AbstractClaim' = [kind |-> AbstractClaim.kind, owner |-> AbstractClaim.owner,
                               live |-> FALSE]
      <4> HIDE DEF kind
      <4> QED BY <3>b
    <3> QED BY <1>1, <3>1 DEF Abstract!Next, Abstract!Lapse
  <2>4. HeadNode.expiresAt > now + 1 => HeadNode.expiresAt > now
      BY <2>0
  <2> QED BY <2>2, <2>3, <2>4
<1>5. Len(journal) \in Nat
    BY DEF JournalInv, TypeOK
<1> QED BY <1>2, <1>3, <1>4, <1>5

\* The append-only journal, with all its races, crashes and failed writes,
\* keeps the promise of an atomic claim.
THEOREM JournalImplementsAtomicClaim == Spec => ImplementsAtomicClaim
<1>1. Init => Abstract!Init
  <2> SUFFICES ASSUME Init PROVE Abstract!Init
      OBVIOUS
  <2>1. CASE journal = <<>>
    <3>1. AbstractClaim = [kind |-> "free", owner |-> NoToken, live |-> FALSE]
        BY <2>1 DEF AbstractClaim
    <3>2. SpentTokens = {}
        BY <2>1 DEF SpentTokens, Positions
    <3> QED BY <3>1, <3>2 DEF Abstract!Init, Abstract!Free
  <2>2. ASSUME NEW e \in LegacyStamps, journal = <<Node("legacy", NoToken, e)>>
        PROVE  Abstract!Init
    <3>1. /\ Len(journal) = 1 /\ journal[1].kind = "legacy"
          /\ journal[1].owner = NoToken /\ journal[1].expiresAt = e
        BY <2>2 DEF Node
    <3>2. AbstractClaim = [kind |-> "held", owner |-> NoToken, live |-> e > now]
        BY <3>1 DEF AbstractClaim, HeadNode
    <3>3. AbstractClaim \in [kind : {"held"}, owner : {NoToken}, live : BOOLEAN]
        BY <3>2
    <3>4. SpentTokens = {}
        BY <3>1 DEF SpentTokens, Positions
    <3> QED BY <3>3, <3>4 DEF Abstract!Init, Abstract!Held
  <2> QED BY <2>1, <2>2 DEF Init
<1>2. JournalInv /\ JournalInv' /\ [Next]_vars
      => [Abstract!Next]_<<AbstractClaim, SpentTokens>>
    BY OnlyLinksWrite, LinkRefines, QuietRefines
<1> QED BY <1>1, <1>2, JournalInvariant, PTL DEF Spec, ImplementsAtomicClaim, Abstract!Spec

---------------------------------------------------------------------------
(* What claimStatus answers and what complete retains                      *)

\* A completion in the journal, and one of the given owner.
WorkCompleted == \E i \in Positions : journal[i].kind = "completed"
CompletedBy(token) ==
    \E i \in Positions : journal[i].kind = "completed" /\ journal[i].owner = token

\* A completion, once linked, stays the completion of its owner.
LEMMA CompletionStays ==
    ASSUME JournalInv, JournalInv', [Next]_vars
    PROVE  /\ WorkCompleted => WorkCompleted'
           /\ \A token : CompletedBy(token) => CompletedBy(token)'
<1>1. Len(journal) \in Nat /\ Len(journal') \in Nat
    BY DEF JournalInv, TypeOK
<1>2. \A i \in Positions : i \in Positions' /\ journal'[i] = journal[i]
    BY <1>1, NodesStay DEF Positions
<1>3. WorkCompleted => WorkCompleted'
    BY <1>2 DEF WorkCompleted
<1>4. \A token : CompletedBy(token) => CompletedBy(token)'
    BY <1>2 DEF CompletedBy
<1> QED BY <1>3, <1>4

\* The only step that makes a request act on 'completed' reads a completion.
LEMMA AnswerStep ==
    ASSUME JournalInv, JournalInv', [Next]_vars, CompletedAnswerIsTrue
    PROVE  CompletedAnswerIsTrue'
<1> SUFFICES ASSUME NEW c \in Callers, told'[c] = "completed" PROVE WorkCompleted'
    BY DEF CompletedAnswerIsTrue, WorkCompleted
<1>0. TypeOK /\ DraftsFit
    BY DEF JournalInv
<1>1. told[c] = "completed" => WorkCompleted'
    BY CompletionStays DEF CompletedAnswerIsTrue, WorkCompleted
<1> USE DEF BecomeIdle, Become, TypeOK
<1>2. ASSUME NEW d \in Callers, ClaimStep(d) PROVE WorkCompleted'
  <2>1. CASE ClaimAnswered(d)
    <3>1. CASE StatusOf(seen[d], now) = "completed"
      <4>1. seen[d] # 0 /\ seen[d] \in 0..Len(journal) /\ journal[seen[d]].kind = "completed"
          BY <1>0, <2>1, <3>1 DEF ClaimAnswered, StatusOf, DraftsFit
      <4>2. WorkCompleted
          BY <4>1 DEF WorkCompleted, Positions
      <4> QED BY <4>2, CompletionStays
    <3>2. CASE StatusOf(seen[d], now) # "completed"
        BY <1>0, <1>1, <2>1, <3>2 DEF ClaimAnswered
    <3> QED BY <3>1, <3>2
  <2>2. CASE ~ClaimAnswered(d)
      BY <1>0, <1>1, <1>2, <2>2 DEF ClaimStep, ClaimRefused, ClaimStart, ClaimReadHead,
         ClaimDecide, ClaimLinkLost, ClaimLinkWon, ClaimAcquired, ClaimFails
  <2> QED BY <2>1, <2>2
<1>3. ASSUME NEW d \in Callers, EndStep(d) PROVE WorkCompleted'
    BY <1>0, <1>1, <1>3 DEF EndStep, EndNothing, EndStart, EndReadHead, EndOwnershipLost,
       EndLinkLost, EndLinkWon, EndDone, EndFails, Returns, Throws
<1>4. ASSUME NEW p \in Procs, RenewStart(p) \/ Crash(p) PROVE WorkCompleted'
    BY <1>0, <1>1, <1>4 DEF RenewStart, Crash, locals
<1>5. ASSUME NEW r \in renewals, RenewStep(r) PROVE WorkCompleted'
    BY <1>1, <1>5 DEF RenewStep, RenewReadHead, RenewOwnershipLost, RenewLinkLost, RenewLinkWon,
       RenewFails, locals
<1>6. CASE Tick \/ UNCHANGED vars
    BY <1>1, <1>6 DEF Tick, vars, locals
<1> QED BY <1>2, <1>3, <1>4, <1>5, <1>6 DEF Next

\* claimStatus answers 'completed' for completed work only, whatever ran
\* between the head it read and the answer it gave.
THEOREM CompletedAnswersAreTrue == Spec => []CompletedAnswerIsTrue
<1>1. Init => CompletedAnswerIsTrue
    BY DEF Init, CompletedAnswerIsTrue
<1>2. JournalInv /\ JournalInv' /\ CompletedAnswerIsTrue /\ [Next]_vars => CompletedAnswerIsTrue'
    BY AnswerStep
<1> QED BY <1>1, <1>2, JournalInvariant, PTL DEF Spec

\* No two requests run in one process.
RequestsAreAlone == \A c, d \in Callers : Home[c] = Home[d] => c = d

\* What a request with a process of its own can rely on: the map entry it
\* works under is its own, it completes its own claim, and a completion it
\* was told of, or is about to be, is in the journal.
HoldsItsOwn ==
    \A c \in Callers :
        /\ step[c] = "working" => owners[Home[c]].token = mine[c]
        /\ step[c] \in EndingSteps /\ draft[c].kind = "completed" => draft[c].owner = mine[c]
        /\ step[c] = "endSync" /\ draft[c].kind = "completed" => CompletedBy(mine[c])
        /\ told[c] = "complete_ok" => CompletedBy(mine[c])

\* A request moves on and touches the map of its own process only.
LEMMA AloneBecomes ==
    ASSUME TypeOK, RequestsAreAlone, HoldsItsOwn,
           \A t : CompletedBy(t) => CompletedBy(t)',
           NEW c \in Callers, NEW s, NEW token, NEW result, NEW n, NEW node,
           Become(c, s, token, result, n, node),
           \A p \in Procs : p # Home[c] => owners'[p] = owners[p],
           s = "working" => owners'[Home[c]].token = token,
           s \in EndingSteps /\ node.kind = "completed" => node.owner = token,
           s = "endSync" /\ node.kind = "completed" => CompletedBy(token)',
           result = "complete_ok" => CompletedBy(token)'
    PROVE  HoldsItsOwn'
<1> SUFFICES ASSUME NEW d \in Callers
             PROVE  /\ step'[d] = "working" => owners'[Home[d]].token = mine'[d]
                    /\ step'[d] \in EndingSteps /\ draft'[d].kind = "completed"
                          => draft'[d].owner = mine'[d]
                    /\ step'[d] = "endSync" /\ draft'[d].kind = "completed"
                          => CompletedBy(mine[d])'
                    /\ told'[d] = "complete_ok" => CompletedBy(mine[d])'
    BY DEF HoldsItsOwn
<1>1. CASE d = c
  <2>1. /\ step'[d] = s /\ mine'[d] = token /\ told'[d] = result /\ draft'[d] = node
      BY <1>1 DEF Become, TypeOK
  <2>2. CompletedBy(token)' => CompletedBy(mine[d])'
      BY <2>1 DEF CompletedBy
  <2> QED BY <1>1, <2>1, <2>2
<1>2. CASE d # c
  <2>1. /\ step'[d] = step[d] /\ mine'[d] = mine[d] /\ told'[d] = told[d]
        /\ draft'[d] = draft[d]
      BY <1>2 DEF Become, TypeOK
  <2>2. owners'[Home[d]] = owners[Home[d]]
      BY <1>2, ConstantsAssumption DEF RequestsAreAlone
  <2>3. CompletedBy(mine[d]) => CompletedBy(mine[d])'
    <3>1. PICK t : t = mine[d]
        OBVIOUS
    <3>2. CompletedBy(t) => CompletedBy(t)'
        OBVIOUS
    <3> QED BY <2>1, <3>1, <3>2 DEF CompletedBy
  <2> QED BY <2>1, <2>2, <2>3 DEF HoldsItsOwn
<1> QED BY <1>1, <1>2

\* A heartbeat or the clock moves on: requests stand still, entries of the
\* map keep their token.
LEMMA AloneStays ==
    ASSUME HoldsItsOwn, UNCHANGED locals,
           \A t : CompletedBy(t) => CompletedBy(t)',
           \A p \in Procs : owners'[p].token = owners[p].token
    PROVE  HoldsItsOwn'
<1> SUFFICES ASSUME NEW d \in Callers
             PROVE  /\ step'[d] = "working" => owners'[Home[d]].token = mine'[d]
                    /\ step'[d] \in EndingSteps /\ draft'[d].kind = "completed"
                          => draft'[d].owner = mine'[d]
                    /\ step'[d] = "endSync" /\ draft'[d].kind = "completed"
                          => CompletedBy(mine[d])'
                    /\ told'[d] = "complete_ok" => CompletedBy(mine[d])'
    BY DEF HoldsItsOwn
<1>1. /\ step'[d] = step[d] /\ mine'[d] = mine[d] /\ told'[d] = told[d]
      /\ draft'[d] = draft[d]
    BY DEF locals
<1>2. owners'[Home[d]].token = owners[Home[d]].token
    BY ConstantsAssumption
<1>3. CompletedBy(mine[d]) => CompletedBy(mine[d])'
  <2>1. PICK t : t = mine[d]
      OBVIOUS
  <2>2. CompletedBy(t) => CompletedBy(t)'
      OBVIOUS
  <2> QED BY <1>1, <2>1, <2>2 DEF CompletedBy
<1> QED BY <1>1, <1>2, <1>3 DEF HoldsItsOwn

\* Every step of the store keeps a request that is alone in its process with
\* what is its own.
LEMMA AloneStep ==
    ASSUME RequestsAreAlone, JournalInv, JournalInv', HoldsItsOwn, [Next]_vars
    PROVE  HoldsItsOwn'
<1>0. /\ TypeOK /\ DraftsFit
      /\ \A t : CompletedBy(t) => CompletedBy(t)'
      /\ journal \in Seq(Nodes) /\ Len(journal) \in Nat
    BY CompletionStays DEF JournalInv, TypeOK
<1>h. \A c \in Callers : Home[c] \in Procs
    BY ConstantsAssumption
<1> USE DEF EndingSteps, BecomeIdle
<1>1. ASSUME NEW c \in Callers, ClaimStep(c) PROVE HoldsItsOwn'
  <2>1. CASE ClaimRefused(c) \/ ClaimFails(c)
      BY <1>0, <2>1, AloneBecomes DEF ClaimRefused, ClaimFails
  <2>2. CASE ClaimStart(c) \/ ClaimReadHead(c) \/ ClaimLinkLost(c)
      BY <1>0, <2>2, AloneBecomes DEF ClaimStart, ClaimReadHead, ClaimLinkLost
  <2>3. CASE ClaimAnswered(c)
      BY <1>0, <2>3, AloneBecomes DEF ClaimAnswered
  <2>4. CASE ClaimDecide(c)
    <3>1. PICK token, n, node : Become(c, "claimLink", token, "none", n, node)
        BY <2>4 DEF ClaimDecide
    <3> QED BY <1>0, <2>4, <3>1, AloneBecomes DEF ClaimDecide
  <2>5. CASE ClaimLinkWon(c)
      BY <1>0, <2>5, AloneBecomes DEF ClaimLinkWon
  <2>6. CASE ClaimAcquired(c)
    <3>1. owners'[Home[c]].token = mine[c] /\ \A p \in Procs : p # Home[c] => owners'[p] = owners[p]
        BY <1>0, <1>h, <2>6 DEF ClaimAcquired, TypeOK, Owner
    <3> QED BY <1>0, <2>6, <3>1, AloneBecomes DEF ClaimAcquired
  <2> QED BY <1>1, <2>1, <2>2, <2>3, <2>4, <2>5, <2>6 DEF ClaimStep
<1>2. ASSUME NEW c \in Callers, EndStep(c) PROVE HoldsItsOwn'
  <2>0. /\ step[c] \in HoldingSteps => mine[c] \in Tokens
        /\ step[c] = "working" => owners[Home[c]].token = mine[c]
        /\ step[c] \in EndingSteps /\ draft[c].kind = "completed" => draft[c].owner = mine[c]
        /\ step[c] = "endSync" /\ draft[c].kind = "completed" => CompletedBy(mine[c])
      BY <1>0 DEF TypeOK, HoldsItsOwn
  <2>1. ASSUME NEW kind \in {"completed", "available"}, EndNothing(c, kind)
        PROVE  HoldsItsOwn'
    <3>1. kind = "available"
      <4>1. CASE step[c] = "working"
        <5>1. mine[c] = NoToken
            BY <2>0, <2>1, <4>1 DEF EndNothing, NoOwner, Owner
        <5> QED BY <2>0, <4>1, <5>1, NoTokenIsNoToken DEF HoldingSteps
      <4>2. CASE step[c] # "working"
          BY <2>1, <4>2 DEF EndNothing, MayEnd
      <4> QED BY <4>1, <4>2
    <3>2. Become(c, "idle", NoToken, "none", 0, NoDraft)
        BY <2>1, <3>1 DEF EndNothing, Returns
    <3> QED BY <1>0, <2>1, <3>2, AloneBecomes DEF EndNothing
  <2>2. ASSUME NEW kind \in {"completed", "available"}, EndStart(c, kind)
        PROVE  HoldsItsOwn'
    <3> DEFINE node == Node(kind, owners[Home[c]].token, 0)
    <3>1. node.kind = "completed" => node.owner = mine[c]
        BY <2>0, <2>2 DEF EndStart, MayEnd, Node
    <3>2. Become(c, "endRead", mine[c], "none", 0, node)
        BY <2>2 DEF EndStart
    <3>3. \A p \in Procs : p # Home[c] => owners'[p] = owners[p]
        BY <1>0, <2>2 DEF EndStart, TypeOK
    <3> HIDE DEF node
    <3> QED BY <1>0, <3>1, <3>2, <3>3, AloneBecomes
  <2>3. CASE EndReadHead(c)
    <3>1. PICK n, stamp :
             Become(c, "endLink", mine[c], "none", n, Node(draft[c].kind, draft[c].owner, stamp))
        BY <2>3 DEF EndReadHead
    <3>2. PICK node : node = Node(draft[c].kind, draft[c].owner, stamp)
        OBVIOUS
    <3>3. node.kind = "completed" => node.owner = mine[c]
        BY <2>0, <2>3, <3>2 DEF EndReadHead, Node
    <3> QED BY <1>0, <2>3, <3>1, <3>2, <3>3, AloneBecomes DEF EndReadHead
  <2>4. CASE EndOwnershipLost(c) \/ EndFails(c)
    <3>1. PICK s, token : s \in {"idle", "giveup"} /\ Become(c, s, token, "none", 0, NoDraft)
        BY <2>4 DEF EndOwnershipLost, EndFails, Throws
    <3>2. \A p \in Procs : p # Home[c] => owners'[p] = owners[p]
        BY <1>0, <2>4 DEF EndOwnershipLost, EndFails, TypeOK
    <3> QED BY <1>0, <3>1, <3>2, AloneBecomes
  <2>5. CASE EndLinkLost(c)
    <3> DEFINE node == Node(draft[c].kind, draft[c].owner, 0)
    <3>1. node.kind = "completed" => node.owner = mine[c]
        BY <2>0, <2>5 DEF EndLinkLost, Node
    <3>2. Become(c, "endRead", mine[c], "none", 0, node)
        BY <2>5 DEF EndLinkLost
    <3> HIDE DEF node
    <3> QED BY <1>0, <2>5, <3>1, <3>2, AloneBecomes DEF EndLinkLost
  <2>6. CASE EndLinkWon(c)
    <3> DEFINE node == Node(draft[c].kind, draft[c].owner, 0)
    <3>1. /\ node.kind = draft[c].kind
          /\ node.kind = "completed" => node.owner = mine[c] /\ draft[c].owner = mine[c]
        BY <2>0, <2>6 DEF EndLinkWon, Node
    <3>2. Become(c, "endSync", mine[c], "none", 0, node)
        BY <2>6 DEF EndLinkWon
    <3>3. PICK token, last : token = mine[c] /\ last = draft[c]
        OBVIOUS
    <3>4. node.kind = "completed" => CompletedBy(token)'
      <4>1. /\ Len(journal') = Len(journal) + 1
            /\ journal'[Len(journal) + 1] = last
          BY <1>0, <2>6, <3>3 DEF EndLinkWon, Link, TypeOK
      <4>2. Len(journal) + 1 \in Positions'
          BY <1>0, <4>1 DEF Positions
      <4> HIDE DEF node
      <4> QED BY <3>1, <3>3, <4>1, <4>2 DEF CompletedBy
    <3> HIDE DEF node
    <3> QED BY <1>0, <2>6, <3>1, <3>2, <3>3, <3>4, AloneBecomes DEF EndLinkWon
  <2>7. CASE EndDone(c)
    <3>1. PICK token, result : /\ Become(c, "idle", token, result, 0, NoDraft)
                               /\ result = "complete_ok" => CompletedBy(token)
        BY <2>0, <2>7 DEF EndDone, Returns
    <3>2. \A p \in Procs : p # Home[c] => owners'[p] = owners[p]
        BY <1>0, <2>7 DEF EndDone, TypeOK
    <3> QED BY <1>0, <3>1, <3>2, AloneBecomes
  <2> QED BY <1>2, <2>1, <2>2, <2>3, <2>4, <2>5, <2>6, <2>7 DEF EndStep
<1>3. ASSUME NEW p \in Procs, RenewStart(p) PROVE HoldsItsOwn'
    BY <1>0, <1>3, AloneStays DEF RenewStart
<1>4. ASSUME NEW p \in Procs, Crash(p) PROVE HoldsItsOwn'
  <2>1. ASSUME NEW d \in Callers, Home[d] = p
        PROVE  step'[d] = "idle" /\ told'[d] = "none"
      BY <1>4, <2>1 DEF Crash
  <2>2. ASSUME NEW d \in Callers, Home[d] # p
        PROVE  /\ step'[d] = step[d] /\ mine'[d] = mine[d] /\ told'[d] = told[d]
               /\ draft'[d] = draft[d] /\ owners'[Home[d]] = owners[Home[d]]
               /\ CompletedBy(mine[d]) => CompletedBy(mine[d])'
    <3>1. /\ step'[d] = step[d] /\ mine'[d] = mine[d] /\ told'[d] = told[d]
          /\ draft'[d] = draft[d] /\ owners'[Home[d]] = owners[Home[d]]
        BY <1>0, <1>h, <1>4, <2>2 DEF Crash, TypeOK
    <3>2. CompletedBy(mine[d]) => CompletedBy(mine[d])'
        BY <1>4, <3>1 DEF Crash, CompletedBy, Positions
    <3> QED BY <3>1, <3>2
  <2> QED BY <2>1, <2>2 DEF HoldsItsOwn
<1>5. ASSUME NEW r \in renewals, RenewStep(r) PROVE HoldsItsOwn'
  <2>1. r.proc \in Procs
      BY <1>0 DEF TypeOK, Renewals
  <2>2. UNCHANGED locals
      BY <1>5 DEF RenewStep, RenewReadHead, RenewOwnershipLost, RenewLinkLost, RenewLinkWon,
         RenewFails
  <2>3. \A p \in Procs : owners'[p].token = owners[p].token
    <3>1. CASE RenewOwnershipLost(r)
      <4>1. owners' = [owners EXCEPT ![r.proc] =
               IF @.token = r.token THEN Owner(@.token, @.closing, FALSE) ELSE @]
          BY <3>1 DEF RenewOwnershipLost
      <4>2. owners'[r.proc].token = owners[r.proc].token
          BY <1>0, <2>1, <4>1 DEF Owner, TypeOK
      <4> QED BY <1>0, <2>1, <4>1, <4>2 DEF TypeOK
    <3>2. CASE ~RenewOwnershipLost(r)
        BY <1>5, <3>2 DEF RenewStep, RenewReadHead, RenewLinkLost, RenewLinkWon, RenewFails
    <3> QED BY <3>1, <3>2
  <2> QED BY <1>0, <2>2, <2>3, AloneStays
<1>6. CASE Tick \/ UNCHANGED vars
    BY <1>0, <1>6, AloneStays DEF Tick, vars
<1> QED BY <1>1, <1>2, <1>3, <1>4, <1>5, <1>6 DEF Next

\* complete retains the claim it was called for, whatever lapses, takeovers,
\* crashes and failed writes come in between, when no two requests for the
\* event run in one process.
THEOREM CompletionIsRetained ==
    ASSUME RequestsAreAlone
    PROVE  Spec => []CompleteIsRetained
<1>1. Init => HoldsItsOwn
    BY DEF Init, HoldsItsOwn, EndingSteps
<1>2. JournalInv /\ JournalInv' /\ HoldsItsOwn /\ [Next]_vars => HoldsItsOwn'
    BY AloneStep
<1>3. HoldsItsOwn => CompleteIsRetained
    BY DEF HoldsItsOwn, CompleteIsRetained, CompletedBy
<1> QED BY <1>1, <1>2, <1>3, JournalInvariant, PTL DEF Spec
===========================================================================
