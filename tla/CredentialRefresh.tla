-------------------------- MODULE CredentialRefresh --------------------------
(***************************************************************************)
(* The credentials of one connection in one process (src/credentials.ts):  *)
(* callers that resolve them and share one refresh, adapters that rotate   *)
(* them during an invocation, and revocations.  The secret store and the   *)
(* connection store are asynchronous: every read and write of theirs is a  *)
(* step, and between two steps of one operation the others run.            *)
(*                                                                         *)
(* A token stands for a whole credential envelope.  It is named by whoever *)
(* obtained it: the flight of a caller, a rotation, or nobody (Granted).   *)
(* A refresh token is redeemed once: the provider refuses it afterwards.   *)
(* Flights redeem what they read when they start; an adapter redeems what  *)
(* its invocation was handed, whatever is stored by then.                  *)
(***************************************************************************)
EXTENDS Naturals, FiniteSets

CONSTANTS
    Callers,    \* calls of resolveConnectionCredentials
    Rotations,  \* invocations in which an adapter rotates the credentials
    Revokers,   \* calls of revokeConnection
    Granted,    \* the token of the authorization
    None,       \* no secret, no flight
    MaxBegun,   \* bound: the operations that begin
    MaxFaults   \* bound: failing store calls and listeners

ASSUME CredentialAssumption ==
    /\ None \notin Callers \cup Rotations \cup Revokers \cup {Granted}
    /\ Granted \notin Callers \cup Rotations \cup Revokers
    /\ Callers \cap Rotations = {} /\ Callers \cap Revokers = {}
    /\ Rotations \cap Revokers = {}
    /\ MaxBegun \in Nat /\ MaxFaults \in Nat

VARIABLES
    secret,     \* the token in the secret store
    expired,    \* the tokens that have expired
    redeemed,   \* the tokens whose refresh token the provider has taken
    status,     \* the stored status of the connection
    at,         \* at[p]: where caller, rotation or revoker p stands
    stage,      \* stage[p]: the checks of assertCredentialRefreshActive p passed
    doomed,     \* doomed[p]: revoked, in the check p is in
    stored,     \* stored[p]: the status that check read
    entry,      \* the flight in credentialRefreshes, named by its creator
    flight,     \* flight[f]: where the refresh of flight f stands
    token,      \* token[p]: what flight p read or obtained, or the invocation
                \*   of rotation p was handed
    joined,     \* joined[c]: the flight caller c waits for
    cancelled,  \* the flights and persistence leases marked cancelled
    result,     \* result[c]: the token caller c returned
    revoked,    \* the revokers that have returned
    faults

stores == <<secret, status>>
check == <<stage, doomed, stored>>
flights == <<entry, flight, token, joined, redeemed>>
ghosts == <<expired, result, revoked, faults>>
vars == <<secret, expired, redeemed, status, at, stage, doomed, stored,
          entry, flight, token, joined, cancelled, result, revoked, faults>>

Actors == Callers \cup Rotations \cup Revokers
Asserting == Callers \cup Rotations
Tokens == {Granted} \cup Callers \cup Rotations
Statuses == {"active", "expired", "revoked"}

TypeOK ==
    /\ secret \in Tokens \cup {None}
    /\ expired \subseteq Tokens /\ redeemed \subseteq Tokens
    /\ status \in Statuses
    /\ at \in [Actors -> {"idle", "secret", "redeem", "readStatus", "readSecret",
                          "delete", "mark", "acquire", "wait", "write", "activate",
                          "notify", "expire", "done"}]
    /\ stage \in [Asserting -> 0..4]
    /\ doomed \in [Asserting -> BOOLEAN]
    /\ stored \in [Asserting -> Statuses]
    /\ entry \in Callers \cup {None}
    /\ flight \in [Callers -> {"none", "read", "redeem", "write", "written", "undo",
                               "resolved", "failed", "revoked"}]
    /\ token \in [Asserting -> Tokens \cup {None}]
    /\ joined \in [Callers -> Callers \cup {None}]
    /\ cancelled \subseteq Asserting
    /\ result \in [Callers -> Tokens \cup {None}]
    /\ revoked \subseteq Revokers
    /\ faults \in 0..MaxFaults

Fault == faults < MaxFaults /\ faults' = faults + 1

\* A revocation is between its begin and its finish.
Revoking == \E v \in Revokers : at[v] \in {"delete", "mark"}
Settled(f) == flight[f] \in {"resolved", "failed", "revoked"}
Waiters(f) == {c \in Callers : joined[c] = f}

\* p is the next operation to begin.
Begins(p) ==
    /\ at[p] = "idle"
    /\ Cardinality({q \in Actors : at[q] # "idle"}) < MaxBegun

Goto(p, pc) == at' = [at EXCEPT ![p] = pc]

\* flight.cancelled or lease.cancelled of the operation p takes part in.
Operation(p) == IF p \in Rotations THEN {p} ELSE {joined[p]} \cap Callers

---------------------------------------------------------------------------
(* assertCredentialRefreshActive                                           *)

\* Fault: the flags are forgotten, the stores alone decide.
EnterUnflagged(p) ==
    /\ Goto(p, "readStatus")
    /\ stage' = [stage EXCEPT ![p] = @ + 1]
    /\ doomed' = [doomed EXCEPT ![p] = FALSE]

\* p enters its next check: the flags are read before the stores.
Enter(p) ==
    /\ Goto(p, "readStatus")
    /\ stage' = [stage EXCEPT ![p] = @ + 1]
    /\ doomed' = [doomed EXCEPT ![p] = Operation(p) \cap cancelled # {} \/ Revoking]

\* Fault: a rotation writes the connection after every check.
ProceedsAgain(p) ==
    CASE p \in Callers /\ stage[p] = 1 -> "acquire"
      [] p \in Callers /\ stage[p] = 2 -> "activate"
      [] p \in Rotations /\ stage[p] = 1 -> "write"
      [] p \in Rotations /\ stage[p] # 1 -> "activate"
      [] OTHER -> "done"

\* What p does when a check finds the connection active.
Proceeds(p) ==
    CASE p \in Callers /\ stage[p] = 1 -> "acquire"
      [] p \in Callers /\ stage[p] = 2 -> "activate"
      [] p \in Rotations /\ stage[p] = 1 -> "write"
      [] p \in Rotations /\ stage[p] = 2 -> "activate"
      [] p \in Rotations /\ stage[p] = 3 -> "notify"
      [] OTHER -> "done"

AssertStatus(p) ==
    /\ at[p] = "readStatus"
    /\ stored' = [stored EXCEPT ![p] = status]
    /\ doomed' = [doomed EXCEPT ![p] = @ \/ status = "revoked"]
    /\ \/ doomed'[p] /\ Goto(p, "delete") /\ cancelled' = cancelled \cup Operation(p)
       \/ ~doomed'[p] /\ Goto(p, "readSecret") /\ UNCHANGED cancelled
    /\ UNCHANGED <<stores, stage, flights, ghosts>>

\* Fault: only the settling flight clears the map.
LeaveUncleared(c) ==
    /\ joined' = [joined EXCEPT ![c] = None]
    /\ UNCHANGED entry

\* Release: the caller leaves its flight, which is cleared once it is settled
\* and nobody waits for it.
Leave(c) ==
    /\ joined' = [joined EXCEPT ![c] = None]
    /\ entry' = IF joined[c] # None /\ entry = joined[c] /\ Settled(entry)
                   /\ Waiters(entry) = {c}
                THEN None ELSE entry

\* The locals of the check p was in are gone.
Forget(p) ==
    /\ doomed' = [doomed EXCEPT ![p] = FALSE]
    /\ stored' = [stored EXCEPT ![p] = "active"]

\* An operation ends.
Ends(p) ==
    /\ Goto(p, "done")
    /\ \/ p \in Callers /\ Leave(p)
       \/ p \in Rotations /\ UNCHANGED <<joined, entry>>

AssertSecret(p) ==
    /\ at[p] = "readSecret"
    /\ \/ /\ secret = None
          /\ Goto(p, "delete")
          /\ cancelled' = cancelled \cup Operation(p)
          /\ UNCHANGED <<doomed, stored, joined, entry, result>>
       \/ /\ secret # None /\ Proceeds(p) # "done"
          /\ Goto(p, Proceeds(p)) /\ Forget(p)
          /\ UNCHANGED <<cancelled, joined, entry, result>>
       \/ /\ secret # None /\ Proceeds(p) = "done"
          /\ Ends(p) /\ Forget(p)
          /\ \/ p \in Callers /\ result' = [result EXCEPT ![p] = token[joined[p]]]
             \/ p \in Rotations /\ UNCHANGED result
          /\ UNCHANGED cancelled
    /\ UNCHANGED <<stores, stage, flight, token, redeemed, expired, revoked, faults>>

\* The connection is revoked: the secret goes, and the status is written.
AssertDelete(p) ==
    /\ p \in Asserting /\ at[p] = "delete"
    /\ secret' = None
    /\ \/ stored[p] # "revoked" /\ Goto(p, "mark") /\ UNCHANGED <<joined, entry>>
       \/ stored[p] = "revoked" /\ Ends(p)
    /\ Forget(p)
    /\ UNCHANGED <<status, stage, flight, token, redeemed, cancelled, ghosts>>

AssertMark(p) ==
    /\ p \in Asserting /\ at[p] = "mark"
    /\ status' = "revoked"
    /\ Ends(p)
    /\ UNCHANGED <<secret, check, flight, token, redeemed, cancelled, ghosts>>

---------------------------------------------------------------------------
(* resolveConnectionCredentials                                            *)

\* The caller has loaded the connection; only an active one is resolved.
Resolve(c) ==
    /\ c \in Callers /\ Begins(c)
    /\ \/ status = "active" /\ Goto(c, "secret")
       \/ status # "active" /\ Goto(c, "done")
    /\ UNCHANGED <<stores, check, flights, cancelled, ghosts>>

ReadSecret(c) ==
    /\ c \in Callers /\ at[c] = "secret"
    /\ \/ /\ secret = None \/ secret \notin expired
          /\ Goto(c, "done")
          /\ result' = [result EXCEPT ![c] = secret]
          /\ UNCHANGED <<stage, doomed>>
       \/ /\ secret # None /\ secret \in expired
          /\ Enter(c)
          /\ UNCHANGED result
    /\ UNCHANGED <<stores, stored, flights, cancelled, expired, revoked, faults>>

\* acquireCredentialRefresh
AcquireRevoked(c) ==
    /\ at[c] = "acquire"
    /\ Revoking
    /\ Ends(c)
    /\ UNCHANGED <<stores, check, flight, token, redeemed, cancelled, ghosts>>

AcquireJoins(c) ==
    /\ at[c] = "acquire"
    /\ ~Revoking /\ entry # None
    /\ joined' = [joined EXCEPT ![c] = entry]
    /\ Goto(c, "wait")
    /\ UNCHANGED <<stores, check, entry, flight, token, redeemed, cancelled, ghosts>>

AcquireFlies(c) ==
    /\ at[c] = "acquire"
    /\ ~Revoking /\ entry = None
    /\ entry' = c
    /\ joined' = [joined EXCEPT ![c] = c]
    /\ flight' = [flight EXCEPT ![c] = "read"]
    /\ Goto(c, "wait")
    /\ UNCHANGED <<stores, check, token, redeemed, cancelled, ghosts>>

WaitOver(c) ==
    /\ at[c] = "wait"
    /\ \/ flight[joined[c]] = "resolved" /\ Enter(c) /\ UNCHANGED <<joined, entry>>
       \/ /\ flight[joined[c]] = "failed" /\ Goto(c, "expire")
          /\ UNCHANGED <<stage, doomed, joined, entry>>
       \/ flight[joined[c]] = "revoked" /\ Ends(c) /\ UNCHANGED <<stage, doomed>>
    /\ UNCHANGED <<stores, stored, flight, token, redeemed, cancelled, ghosts>>

\* The connection is written as active by a caller or a rotation.
Activate(p) ==
    /\ at[p] = "activate"
    /\ status' = "active"
    /\ Enter(p)
    /\ UNCHANGED <<secret, stored, flights, cancelled, ghosts>>

\* The catch block: after markConnectionError the connection is expired.
WriteExpired(c) ==
    /\ at[c] = "expire"
    /\ status' = "expired"
    /\ Ends(c)
    /\ UNCHANGED <<secret, check, flight, token, redeemed, cancelled, ghosts>>

---------------------------------------------------------------------------
(* The refresh of a flight                                                 *)

\* A flight moves on; a flight that settles with no waiter left is cleared.
Fly(f, pc) ==
    /\ flight' = [flight EXCEPT ![f] = pc]
    /\ entry' = IF entry = f /\ Waiters(f) = {} /\ pc \in {"resolved", "failed", "revoked"}
                THEN None ELSE entry

\* Fault: what the callers read when they came is redeemed, not read again.
FlightReadsNothing(f) ==
    /\ flight[f] = "read"
    /\ token' = [token EXCEPT ![f] = Granted]
    /\ Fly(f, "redeem")
    /\ UNCHANGED <<stores, at, check, joined, redeemed, cancelled, ghosts>>

\* Fault: a deleted secret is waited for.
FlightReadsPatiently(f) ==
    /\ flight[f] = "read" /\ secret # None
    /\ token' = [token EXCEPT ![f] = secret]
    /\ Fly(f, IF secret \in expired THEN "redeem" ELSE "resolved")
    /\ UNCHANGED <<stores, at, check, joined, redeemed, cancelled, ghosts>>

FlightReads(f) ==
    /\ flight[f] = "read"
    /\ token' = [token EXCEPT ![f] = secret]
    /\ \/ secret = None /\ Fly(f, "failed")
       \/ secret # None /\ secret \notin expired /\ Fly(f, "resolved")
       \/ secret # None /\ secret \in expired /\ Fly(f, "redeem")
    /\ UNCHANGED <<stores, at, check, joined, redeemed, cancelled, ghosts>>

\* The provider takes the refresh token and answers with a new one, unless
\* it has seen it before.
FlightRedeems(f) ==
    /\ flight[f] = "redeem"
    /\ \/ /\ token[f] \notin redeemed
          /\ redeemed' = redeemed \cup {token[f]}
          /\ token' = [token EXCEPT ![f] = f]
          /\ Fly(f, IF f \in cancelled THEN "revoked" ELSE "write")
       \/ /\ token[f] \in redeemed
          /\ Fly(f, "failed")
          /\ UNCHANGED <<redeemed, token>>
    /\ UNCHANGED <<stores, at, check, joined, cancelled, ghosts>>

FlightWrites(f) ==
    /\ flight[f] = "write"
    /\ secret' = f
    /\ Fly(f, "written")
    /\ UNCHANGED <<status, at, check, token, joined, redeemed, cancelled, ghosts>>

FlightWritten(f) ==
    /\ flight[f] = "written"
    /\ Fly(f, IF f \in cancelled THEN "undo" ELSE "resolved")
    /\ UNCHANGED <<stores, at, check, token, joined, redeemed, cancelled, ghosts>>

FlightUndoes(f) ==
    /\ flight[f] = "undo"
    /\ secret' = None
    /\ Fly(f, "revoked")
    /\ UNCHANGED <<status, at, check, token, joined, redeemed, cancelled, ghosts>>

---------------------------------------------------------------------------
(* onCredentialsRotated of the credential-backed provider                  *)

\* An invocation is handed the credentials, which are good; later its adapter
\* finds that they are about to expire, or is answered 401.
Rotate(r) ==
    /\ r \in Rotations /\ Begins(r)
    /\ secret # None /\ secret \notin expired /\ status = "active"
    /\ token' = [token EXCEPT ![r] = secret]
    /\ Goto(r, "redeem")
    /\ UNCHANGED <<stores, check, entry, flight, joined, redeemed, cancelled, ghosts>>

\* The adapter redeems the refresh token it was handed.  It calls back with the
\* new credentials; an adapter that does not call back keeps them to itself, and
\* what the provider refuses it throws.
RotationRedeems(r) ==
    /\ r \in Rotations /\ at[r] = "redeem"
    /\ \/ token[r] \notin redeemed /\ Goto(r, "acquire")
       \/ Goto(r, "done")
    /\ redeemed' = redeemed \cup {token[r]}
    /\ UNCHANGED <<stores, check, entry, flight, token, joined, cancelled, ghosts>>

\* acquireCredentialPersistence: the lease is cancelled during a revocation.
Lease(r) ==
    /\ r \in Rotations /\ at[r] = "acquire"
    /\ cancelled' = IF Revoking THEN cancelled \cup {r} ELSE cancelled
    /\ Enter(r)
    /\ UNCHANGED <<stores, stored, flights, ghosts>>

WriteRotated(r) ==
    /\ r \in Rotations /\ at[r] = "write"
    /\ secret' = r
    /\ Enter(r)
    /\ UNCHANGED <<status, stored, flights, cancelled, ghosts>>

\* The host's onCredentialsRotated returns.
Notify(r) ==
    /\ at[r] = "notify"
    /\ Enter(r)
    /\ UNCHANGED <<stores, stored, flights, cancelled, ghosts>>

---------------------------------------------------------------------------
(* revokeConnection                                                        *)

\* The leases that are registered now.
Leased == {r \in Rotations : at[r] \notin {"idle", "redeem", "acquire", "done"}}

Revoke(v) ==
    /\ v \in Revokers /\ Begins(v)
    /\ Goto(v, "delete")
    /\ cancelled' = cancelled \cup ({entry} \cap Callers) \cup Leased
    /\ UNCHANGED <<stores, check, flights, ghosts>>

RevokeDeletes(v) ==
    /\ v \in Revokers /\ at[v] = "delete"
    /\ secret' = None
    /\ Goto(v, "mark")
    /\ UNCHANGED <<status, check, flights, cancelled, ghosts>>

RevokeMarks(v) ==
    /\ v \in Revokers /\ at[v] = "mark"
    /\ status' = "revoked"
    /\ revoked' = revoked \cup {v}
    /\ Goto(v, "done")
    /\ UNCHANGED <<secret, check, flights, cancelled, expired, result, faults>>

---------------------------------------------------------------------------
(* Failures and time                                                       *)

\* A store or a listener fails one caller, rotation, revoker or flight.  In a
\* caller that has passed its first read, the catch block follows.
CallerFails(c) ==
    /\ c \in Callers
    /\ Fault
    /\ \/ at[c] \in {"readStatus", "readSecret", "delete", "mark", "activate"}
          /\ Goto(c, "expire") /\ UNCHANGED <<joined, entry>>
       \/ at[c] \in {"secret", "expire"} /\ Ends(c)
    /\ UNCHANGED <<stores, check, flight, token, redeemed, cancelled, expired, result, revoked>>

OtherFails(p) ==
    /\ p \in Rotations \cup Revokers
    /\ at[p] \notin {"idle", "acquire", "done"}
    /\ Fault
    /\ Goto(p, "done")
    /\ UNCHANGED <<stores, check, flights, cancelled, expired, result, revoked>>

FlightFails(f) ==
    /\ flight[f] \in {"read", "redeem", "write", "undo"}
    /\ Fault
    /\ Fly(f, "failed")
    /\ UNCHANGED <<stores, at, check, token, joined, redeemed, cancelled, expired, result, revoked>>

\* The stored token expires.
Expire(t) ==
    /\ t = secret /\ t \notin expired
    /\ expired' = expired \cup {t}
    /\ UNCHANGED <<stores, at, check, flights, cancelled, result, revoked, faults>>

Init ==
    /\ secret = Granted /\ status = "active"
    /\ expired = {} /\ redeemed = {}
    /\ at = [p \in Actors |-> "idle"]
    /\ stage = [p \in Asserting |-> 0]
    /\ doomed = [p \in Asserting |-> FALSE]
    /\ stored = [p \in Asserting |-> "active"]
    /\ entry = None
    /\ flight = [f \in Callers |-> "none"]
    /\ token = [p \in Asserting |-> None]
    /\ joined = [c \in Callers |-> None]
    /\ cancelled = {}
    /\ result = [c \in Callers |-> None]
    /\ revoked = {}
    /\ faults = 0

Step(p) ==
    \/ /\ p \in Callers
       /\ \/ ReadSecret(p)
          \/ AcquireRevoked(p) \/ AcquireJoins(p) \/ AcquireFlies(p)
          \/ WaitOver(p) \/ WriteExpired(p)
    \/ p \in Asserting /\ (AssertStatus(p) \/ AssertSecret(p) \/ AssertDelete(p)
                           \/ AssertMark(p) \/ Activate(p))
    \/ RotationRedeems(p) \/ Lease(p) \/ WriteRotated(p) \/ Notify(p)
    \/ RevokeDeletes(p) \/ RevokeMarks(p)

FlightStep(f) ==
    FlightReads(f) \/ FlightRedeems(f) \/ FlightWrites(f) \/ FlightWritten(f) \/ FlightUndoes(f)

Next ==
    \/ \E p \in Actors :
          Step(p) \/ Resolve(p) \/ Rotate(p) \/ Revoke(p) \/ CallerFails(p) \/ OtherFails(p)
    \/ \E f \in Callers : FlightStep(f) \/ FlightFails(f)
    \/ \E t \in Tokens : Expire(t)

\* What has begun runs on; nothing has to begin.
Spec ==
    /\ Init /\ [][Next]_vars
    /\ \A p \in Actors : WF_vars(Step(p))
    /\ \A f \in Callers : WF_vars(FlightStep(f))

---------------------------------------------------------------------------
(* Properties                                                              *)

\* Nothing that began before is under way any more.
Quiet ==
    /\ \A p \in Actors : at[p] \in {"idle", "done"}
    /\ \A f \in Callers : flight[f] = "none" \/ Settled(f)

\* "does not resurrect a secret or connection revoked during refresh": when a
\* revocation has returned and all that it met has ended without a failure,
\* the secret is gone and the connection is not active, whoever was writing.
NothingResurrected ==
    revoked # {} /\ Quiet /\ faults = 0 => secret = None /\ status # "active"

\* A rotating refresh token is redeemed once, however many callers find the
\* credentials expired: before any revocation, and while nothing fails, the
\* provider refuses no flight, unless an adapter has redeemed the same token.
RedeemedOnce ==
    [][\A f \in Callers :
        flight[f] = "redeem" /\ flight'[f] = "failed" =>
            \/ faults' > 0
            \/ \E v \in Revokers : at[v] # "idle"
            \/ \E r \in Rotations : token[r] = token[f] /\ at[r] # "redeem"]_vars

\* The map holds no flight that nobody can settle or leave.
FlightsAreCleared ==
    /\ Quiet => entry = None
    /\ \A c \in Callers : joined[c] # None => entry = joined[c]

\* Every caller that has begun is answered or refused.
EveryCallerEnds == \A c \in Callers : at[c] = "secret" ~> at[c] = "done"
=============================================================================
