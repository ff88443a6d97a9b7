---------------------- MODULE CredentialRefreshProofs ----------------------
(***************************************************************************)
(* The flights of a connection, for any number of callers, rotations and   *)
(* revocations and any failures: there is one at a time, it is in the map  *)
(* exactly while somebody can still settle or leave it, and while nothing  *)
(* is revoked and nothing fails the token it redeems was not redeemed      *)
(* before, but by an adapter that was handed the same one.  While no       *)
(* adapter rotates and nothing fails, what a revocation has ended stays    *)
(* ended.                                                                  *)
(***************************************************************************)
EXTENDS CredentialRefresh, TLAPS

\* The refresh has begun and has not settled.
Unsettled(f) == flight[f] \in {"read", "redeem", "write", "written", "undo"}

\* Where a caller stands, which check it is in, and whether it is in a flight.
CallerFits(c) ==
    /\ at[c] \in {"idle", "secret", "readStatus", "readSecret", "delete", "mark",
                  "acquire", "wait", "activate", "expire", "done"}
    /\ at[c] \in {"idle", "secret"} => stage[c] = 0
    /\ at[c] \in {"acquire", "wait"} => stage[c] = 1
    /\ at[c] \in {"readStatus", "readSecret", "delete", "mark"} => stage[c] \in 1..3
    /\ at[c] = "activate" => stage[c] = 2
    /\ at[c] \in {"idle", "secret", "acquire", "done"} => joined[c] = None
    /\ at[c] \in {"wait", "activate"} => joined[c] # None
    /\ at[c] \in {"readStatus", "readSecret"} => ((joined[c] = None) <=> (stage[c] = 1))
    /\ at[c] \in {"idle", "secret", "acquire"} => flight[c] = "none"
    /\ at[c] \in {"readStatus", "readSecret"} /\ stage[c] = 1 => flight[c] = "none"

\* Where a rotation stands and which check it is in.
RotationFits(r) ==
    /\ at[r] \in {"idle", "redeem", "acquire", "readStatus", "readSecret", "delete",
                  "mark", "write", "activate", "notify", "done"}
    /\ at[r] \in {"idle", "redeem", "acquire"} => stage[r] = 0
    /\ at[r] \in {"readStatus", "readSecret", "delete", "mark"} => stage[r] \in 1..4
    /\ at[r] = "write" => stage[r] = 1
    /\ at[r] = "activate" => stage[r] = 2
    /\ at[r] = "notify" => stage[r] = 3

\* Where a revocation stands.
RevokerFits(v) == at[v] \in {"idle", "delete", "mark", "done"}

\* There is one flight at a time: who waits, waits for the one in the map, and
\* it stays in the map until it is settled and nobody waits.
OneFlight ==
    /\ \A c \in Callers : joined[c] # None => entry = joined[c]
    /\ entry # None => flight[entry] # "none"
    /\ entry # None => Unsettled(entry) \/ \E c \in Callers : joined[c] = entry
    /\ \A f \in Callers : Unsettled(f) => entry = f

\* Who redeems, a flight or a rotation, holds a token.
HoldsToken ==
    /\ \A f \in Callers : flight[f] = "redeem" => token[f] # None
    /\ \A r \in Rotations : at[r] = "redeem" => token[r] # None

\* The inductive invariant of the map.
MapInv ==
    /\ TypeOK /\ OneFlight
    /\ \A c \in Callers : CallerFits(c)
    /\ \A r \in Rotations : RotationFits(r)
    /\ \A v \in Revokers : RevokerFits(v)

---------------------------------------------------------------------------
(* The actors                                                              *)

\* The kinds of actors differ.
LEMMA Kinds ==
    /\ Callers \subseteq Actors /\ Rotations \subseteq Actors /\ Revokers \subseteq Actors
    /\ Callers \subseteq Asserting /\ Rotations \subseteq Asserting
    /\ Callers \subseteq Tokens /\ Rotations \subseteq Tokens /\ Granted \in Tokens
    /\ \A c \in Callers : c \notin Rotations /\ c \notin Revokers /\ c # None /\ c # Granted
    /\ \A r \in Rotations : r \notin Revokers /\ r # None /\ r # Granted
    /\ None \notin Tokens
BY CredentialAssumption DEF CredentialAssumption, Actors, Asserting, Tokens

\* Before the first call.
LEMMA InitEstablishes == Init => MapInv
<1> SUFFICES ASSUME Init PROVE MapInv
  OBVIOUS
<1>1. TypeOK
  <2>1. 0 \in 0..MaxFaults
    BY CredentialAssumption DEF CredentialAssumption
  <2>2. /\ doomed \in [Asserting -> BOOLEAN] /\ stage \in [Asserting -> 0..4]
        /\ stored \in [Asserting -> Statuses]
    BY DEF Init, Statuses
  <2> QED BY <2>1, <2>2, Kinds DEF Init, TypeOK, Statuses, Tokens
<1>2. OneFlight
  BY DEF Init, OneFlight, Unsettled
<1>3. ASSUME NEW c \in Callers PROVE CallerFits(c)
  BY Kinds DEF Init, CallerFits
<1>4. ASSUME NEW r \in Rotations PROVE RotationFits(r)
  BY Kinds DEF Init, RotationFits
<1>5. ASSUME NEW v \in Revokers PROVE RevokerFits(v)
  BY Kinds DEF Init, RevokerFits
<1> QED BY <1>1, <1>2, <1>3, <1>4, <1>5 DEF MapInv

\* One actor moves, and its own flight at most.
LEMMA Moves ==
    ASSUME MapInv, TypeOK', OneFlight', NEW p \in Actors,
           \A q \in Actors \ {p} : at'[q] = at[q],
           \A q \in Asserting \ {p} : stage'[q] = stage[q],
           \A c \in Callers \ {p} : joined'[c] = joined[c] /\ flight'[c] = flight[c],
           p \in Callers => CallerFits(p)',
           p \in Rotations => RotationFits(p)',
           p \in Revokers => RevokerFits(p)'
    PROVE  MapInv'
<1>1. ASSUME NEW c \in Callers \ {p} PROVE CallerFits(c)'
  <2>1. /\ CallerFits(c) /\ at'[c] = at[c] /\ stage'[c] = stage[c]
        /\ joined'[c] = joined[c] /\ flight'[c] = flight[c]
    BY Kinds DEF MapInv
  <2> QED BY <2>1 DEF CallerFits
<1>2. ASSUME NEW r \in Rotations \ {p} PROVE RotationFits(r)'
  <2>1. RotationFits(r) /\ at'[r] = at[r] /\ stage'[r] = stage[r]
    BY Kinds DEF MapInv
  <2> QED BY <2>1 DEF RotationFits
<1>3. ASSUME NEW v \in Revokers \ {p} PROVE RevokerFits(v)'
  <2>1. RevokerFits(v) /\ at'[v] = at[v]
    BY Kinds DEF MapInv
  <2> QED BY <2>1 DEF RevokerFits
<1> QED BY <1>1, <1>2, <1>3 DEF MapInv

\* No flight moves.
LEMMA FlightsStay ==
    ASSUME OneFlight, UNCHANGED <<entry, flight, joined>>
    PROVE  OneFlight'
BY DEF OneFlight, Unsettled

\* A caller leaves its flight.
LEMMA CallerLeaves ==
    ASSUME MapInv, NEW c \in Callers, Leave(c), UNCHANGED flight
    PROVE  /\ OneFlight' /\ joined'[c] = None /\ joined' \in [Callers -> Callers \cup {None}]
           /\ entry' \in Callers \cup {None}
           /\ \A d \in Callers \ {c} : joined'[d] = joined[d]
<1>1. /\ joined' = [joined EXCEPT ![c] = None]
      /\ joined \in [Callers -> Callers \cup {None}] /\ entry \in Callers \cup {None}
      /\ OneFlight
  BY DEF MapInv, TypeOK, Leave
<1>2. /\ joined'[c] = None /\ joined' \in [Callers -> Callers \cup {None}]
      /\ \A d \in Callers \ {c} : joined'[d] = joined[d]
  BY <1>1
<1>3. \A f : Unsettled(f)' <=> Unsettled(f)
  BY DEF Unsettled
<1>4. CASE joined[c] # None /\ entry = joined[c] /\ Settled(entry) /\ Waiters(entry) = {c}
  <2>1. entry' = None
    BY <1>4 DEF Leave
  <2>2. ~Unsettled(entry)
    BY <1>4 DEF Settled, Unsettled
  <2>3. \A d \in Callers \ {c} : joined[d] = None
    BY <1>1, <1>4 DEF OneFlight, Waiters
  <2>4. \A f \in Callers : ~Unsettled(f)
    BY <1>1, <2>2 DEF OneFlight
  <2> QED BY <1>2, <1>3, <2>1, <2>3, <2>4 DEF OneFlight
<1>5. CASE ~(joined[c] # None /\ entry = joined[c] /\ Settled(entry) /\ Waiters(entry) = {c})
  <2>1. entry' = entry
    BY <1>5 DEF Leave
  <2>2. entry # None => Unsettled(entry) \/ \E d \in Callers : joined'[d] = entry
    <3> SUFFICES ASSUME entry # None, ~Unsettled(entry)
                 PROVE  \E d \in Callers : joined'[d] = entry
      OBVIOUS
    <3>1. /\ flight[entry] # "none"
          /\ \E d \in Callers : joined[d] = entry
      BY <1>1 DEF OneFlight
    <3>4. PICK d \in Callers : joined[d] = entry
      BY <3>1
    <3>2. CASE d # c
      BY <1>2, <3>4, <3>2
    <3>3. CASE d = c
      <4>1. Settled(entry)
        BY <1>1, <3>1 DEF Settled, Unsettled, MapInv, TypeOK
      <4>2. Waiters(entry) # {c}
        BY <1>1, <1>5, <3>3, <3>4, <4>1
      <4> QED BY <1>2, <3>3, <3>4, <4>2 DEF Waiters
    <3> QED BY <3>2, <3>3
  <2>3. \A d \in Callers : joined'[d] # None => entry = joined'[d]
    BY <1>1, <1>2 DEF OneFlight
  <2> QED BY <1>1, <1>2, <1>3, <2>1, <2>2, <2>3 DEF OneFlight
<1>6. entry' \in Callers \cup {None}
  BY <1>1 DEF Leave
<1> QED BY <1>2, <1>4, <1>5, <1>6

\* Where an actor may stand.
Places == {"idle", "secret", "redeem", "readStatus", "readSecret", "delete",
           "mark", "acquire", "wait", "write", "activate", "notify",
           "expire", "done"}

\* An actor goes on.
LEMMA Went ==
    ASSUME TypeOK, NEW p \in Actors, NEW pc \in Places, Goto(p, pc)
    PROVE  /\ at' \in [Actors -> Places] /\ at'[p] = pc
           /\ \A q \in Actors \ {p} : at'[q] = at[q]
BY DEF TypeOK, Places, Goto

\* It enters its next check.
LEMMA Entered ==
    ASSUME TypeOK, NEW p \in Asserting, stage[p] \in 0..3, Enter(p)
    PROVE  /\ at' \in [Actors -> Places] /\ at'[p] = "readStatus"
           /\ \A q \in Actors \ {p} : at'[q] = at[q]
           /\ stage' \in [Asserting -> 0..4] /\ stage'[p] = stage[p] + 1
           /\ \A q \in Asserting \ {p} : stage'[q] = stage[q]
           /\ doomed' \in [Asserting -> BOOLEAN]
<1>1. p \in Actors
  BY DEF Asserting, Actors
<1>2. /\ at' \in [Actors -> Places] /\ at'[p] = "readStatus"
      /\ \A q \in Actors \ {p} : at'[q] = at[q]
  BY <1>1, Went DEF Enter, Places
<1>3. /\ stage' \in [Asserting -> 0..4] /\ stage'[p] = stage[p] + 1
      /\ \A q \in Asserting \ {p} : stage'[q] = stage[q]
  BY DEF TypeOK, Enter
<1>4. PICK b \in BOOLEAN : b = (Operation(p) \cap cancelled # {} \/ Revoking)
  OBVIOUS
<1>5. doomed' = [doomed EXCEPT ![p] = b] /\ doomed \in [Asserting -> BOOLEAN]
  BY <1>4 DEF TypeOK, Enter
<1>6. doomed' \in [Asserting -> BOOLEAN]
  BY <1>5
<1> QED BY <1>2, <1>3, <1>6

\* The end of a check.
LEMMA Forgotten ==
    ASSUME TypeOK, NEW p \in Asserting, Forget(p)
    PROVE  doomed' \in [Asserting -> BOOLEAN] /\ stored' \in [Asserting -> Statuses]
BY DEF TypeOK, Forget, Statuses

\* An actor moves and touches no flight.
LEMMA MovesAlone ==
    ASSUME MapInv, NEW p \in Actors, TypeOK', UNCHANGED <<entry, flight, joined>>,
           \A q \in Actors \ {p} : at'[q] = at[q],
           \A q \in Asserting \ {p} : stage'[q] = stage[q],
           p \in Callers => CallerFits(p)',
           p \in Rotations => RotationFits(p)',
           p \in Revokers => RevokerFits(p)'
    PROVE  MapInv'
<1>1. OneFlight'
  BY FlightsStay DEF MapInv
<1> QED BY <1>1, Moves

\* An asserting actor is a caller or a rotation; its place says which.
LEMMA Known ==
    ASSUME MapInv, NEW p \in Asserting
    PROVE  /\ TypeOK /\ OneFlight /\ p \in Actors /\ stage[p] \in 0..4 /\ p \notin Revokers
           /\ p \in Callers \/ p \in Rotations
           /\ p \in Callers => CallerFits(p) /\ p \notin Rotations
           /\ p \in Rotations => RotationFits(p) /\ p \notin Callers
<1>1. TypeOK /\ OneFlight
  BY DEF MapInv
<1>2. p \in Actors /\ p \notin Revokers /\ (p \in Callers \/ p \in Rotations)
  BY Kinds DEF Asserting
<1>3. stage[p] \in 0..4
  BY <1>1 DEF TypeOK
<1>4. p \in Callers => CallerFits(p) /\ p \notin Rotations
  BY Kinds DEF MapInv
<1>5. p \in Rotations => RotationFits(p) /\ p \notin Callers
  BY Kinds DEF MapInv
<1> QED BY <1>1, <1>2, <1>3, <1>4, <1>5

---------------------------------------------------------------------------
(* assertCredentialRefreshActive                                           *)

\* The status is read.
LEMMA AssertStatusStep ==
    ASSUME MapInv, NEW p \in Asserting, AssertStatus(p)
    PROVE  MapInv'
<1>1. /\ TypeOK /\ OneFlight /\ p \in Actors /\ p \notin Revokers
      /\ p \in Callers => CallerFits(p)
      /\ p \in Rotations => RotationFits(p)
  BY Known
<1>2. /\ at[p] = "readStatus" /\ UNCHANGED <<stores, stage, flights, ghosts>>
      /\ stored' = [stored EXCEPT ![p] = status]
      /\ doomed' = [doomed EXCEPT ![p] = @ \/ status = "revoked"]
      /\ Goto(p, "delete") \/ Goto(p, "readSecret")
      /\ cancelled' \in {cancelled, cancelled \cup Operation(p)}
  BY DEF AssertStatus
<1>3. /\ at' \in [Actors -> Places] /\ at'[p] \in {"delete", "readSecret"}
      /\ \A q \in Actors \ {p} : at'[q] = at[q]
  BY <1>1, <1>2, Went DEF Places
<1>4. doomed' \in [Asserting -> BOOLEAN]
  <2>1. PICK b \in BOOLEAN : b = (doomed[p] \/ status = "revoked")
    OBVIOUS
  <2>2. doomed' = [doomed EXCEPT ![p] = b] /\ doomed \in [Asserting -> BOOLEAN]
    BY <1>1, <1>2, <2>1 DEF TypeOK
  <2> QED BY <2>2
<1>5. cancelled' \subseteq Asserting
  BY <1>1, <1>2 DEF TypeOK, Operation, Asserting
<1>6. /\ secret' = secret /\ status' = status /\ stage' = stage /\ entry' = entry
      /\ flight' = flight /\ token' = token /\ joined' = joined /\ redeemed' = redeemed
      /\ expired' = expired /\ result' = result /\ revoked' = revoked /\ faults' = faults
  BY <1>2 DEF stores, flights, ghosts
<1>7. stored' \in [Asserting -> Statuses]
  BY <1>1, <1>2 DEF TypeOK
<1>8. TypeOK'
  BY <1>1, <1>3, <1>4, <1>5, <1>6, <1>7 DEF TypeOK, Places
<1>9. p \in Callers => CallerFits(p)'
  BY <1>1, <1>2, <1>3, <1>6 DEF CallerFits
<1>10. p \in Rotations => RotationFits(p)'
  BY <1>1, <1>2, <1>3, <1>6 DEF RotationFits
<1> QED BY <1>1, <1>3, <1>6, <1>8, <1>9, <1>10, MovesAlone

\* Which steps follow a check.
LEMMA WhatFollows ==
    ASSUME NEW p \in Asserting, p \in Callers \/ p \in Rotations
    PROVE  /\ p \in Callers /\ stage[p] = 1 => Proceeds(p) = "acquire"
           /\ p \in Callers /\ stage[p] = 2 => Proceeds(p) = "activate"
           /\ p \in Callers /\ stage[p] \notin {1, 2} => Proceeds(p) = "done"
           /\ p \in Rotations /\ stage[p] = 1 => Proceeds(p) = "write"
           /\ p \in Rotations /\ stage[p] = 2 => Proceeds(p) = "activate"
           /\ p \in Rotations /\ stage[p] = 3 => Proceeds(p) = "notify"
           /\ p \in Rotations /\ stage[p] \notin {1, 2, 3} => Proceeds(p) = "done"
<1>1. CASE p \in Callers
  <2>1. p \notin Rotations
    BY <1>1, Kinds
  <2> QED BY <1>1, <2>1 DEF Proceeds
<1>2. CASE p \in Rotations
  <2>1. p \notin Callers
    BY <1>2, Kinds
  <2> QED BY <1>2, <2>1 DEF Proceeds
<1> QED BY <1>1, <1>2

\* An operation ends: a caller leaves its flight.
LEMMA Ended ==
    ASSUME MapInv, NEW p \in Asserting, Ends(p), UNCHANGED <<flight, stage>>
    PROVE  /\ at' \in [Actors -> Places] /\ at'[p] = "done"
           /\ \A q \in Actors \ {p} : at'[q] = at[q]
           /\ OneFlight' /\ joined' \in [Callers -> Callers \cup {None}]
           /\ entry' \in Callers \cup {None}
           /\ \A c \in Callers \ {p} : joined'[c] = joined[c] /\ flight'[c] = flight[c]
           /\ p \in Callers => CallerFits(p)'
           /\ p \in Rotations => RotationFits(p)'
<1>1. /\ TypeOK /\ OneFlight /\ p \in Actors /\ p \notin Revokers /\ stage[p] \in 0..4
      /\ p \in Callers => p \notin Rotations
  BY Known
<1>2. /\ at' \in [Actors -> Places] /\ at'[p] = "done"
      /\ \A q \in Actors \ {p} : at'[q] = at[q]
  BY <1>1, Went DEF Ends, Places
<1>3. CASE p \in Callers
  <2>1. Leave(p)
    BY <1>1, <1>3 DEF Ends
  <2>2. /\ OneFlight' /\ joined'[p] = None /\ joined' \in [Callers -> Callers \cup {None}]
        /\ entry' \in Callers \cup {None}
        /\ \A d \in Callers \ {p} : joined'[d] = joined[d]
    BY <1>3, <2>1, CallerLeaves
  <2>3. CallerFits(p)'
    BY <1>2, <2>2 DEF CallerFits
  <2> QED BY <1>1, <1>2, <1>3, <2>2, <2>3
<1>4. CASE p \notin Callers
  <2>1. UNCHANGED <<joined, entry>>
    BY <1>4 DEF Ends
  <2>2. OneFlight'
    BY <1>1, <2>1, FlightsStay
  <2>3. RotationFits(p)'
    BY <1>2 DEF RotationFits
  <2> QED BY <1>1, <1>2, <1>4, <2>1, <2>2, <2>3 DEF TypeOK
<1> QED BY <1>3, <1>4

\* The secret is read, and the check is over.
LEMMA AssertSecretStep ==
    ASSUME MapInv, NEW p \in Asserting, AssertSecret(p)
    PROVE  MapInv'
<1>1. /\ TypeOK /\ OneFlight /\ p \in Actors /\ p \notin Revokers /\ stage[p] \in 0..4
      /\ p \in Callers \/ p \in Rotations
      /\ p \in Callers => CallerFits(p) /\ p \notin Rotations
      /\ p \in Rotations => RotationFits(p)
  BY Known
<1>2. /\ at[p] = "readSecret"
      /\ UNCHANGED <<stores, stage, flight, token, redeemed, expired, revoked, faults>>
  BY DEF AssertSecret
<1>3. secret' = secret /\ status' = status
  BY <1>2 DEF stores
<1>4. CASE /\ secret = None /\ Goto(p, "delete") /\ cancelled' = cancelled \cup Operation(p)
           /\ UNCHANGED <<doomed, stored, joined, entry, result>>
  <2>1. /\ at' \in [Actors -> Places] /\ at'[p] = "delete"
        /\ \A q \in Actors \ {p} : at'[q] = at[q]
    BY <1>1, <1>4, Went DEF Places
  <2>2. cancelled' \subseteq Asserting
    BY <1>1, <1>4 DEF TypeOK, Operation, Asserting
  <2>3. TypeOK'
    BY <1>1, <1>2, <1>3, <1>4, <2>1, <2>2 DEF TypeOK, Places
  <2>4. p \in Callers => CallerFits(p)'
    BY <1>1, <1>2, <1>4, <2>1 DEF CallerFits
  <2>5. p \in Rotations => RotationFits(p)'
    BY <1>1, <1>2, <1>4, <2>1 DEF RotationFits
  <2> QED BY <1>1, <1>2, <1>4, <2>1, <2>3, <2>4, <2>5, MovesAlone
<1>5. CASE /\ Proceeds(p) # "done" /\ Goto(p, Proceeds(p)) /\ Forget(p)
           /\ UNCHANGED <<cancelled, joined, entry, result>>
  <2>1. Proceeds(p) \in {"acquire", "activate", "write", "notify"}
    BY <1>1, <1>5, WhatFollows
  <2>2. /\ at' \in [Actors -> Places] /\ at'[p] = Proceeds(p)
        /\ \A q \in Actors \ {p} : at'[q] = at[q]
    BY <1>1, <1>5, <2>1, Went DEF Places
  <2>3. doomed' \in [Asserting -> BOOLEAN] /\ stored' \in [Asserting -> Statuses]
    BY <1>1, <1>5, Forgotten
  <2>4. TypeOK'
    BY <1>1, <1>2, <1>3, <1>5, <2>2, <2>3 DEF TypeOK, Places
  <2>5. p \in Callers => CallerFits(p)'
    <3> SUFFICES ASSUME p \in Callers PROVE CallerFits(p)'
      OBVIOUS
    <3>1. \/ stage[p] = 1 /\ at'[p] = "acquire"
          \/ stage[p] = 2 /\ at'[p] = "activate"
      BY <1>1, <1>5, <2>2, WhatFollows
    <3> QED BY <1>1, <1>2, <1>5, <3>1 DEF CallerFits
  <2>6. p \in Rotations => RotationFits(p)'
    <3> SUFFICES ASSUME p \in Rotations PROVE RotationFits(p)'
      OBVIOUS
    <3>1. \/ stage[p] = 1 /\ at'[p] = "write"
          \/ stage[p] = 2 /\ at'[p] = "activate"
          \/ stage[p] = 3 /\ at'[p] = "notify"
      BY <1>1, <1>5, <2>2, WhatFollows
    <3> QED BY <1>1, <1>2, <1>5, <3>1 DEF RotationFits
  <2> QED BY <1>1, <1>2, <1>5, <2>2, <2>4, <2>5, <2>6, MovesAlone
<1>6. CASE /\ Proceeds(p) = "done" /\ Ends(p) /\ Forget(p)
           /\ \/ p \in Callers /\ result' = [result EXCEPT ![p] = token[joined[p]]]
              \/ p \in Rotations /\ UNCHANGED result
           /\ UNCHANGED cancelled
  <2>1. doomed' \in [Asserting -> BOOLEAN] /\ stored' \in [Asserting -> Statuses]
    BY <1>1, <1>6, Forgotten
  <2>2. /\ at' \in [Actors -> Places]
        /\ \A q \in Actors \ {p} : at'[q] = at[q]
        /\ OneFlight' /\ joined' \in [Callers -> Callers \cup {None}]
        /\ entry' \in Callers \cup {None}
        /\ \A c \in Callers \ {p} : joined'[c] = joined[c] /\ flight'[c] = flight[c]
        /\ p \in Callers => CallerFits(p)'
        /\ p \in Rotations => RotationFits(p)'
    BY <1>2, <1>6, Ended
  <2>3. result' \in [Callers -> Tokens \cup {None}]
    <3>1. CASE p \in Callers
      <4>1. stage[p] # 1 /\ stage[p] \in 1..3
        BY <1>1, <1>2, <1>6, <3>1, WhatFollows DEF CallerFits
      <4>2. joined[p] \in Callers
        BY <1>1, <1>2, <3>1, <4>1 DEF CallerFits, TypeOK
      <4> QED BY <1>1, <1>6, <3>1, <4>2, Kinds DEF TypeOK
    <3>2. CASE p \notin Callers
      BY <1>1, <1>6, <3>2 DEF TypeOK
    <3> QED BY <3>1, <3>2
  <2>4. TypeOK'
    BY <1>1, <1>2, <1>3, <1>6, <2>1, <2>2, <2>3 DEF TypeOK, Places
  <2> QED BY <1>1, <1>2, <2>2, <2>4, Moves
<1> QED BY <1>4, <1>5, <1>6 DEF AssertSecret

\* The check ends a revoked operation.
LEMMA AssertRevokedSteps ==
    ASSUME MapInv, NEW p \in Asserting, AssertDelete(p) \/ AssertMark(p)
    PROVE  MapInv'
<1>1. /\ TypeOK /\ OneFlight /\ p \in Actors /\ p \notin Revokers
      /\ p \in Callers => CallerFits(p) /\ p \notin Rotations
      /\ p \in Rotations => RotationFits(p)
  BY Known
<1>2. /\ at[p] \in {"delete", "mark"}
      /\ UNCHANGED <<stage, flight, token, redeemed, cancelled, ghosts>>
      /\ secret' \in {secret, None} /\ status' \in {status, "revoked"}
      /\ Forget(p) \/ UNCHANGED <<doomed, stored>>
      /\ Ends(p) \/ (Goto(p, "mark") /\ UNCHANGED <<joined, entry>>)
  BY DEF AssertDelete, AssertMark, check
<1>3. doomed' \in [Asserting -> BOOLEAN] /\ stored' \in [Asserting -> Statuses]
  BY <1>1, <1>2, Forgotten DEF TypeOK
<1>4. expired' = expired /\ result' = result /\ revoked' = revoked /\ faults' = faults
  BY <1>2 DEF ghosts
<1>5. CASE Ends(p)
  <2>1. /\ at' \in [Actors -> Places]
        /\ \A q \in Actors \ {p} : at'[q] = at[q]
        /\ OneFlight' /\ joined' \in [Callers -> Callers \cup {None}]
        /\ entry' \in Callers \cup {None}
        /\ \A c \in Callers \ {p} : joined'[c] = joined[c] /\ flight'[c] = flight[c]
        /\ p \in Callers => CallerFits(p)'
        /\ p \in Rotations => RotationFits(p)'
    BY <1>2, <1>5, Ended
  <2>2. TypeOK'
    BY <1>1, <1>2, <1>3, <1>4, <2>1 DEF TypeOK, Places, Statuses
  <2> QED BY <1>1, <1>2, <2>1, <2>2, Moves
<1>6. CASE Goto(p, "mark") /\ UNCHANGED <<joined, entry>>
  <2>1. /\ at' \in [Actors -> Places] /\ at'[p] = "mark"
        /\ \A q \in Actors \ {p} : at'[q] = at[q]
    BY <1>1, <1>6, Went DEF Places
  <2>2. TypeOK'
    BY <1>1, <1>2, <1>3, <1>4, <1>6, <2>1 DEF TypeOK, Places, Statuses
  <2>3. p \in Callers => CallerFits(p)'
    BY <1>1, <1>2, <1>6, <2>1 DEF CallerFits
  <2>4. p \in Rotations => RotationFits(p)'
    BY <1>1, <1>2, <1>6, <2>1 DEF RotationFits
  <2> QED BY <1>1, <1>2, <1>6, <2>1, <2>2, <2>3, <2>4, MovesAlone
<1> QED BY <1>2, <1>5, <1>6

---------------------------------------------------------------------------
(* Callers                                                                 *)

\* A call begins.
LEMMA ResolveStep ==
    ASSUME MapInv, NEW c \in Callers, Resolve(c)
    PROVE  MapInv'
<1>1. /\ TypeOK /\ c \in Asserting /\ c \in Actors /\ c \notin Revokers /\ CallerFits(c)
      /\ c \notin Rotations
  BY Kinds, Known
<1>2. /\ at[c] = "idle" /\ UNCHANGED <<stores, check, flights, cancelled, ghosts>>
      /\ Goto(c, "secret") \/ Goto(c, "done")
  BY DEF Resolve, Begins
<1>3. /\ at' \in [Actors -> Places] /\ at'[c] \in {"secret", "done"}
      /\ \A q \in Actors \ {c} : at'[q] = at[q]
  BY <1>1, <1>2, Went DEF Places
<1>4. /\ stage' = stage /\ flight' = flight /\ joined' = joined /\ entry' = entry
  BY <1>2 DEF check, flights
<1>5. TypeOK'
  BY <1>1, <1>2, <1>3 DEF TypeOK, Places, stores, check, flights, ghosts
<1>6. CallerFits(c)'
  BY <1>1, <1>2, <1>3, <1>4 DEF CallerFits
<1> QED BY <1>1, <1>3, <1>4, <1>5, <1>6, MovesAlone

\* The secret is good, or its refresh is considered.
LEMMA ReadSecretStep ==
    ASSUME MapInv, NEW c \in Callers, ReadSecret(c)
    PROVE  MapInv'
<1>1. /\ TypeOK /\ c \in Asserting /\ c \in Actors /\ c \notin Revokers /\ CallerFits(c)
      /\ c \notin Rotations
  BY Kinds, Known
<1>2. /\ at[c] = "secret"
      /\ UNCHANGED <<stores, stored, flights, cancelled, expired, revoked, faults>>
  BY DEF ReadSecret
<1>3. /\ flight' = flight /\ joined' = joined /\ entry' = entry /\ token' = token
      /\ redeemed' = redeemed /\ secret' = secret /\ status' = status
  BY <1>2 DEF stores, flights
<1>4. CASE Goto(c, "done") /\ result' = [result EXCEPT ![c] = secret] /\ UNCHANGED <<stage, doomed>>
  <2>1. /\ at' \in [Actors -> Places] /\ at'[c] = "done"
        /\ \A q \in Actors \ {c} : at'[q] = at[q]
    BY <1>1, <1>4, Went DEF Places
  <2>2. TypeOK'
    BY <1>1, <1>2, <1>3, <1>4, <2>1 DEF TypeOK, Places
  <2>3. CallerFits(c)'
    BY <1>1, <1>2, <1>3, <1>4, <2>1 DEF CallerFits
  <2> QED BY <1>1, <1>3, <1>4, <2>1, <2>2, <2>3, MovesAlone
<1>5. CASE Enter(c) /\ UNCHANGED result
  <2>1. /\ at' \in [Actors -> Places] /\ at'[c] = "readStatus"
        /\ \A q \in Actors \ {c} : at'[q] = at[q]
        /\ stage' \in [Asserting -> 0..4] /\ stage'[c] = 1
        /\ \A q \in Asserting \ {c} : stage'[q] = stage[q]
        /\ doomed' \in [Asserting -> BOOLEAN]
    BY <1>1, <1>2, <1>5, Entered DEF CallerFits
  <2>2. TypeOK'
    BY <1>1, <1>2, <1>3, <1>5, <2>1 DEF TypeOK, Places
  <2>3. CallerFits(c)'
    BY <1>1, <1>2, <1>3, <2>1 DEF CallerFits
  <2> QED BY <1>1, <1>3, <2>1, <2>2, <2>3, MovesAlone
<1> QED BY <1>4, <1>5 DEF ReadSecret

\* The steps that end an operation.
LEMMA EndSteps ==
    ASSUME MapInv, NEW c \in Callers,
           \/ AcquireRevoked(c) \/ WriteExpired(c)
           \/ WaitOver(c) /\ Ends(c) /\ UNCHANGED <<stage, doomed>>
           \/ CallerFails(c) /\ Ends(c)
    PROVE  MapInv'
<1>1. TypeOK /\ c \in Asserting /\ c \in Actors /\ c \notin Revokers /\ c \notin Rotations
  BY Kinds, Known
<1>2. /\ Ends(c) /\ UNCHANGED <<stage, doomed, stored, flight, token, redeemed, cancelled>>
      /\ UNCHANGED <<secret, expired, result, revoked>> /\ status' \in {status, "expired"}
      /\ faults' = faults \/ Fault
  BY DEF AcquireRevoked, WriteExpired, WaitOver, CallerFails, stores, check, ghosts
<1>3. faults' \in 0..MaxFaults
  BY <1>1, <1>2, CredentialAssumption DEF TypeOK, Fault, CredentialAssumption
<1>4. /\ at' \in [Actors -> Places]
      /\ \A q \in Actors \ {c} : at'[q] = at[q]
      /\ OneFlight' /\ joined' \in [Callers -> Callers \cup {None}]
      /\ entry' \in Callers \cup {None}
      /\ \A d \in Callers \ {c} : joined'[d] = joined[d] /\ flight'[d] = flight[d]
      /\ CallerFits(c)'
  BY <1>1, <1>2, Ended
<1>5. TypeOK'
  BY <1>1, <1>2, <1>3, <1>4 DEF TypeOK, Places, Statuses
<1> QED BY <1>1, <1>2, <1>4, <1>5, Moves

\* acquireCredentialRefresh joins the flight in the map ...
LEMMA AcquireJoinsStep ==
    ASSUME MapInv, NEW c \in Callers, AcquireJoins(c)
    PROVE  MapInv'
<1>1. /\ TypeOK /\ OneFlight /\ c \in Asserting /\ c \in Actors /\ c \notin Revokers
      /\ CallerFits(c) /\ c \notin Rotations
  BY Kinds, Known
<1>2. /\ at[c] = "acquire" /\ entry # None /\ joined' = [joined EXCEPT ![c] = entry]
      /\ Goto(c, "wait")
      /\ UNCHANGED <<stores, check, entry, flight, token, redeemed, cancelled, ghosts>>
  BY DEF AcquireJoins
<1>3. /\ at' \in [Actors -> Places] /\ at'[c] = "wait"
      /\ \A q \in Actors \ {c} : at'[q] = at[q]
  BY <1>1, <1>2, Went DEF Places
<1>4. /\ joined' \in [Callers -> Callers \cup {None}] /\ joined'[c] = entry
      /\ \A d \in Callers \ {c} : joined'[d] = joined[d]
  BY <1>1, <1>2 DEF TypeOK
<1>5. stage' = stage
  BY <1>2 DEF check
<1>6. TypeOK'
  BY <1>1, <1>2, <1>3, <1>4 DEF TypeOK, Places, stores, check, ghosts
<1>7. OneFlight'
  <2>1. joined[c] = None
    BY <1>1, <1>2 DEF CallerFits
  <2> QED BY <1>1, <1>2, <1>4, <2>1 DEF OneFlight, Unsettled
<1>8. CallerFits(c)'
  BY <1>1, <1>2, <1>3, <1>4, <1>5 DEF CallerFits
<1> QED BY <1>1, <1>2, <1>3, <1>4, <1>5, <1>6, <1>7, <1>8, Moves

\* ... or starts one.
LEMMA AcquireFliesStep ==
    ASSUME MapInv, NEW c \in Callers, AcquireFlies(c)
    PROVE  MapInv'
<1>1. /\ TypeOK /\ OneFlight /\ c \in Asserting /\ c \in Actors /\ c \notin Revokers
      /\ CallerFits(c) /\ c \notin Rotations /\ c # None
  BY Kinds, Known
<1>2. /\ at[c] = "acquire" /\ entry = None /\ joined' = [joined EXCEPT ![c] = c]
      /\ entry' = c /\ flight' = [flight EXCEPT ![c] = "read"] /\ Goto(c, "wait")
      /\ UNCHANGED <<stores, check, token, redeemed, cancelled, ghosts>>
  BY DEF AcquireFlies
<1>3. /\ at' \in [Actors -> Places] /\ at'[c] = "wait"
      /\ \A q \in Actors \ {c} : at'[q] = at[q]
  BY <1>1, <1>2, Went DEF Places
<1>4. /\ joined' \in [Callers -> Callers \cup {None}] /\ joined'[c] = c
      /\ flight'[c] = "read"
      /\ \A d \in Callers \ {c} : joined'[d] = joined[d] /\ flight'[d] = flight[d]
  BY <1>1, <1>2 DEF TypeOK
<1>5. stage' = stage
  BY <1>2 DEF check
<1>6. TypeOK'
  BY <1>1, <1>2, <1>3, <1>4 DEF TypeOK, Places, stores, check, ghosts
<1>7. OneFlight'
  <2>1. \A d \in Callers \ {c} : joined'[d] = None /\ ~Unsettled(d)'
    BY <1>1, <1>2, <1>4, Kinds DEF OneFlight, Unsettled
  <2>2. Unsettled(c)'
    BY <1>4 DEF Unsettled
  <2>3. flight'[entry'] # "none" /\ joined'[c] = entry'
    BY <1>2, <1>4
  <2> QED BY <1>1, <1>2, <1>4, <2>1, <2>2, <2>3 DEF OneFlight
<1>8. CallerFits(c)'
  BY <1>1, <1>2, <1>3, <1>4, <1>5 DEF CallerFits
<1> QED BY <1>1, <1>3, <1>4, <1>5, <1>6, <1>7, <1>8, Moves

\* The flight has settled.
LEMMA WaitOverStep ==
    ASSUME MapInv, NEW c \in Callers, WaitOver(c)
    PROVE  MapInv'
<1>1. /\ TypeOK /\ c \in Asserting /\ c \in Actors /\ c \notin Revokers
      /\ CallerFits(c) /\ c \notin Rotations
  BY Kinds, Known
<1>2. /\ at[c] = "wait"
      /\ UNCHANGED <<stores, stored, flight, token, redeemed, cancelled, ghosts>>
  BY DEF WaitOver
<1>3. CASE Enter(c) /\ UNCHANGED <<joined, entry>>
  <2>1. /\ at' \in [Actors -> Places] /\ at'[c] = "readStatus"
        /\ \A q \in Actors \ {c} : at'[q] = at[q]
        /\ stage' \in [Asserting -> 0..4] /\ stage'[c] = 2
        /\ \A q \in Asserting \ {c} : stage'[q] = stage[q]
        /\ doomed' \in [Asserting -> BOOLEAN]
    BY <1>1, <1>2, <1>3, Entered DEF CallerFits
  <2>2. TypeOK'
    BY <1>1, <1>2, <1>3, <2>1 DEF TypeOK, Places, stores, ghosts
  <2>3. CallerFits(c)'
    BY <1>1, <1>2, <1>3, <2>1 DEF CallerFits
  <2> QED BY <1>1, <1>2, <1>3, <2>1, <2>2, <2>3, MovesAlone
<1>4. CASE Goto(c, "expire") /\ UNCHANGED <<stage, doomed, joined, entry>>
  <2>1. /\ at' \in [Actors -> Places] /\ at'[c] = "expire"
        /\ \A q \in Actors \ {c} : at'[q] = at[q]
    BY <1>1, <1>4, Went DEF Places
  <2>2. TypeOK'
    BY <1>1, <1>2, <1>4, <2>1 DEF TypeOK, Places, stores, ghosts
  <2>3. CallerFits(c)'
    BY <1>1, <1>2, <1>4, <2>1 DEF CallerFits
  <2> QED BY <1>1, <1>2, <1>4, <2>1, <2>2, <2>3, MovesAlone
<1>5. CASE Ends(c) /\ UNCHANGED <<stage, doomed>>
  BY <1>5, EndSteps
<1> QED BY <1>3, <1>4, <1>5 DEF WaitOver

\* A failure leads a caller to its catch block, or ends it.
LEMMA CallerFailsStep ==
    ASSUME MapInv, NEW c \in Callers, CallerFails(c)
    PROVE  MapInv'
<1>1. /\ TypeOK /\ c \in Asserting /\ c \in Actors /\ c \notin Revokers
      /\ CallerFits(c) /\ c \notin Rotations
  BY Kinds, Known
<1>2. /\ Fault
      /\ UNCHANGED <<stores, check, flight, token, redeemed, cancelled, expired, result, revoked>>
  BY DEF CallerFails
<1>3. faults' \in 0..MaxFaults
  BY <1>1, <1>2, CredentialAssumption DEF TypeOK, Fault, CredentialAssumption
<1>4. CASE Goto(c, "expire") /\ UNCHANGED <<joined, entry>>
  <2>1. /\ at' \in [Actors -> Places] /\ at'[c] = "expire"
        /\ \A q \in Actors \ {c} : at'[q] = at[q]
    BY <1>1, <1>4, Went DEF Places
  <2>2. TypeOK'
    BY <1>1, <1>2, <1>3, <1>4, <2>1 DEF TypeOK, Places, stores, check
  <2>3. CallerFits(c)' /\ stage' = stage
    BY <1>1, <1>2, <1>4, <2>1 DEF CallerFits, check
  <2> QED BY <1>1, <1>2, <1>4, <2>1, <2>2, <2>3, MovesAlone
<1>5. CASE Ends(c)
  BY <1>5, EndSteps
<1> QED BY <1>4, <1>5 DEF CallerFails

---------------------------------------------------------------------------
(* Rotations and revocations                                               *)

\* The connection is written as active.
LEMMA ActivateStep ==
    ASSUME MapInv, NEW p \in Asserting, Activate(p)
    PROVE  MapInv'
<1>1. /\ TypeOK /\ p \in Actors /\ p \notin Revokers
      /\ p \in Callers \/ p \in Rotations
      /\ p \in Callers => CallerFits(p) /\ p \notin Rotations
      /\ p \in Rotations => RotationFits(p)
  BY Known
<1>2. /\ at[p] = "activate" /\ status' = "active" /\ Enter(p)
      /\ UNCHANGED <<secret, stored, flights, cancelled, ghosts>>
  BY DEF Activate
<1>3. stage[p] = 2
  BY <1>1, <1>2 DEF CallerFits, RotationFits
<1>4. /\ at' \in [Actors -> Places] /\ at'[p] = "readStatus"
      /\ \A q \in Actors \ {p} : at'[q] = at[q]
      /\ stage' \in [Asserting -> 0..4] /\ stage'[p] = 3
      /\ \A q \in Asserting \ {p} : stage'[q] = stage[q]
      /\ doomed' \in [Asserting -> BOOLEAN]
  BY <1>1, <1>2, <1>3, Entered
<1>5. flight' = flight /\ joined' = joined /\ entry' = entry
  BY <1>2 DEF flights
<1>6. TypeOK'
  BY <1>1, <1>2, <1>4 DEF TypeOK, Places, Statuses, flights, ghosts
<1>7. p \in Callers => CallerFits(p)'
  BY <1>1, <1>2, <1>4, <1>5 DEF CallerFits
<1>8. p \in Rotations => RotationFits(p)'
  BY <1>4 DEF RotationFits
<1> QED BY <1>1, <1>4, <1>5, <1>6, <1>7, <1>8, MovesAlone

\* A rotation enters a check: with its lease, or after a write or the host's
\* callback.
LEMMA RotationEnters ==
    ASSUME MapInv, NEW r \in Rotations, Lease(r) \/ WriteRotated(r) \/ Notify(r)
    PROVE  MapInv'
<1>1. /\ TypeOK /\ r \in Asserting /\ r \in Actors /\ r \notin Revokers /\ r \notin Callers
      /\ RotationFits(r)
  BY Kinds, Known
<1>2. /\ at[r] \in {"acquire", "write", "notify"} /\ Enter(r)
      /\ UNCHANGED <<status, stored, flights, ghosts>>
      /\ secret' \in {secret, r} /\ cancelled' \in {cancelled, cancelled \cup {r}}
  BY DEF Lease, WriteRotated, Notify, stores
<1>3. stage[r] \in 0..3
  BY <1>1, <1>2 DEF RotationFits
<1>4. /\ at' \in [Actors -> Places] /\ at'[r] = "readStatus"
      /\ \A q \in Actors \ {r} : at'[q] = at[q]
      /\ stage' \in [Asserting -> 0..4] /\ stage'[r] = stage[r] + 1
      /\ \A q \in Asserting \ {r} : stage'[q] = stage[q]
      /\ doomed' \in [Asserting -> BOOLEAN]
  BY <1>1, <1>2, <1>3, Entered
<1>5. flight' = flight /\ joined' = joined /\ entry' = entry
  BY <1>2 DEF flights
<1>6. secret' \in Tokens \cup {None} /\ cancelled' \subseteq Asserting
  BY <1>1, <1>2, Kinds DEF TypeOK
<1>7. TypeOK'
  BY <1>1, <1>2, <1>4, <1>6 DEF TypeOK, Places, flights, ghosts
<1>8. RotationFits(r)'
  BY <1>3, <1>4 DEF RotationFits
<1> QED BY <1>1, <1>4, <1>5, <1>7, <1>8, MovesAlone

\* A rotation is handed a token and redeems it.
LEMMA HandedSteps ==
    ASSUME MapInv, HoldsToken, NEW r \in Rotations, Rotate(r) \/ RotationRedeems(r)
    PROVE  MapInv'
<1>1. /\ TypeOK /\ r \in Asserting /\ r \in Actors /\ r \notin Revokers /\ r \notin Callers
      /\ RotationFits(r)
  BY Kinds, Known
<1>2. /\ at[r] \in {"idle", "redeem"}
      /\ Goto(r, "redeem") \/ Goto(r, "acquire") \/ Goto(r, "done")
      /\ UNCHANGED <<stores, check, entry, flight, joined, cancelled, ghosts>>
      /\ \/ UNCHANGED redeemed /\ secret # None /\ token' = [token EXCEPT ![r] = secret]
         \/ UNCHANGED token /\ redeemed' = redeemed \cup {token[r]} /\ at[r] = "redeem"
  BY DEF Rotate, RotationRedeems, Begins
<1>3. PICK pc \in {"redeem", "acquire", "done"} : Goto(r, pc)
  BY <1>2
<1>4. /\ at' \in [Actors -> Places] /\ at'[r] = pc
      /\ \A q \in Actors \ {r} : at'[q] = at[q]
  BY <1>1, <1>3, Went DEF Places
<1>5. token' \in [Asserting -> Tokens \cup {None}]
  BY <1>1, <1>2 DEF TypeOK
<1>6. redeemed' \subseteq Tokens
  BY <1>1, <1>2 DEF TypeOK, HoldsToken
<1>7. stage' = stage /\ entry' = entry /\ flight' = flight /\ joined' = joined
  BY <1>2 DEF check
<1>8. TypeOK'
  BY <1>1, <1>2, <1>4, <1>5, <1>6 DEF TypeOK, Places, stores, check, ghosts
<1>9. RotationFits(r)'
  BY <1>1, <1>2, <1>4, <1>7 DEF RotationFits
<1> QED BY <1>1, <1>4, <1>7, <1>8, <1>9, MovesAlone

\* A revocation begins, deletes and marks; it or a rotation fails.
LEMMA OtherSteps ==
    ASSUME MapInv, NEW p \in Actors,
           Revoke(p) \/ RevokeDeletes(p) \/ RevokeMarks(p) \/ OtherFails(p)
    PROVE  MapInv'
<1>1. TypeOK
  BY DEF MapInv
<1>2. /\ p \in Rotations \cup Revokers /\ p \notin Callers
      /\ p \in Rotations => p \notin Revokers /\ RotationFits(p)
      /\ p \in Revokers => RevokerFits(p)
  <2>1. p \in Rotations \cup Revokers
    BY DEF Revoke, RevokeDeletes, RevokeMarks, OtherFails
  <2> QED BY <2>1, Kinds DEF MapInv
<1>3. /\ UNCHANGED <<check, flights, expired, result>>
      /\ \/ p \in Revokers /\ (Goto(p, "delete") \/ Goto(p, "mark"))
         \/ Goto(p, "done")
      /\ secret' \in {secret, None} /\ status' \in {status, "revoked"}
      /\ cancelled' = cancelled \/ cancelled' = cancelled \cup ({entry} \cap Callers) \cup Leased
      /\ revoked' = revoked \/ (p \in Revokers /\ revoked' = revoked \cup {p})
      /\ faults' = faults \/ Fault
  BY DEF Revoke, RevokeDeletes, RevokeMarks, OtherFails, Begins, stores, ghosts
<1>4. faults' \in 0..MaxFaults
  BY <1>1, <1>3, CredentialAssumption DEF TypeOK, Fault, CredentialAssumption
<1>5. /\ at' \in [Actors -> Places]
      /\ \A q \in Actors \ {p} : at'[q] = at[q]
      /\ \/ p \in Revokers /\ at'[p] \in {"delete", "mark"}
         \/ at'[p] = "done"
  <2>1. PICK pc \in {"delete", "mark", "done"} :
          /\ Goto(p, pc)
          /\ pc \in {"delete", "mark"} => p \in Revokers
    BY <1>3
  <2>2. /\ at' \in [Actors -> Places] /\ at'[p] = pc
        /\ \A q \in Actors \ {p} : at'[q] = at[q]
    BY <1>1, <2>1, Went DEF Places
  <2> QED BY <2>1, <2>2
<1>6. cancelled' \subseteq Asserting
  BY <1>1, <1>3 DEF TypeOK, Leased, Asserting
<1>7. stage' = stage /\ flight' = flight /\ joined' = joined /\ entry' = entry
  BY <1>3 DEF check, flights
<1>8. TypeOK'
  BY <1>1, <1>3, <1>4, <1>5, <1>6 DEF TypeOK, Places, Statuses, check, flights
<1>9. p \in Rotations => RotationFits(p)'
  BY <1>2, <1>5, <1>7 DEF RotationFits
<1>10. p \in Revokers => RevokerFits(p)'
  BY <1>2, <1>5 DEF RevokerFits
<1> QED BY <1>2, <1>5, <1>7, <1>8, <1>9, <1>10, MovesAlone

---------------------------------------------------------------------------
(* Flights                                                                 *)

\* Where a flight stands: a settled one that nobody waits for leaves the map.
LEMMA FlightMoves ==
    ASSUME MapInv, NEW f \in Callers, Unsettled(f),
           NEW pc \in {"redeem", "write", "written", "undo", "resolved", "failed", "revoked"},
           Fly(f, pc), UNCHANGED <<at, check, joined, expired, result, revoked, status>>,
           secret' \in Tokens \cup {None}, token' \in [Asserting -> Tokens \cup {None}],
           redeemed' \subseteq Tokens, cancelled' = cancelled, faults' \in 0..MaxFaults
    PROVE  MapInv'
<1>1. TypeOK /\ OneFlight
  BY DEF MapInv
<1>2. f # None /\ entry = f
  BY <1>1, Kinds DEF OneFlight
<1>3. /\ flight' \in [Callers -> {"none", "read", "redeem", "write", "written", "undo",
                                  "resolved", "failed", "revoked"}]
      /\ flight'[f] = pc /\ \A g \in Callers \ {f} : flight'[g] = flight[g]
  BY <1>1 DEF TypeOK, Fly
<1>4. \A g \in Callers \ {f} : ~Unsettled(g)'
  BY <1>1, <1>2, <1>3 DEF OneFlight, Unsettled
<1>5. ASSUME Waiters(f) = {} /\ pc \in {"resolved", "failed", "revoked"}
      PROVE  OneFlight'
  <2>1. entry' = None
    BY <1>2, <1>5 DEF Fly
  <2>2. \A c \in Callers : joined[c] = None
    BY <1>1, <1>2, <1>5 DEF OneFlight, Waiters
  <2>3. ~Unsettled(f)'
    BY <1>3, <1>5 DEF Unsettled
  <2>4. joined' = joined /\ \A c \in Callers : joined'[c] = None
    BY <2>2
  <2>5. \A g \in Callers : ~Unsettled(g)'
    BY <1>4, <2>3
  <2>6. OneFlight'
    BY <2>1, <2>4, <2>5 DEF OneFlight
  <2> QED BY <2>6
<1>6. ASSUME ~(Waiters(f) = {} /\ pc \in {"resolved", "failed", "revoked"})
      PROVE  OneFlight'
  <2>1. entry' = f
    BY <1>2, <1>6 DEF Fly
  <2>2. Unsettled(f)' \/ \E c \in Callers : joined[c] = f
    BY <1>3, <1>6 DEF Unsettled, Waiters
  <2>3. flight'[f] # "none"
    BY <1>3
  <2>4. joined' = joined /\ \A c \in Callers : joined'[c] # None => joined'[c] = f
    BY <1>1, <1>2 DEF OneFlight
  <2>5. Unsettled(f)' \/ \E c \in Callers : joined'[c] = f
    BY <2>2, <2>4
  <2>6. OneFlight'
    BY <1>4, <2>1, <2>3, <2>4, <2>5 DEF OneFlight
  <2> QED BY <2>6
<1>7. OneFlight' /\ entry' \in Callers \cup {None}
  <2>1. f \in Callers \cup {None} /\ None \in Callers \cup {None}
    OBVIOUS
  <2>2. entry' \in {f, None}
    BY <1>2 DEF Fly
  <2> QED BY <1>5, <1>6, <2>1, <2>2
<1>8. TypeOK'
  BY <1>1, <1>3, <1>7 DEF TypeOK, check
<1>9. ASSUME NEW c \in Callers PROVE CallerFits(c)'
  <2>1. CallerFits(c) /\ at' = at /\ stage' = stage /\ joined' = joined
    BY DEF MapInv, check
  <2>2. flight'[c] = flight[c] \/ flight[c] # "none"
    BY <1>3 DEF Unsettled
  <2> QED BY <2>1, <2>2 DEF CallerFits
<1>10. ASSUME NEW r \in Rotations PROVE RotationFits(r)'
  BY DEF MapInv, check, RotationFits
<1>11. ASSUME NEW v \in Revokers PROVE RevokerFits(v)'
  BY DEF MapInv, RevokerFits
<1> QED BY <1>7, <1>8, <1>9, <1>10, <1>11 DEF MapInv

\* The steps of a flight.
LEMMA FlightSteps ==
    ASSUME MapInv, HoldsToken, NEW f \in Callers, FlightStep(f) \/ FlightFails(f)
    PROVE  MapInv'
<1>1. TypeOK /\ f \in Tokens
  BY Kinds DEF MapInv
<1>2. Unsettled(f) /\ UNCHANGED <<at, check, joined, expired, result, revoked, status>>
      /\ cancelled' = cancelled
  BY DEF FlightStep, FlightReads, FlightRedeems, FlightWrites, FlightWritten, FlightUndoes,
     FlightFails, Unsettled, stores, ghosts
<1>3. secret' \in Tokens \cup {None}
  BY <1>1 DEF FlightStep, FlightReads, FlightRedeems, FlightWrites, FlightWritten, FlightUndoes,
     FlightFails, stores, TypeOK
<1>4. token' \in [Asserting -> Tokens \cup {None}]
  BY <1>1 DEF FlightStep, FlightReads, FlightRedeems, FlightWrites, FlightWritten, FlightUndoes,
     FlightFails, TypeOK
<1>5. faults' \in 0..MaxFaults
  BY <1>1, CredentialAssumption DEF FlightStep, FlightReads, FlightRedeems, FlightWrites,
     FlightWritten, FlightUndoes, FlightFails, ghosts, TypeOK, Fault, CredentialAssumption
<1>6. CASE FlightReads(f)
  <2>1. PICK pc \in {"redeem", "resolved", "failed"} : Fly(f, pc)
    BY <1>6 DEF FlightReads
  <2>2. redeemed' \subseteq Tokens
    BY <1>1, <1>6 DEF FlightReads, TypeOK
  <2> QED BY <1>2, <1>3, <1>4, <1>5, <2>1, <2>2, FlightMoves
<1>7. CASE FlightRedeems(f)
  <2>1. PICK pc \in {"revoked", "write", "failed"} : Fly(f, pc)
    BY <1>7 DEF FlightRedeems
  <2>2. redeemed' \subseteq Tokens
    <3>1. token[f] \in Tokens
      BY <1>1, <1>7, Kinds DEF FlightRedeems, HoldsToken, TypeOK
    <3> QED BY <1>1, <1>7, <3>1 DEF FlightRedeems, TypeOK
  <2> QED BY <1>2, <1>3, <1>4, <1>5, <2>1, <2>2, FlightMoves
<1>8. CASE FlightWrites(f) \/ FlightWritten(f) \/ FlightUndoes(f) \/ FlightFails(f)
  <2>1. PICK pc \in {"written", "undo", "resolved", "revoked", "failed"} : Fly(f, pc)
    BY <1>8 DEF FlightWrites, FlightWritten, FlightUndoes, FlightFails
  <2>2. redeemed' \subseteq Tokens
    BY <1>1, <1>8 DEF FlightWrites, FlightWritten, FlightUndoes, FlightFails, TypeOK
  <2> QED BY <1>2, <1>3, <1>4, <1>5, <2>1, <2>2, FlightMoves
<1> QED BY <1>6, <1>7, <1>8 DEF FlightStep

\* A token expires.
LEMMA ExpireStep ==
    ASSUME MapInv, NEW t \in Tokens, Expire(t)
    PROVE  MapInv'
<1>1. TypeOK /\ OneFlight
  BY DEF MapInv
<1>2. /\ expired' = expired \cup {t}
      /\ UNCHANGED <<stores, at, check, flights, cancelled, result, revoked, faults>>
  BY DEF Expire
<1>3. /\ at' = at /\ stage' = stage /\ flight' = flight /\ joined' = joined
      /\ entry' = entry
  BY <1>2 DEF check, flights
<1>4. TypeOK'
  BY <1>1, <1>2 DEF TypeOK, stores, check, flights
<1>5. OneFlight'
  BY <1>1, <1>3, FlightsStay
<1>6. ASSUME NEW c \in Callers PROVE CallerFits(c)'
  BY <1>3 DEF MapInv, CallerFits
<1>7. ASSUME NEW r \in Rotations PROVE RotationFits(r)'
  BY <1>3 DEF MapInv, RotationFits
<1>8. ASSUME NEW v \in Revokers PROVE RevokerFits(v)'
  BY <1>3 DEF MapInv, RevokerFits
<1> QED BY <1>4, <1>5, <1>6, <1>7, <1>8 DEF MapInv

\* Nothing happens.
LEMMA StutterStep ==
    ASSUME MapInv, UNCHANGED vars
    PROVE  MapInv'
<1>1. OneFlight'
  BY FlightsStay DEF MapInv, vars
<1>2. TypeOK'
  BY DEF MapInv, TypeOK, vars
<1>3. ASSUME NEW c \in Callers PROVE CallerFits(c)'
  BY DEF MapInv, CallerFits, vars
<1>4. ASSUME NEW r \in Rotations PROVE RotationFits(r)'
  BY DEF MapInv, RotationFits, vars
<1>5. ASSUME NEW v \in Revokers PROVE RevokerFits(v)'
  BY DEF MapInv, RevokerFits, vars
<1> QED BY <1>1, <1>2, <1>3, <1>4, <1>5 DEF MapInv

---------------------------------------------------------------------------
(* The invariant                                                           *)

\* What an actor does.
Act(p) ==
    Step(p) \/ Resolve(p) \/ Rotate(p) \/ Revoke(p) \/ CallerFails(p) \/ OtherFails(p)

\* What an actor does leaves the invariant true.
LEMMA ActorStep ==
    ASSUME MapInv, HoldsToken, NEW p \in Actors, Act(p)
    PROVE  MapInv'
<1>1. CASE p \in Callers /\ (ReadSecret(p) \/ AcquireRevoked(p) \/ AcquireJoins(p)
                              \/ AcquireFlies(p) \/ WaitOver(p) \/ WriteExpired(p))
  <2>1. CASE AcquireRevoked(p) \/ WriteExpired(p)
    BY <1>1, <2>1, EndSteps
  <2> QED
    BY <1>1, <2>1, ReadSecretStep, AcquireJoinsStep, AcquireFliesStep, WaitOverStep
<1>2. CASE /\ p \in Asserting
           /\ AssertStatus(p) \/ AssertSecret(p) \/ AssertDelete(p) \/ AssertMark(p) \/ Activate(p)
  BY <1>2, AssertStatusStep, AssertSecretStep, AssertRevokedSteps, ActivateStep
<1>3. CASE Lease(p) \/ WriteRotated(p) \/ Notify(p)
  <2>1. p \in Rotations
    <3>1. at[p] = "notify" => p \in Rotations
      BY Kinds DEF MapInv, CallerFits, RevokerFits, Actors
    <3> QED BY <1>3, <3>1 DEF Lease, WriteRotated, Notify
  <2> QED BY <1>3, <2>1, RotationEnters
<1>4. CASE RevokeDeletes(p) \/ RevokeMarks(p) \/ Revoke(p) \/ OtherFails(p)
  BY <1>4, OtherSteps
<1>7. CASE Rotate(p) \/ RotationRedeems(p)
  BY <1>7, HandedSteps DEF Rotate, RotationRedeems
<1>5. CASE Resolve(p)
  BY <1>5, ResolveStep DEF Resolve
<1>6. CASE CallerFails(p)
  BY <1>6, CallerFailsStep DEF CallerFails
<1> QED BY <1>1, <1>2, <1>3, <1>4, <1>5, <1>6, <1>7 DEF Act, Step

\* An actor starts a flight at most; only an invocation is handed a token.
LEMMA ActorsAndFlights ==
    ASSUME NEW p \in Actors, Act(p)
    PROVE  /\ Rotate(p) \/ token' = token
           /\ flight' = flight \/ flight' = [flight EXCEPT ![p] = "read"]
<1>1. CASE Step(p)
  <2>1. CASE /\ p \in Callers
             /\ \/ ReadSecret(p) \/ AcquireRevoked(p) \/ AcquireJoins(p)
                \/ AcquireFlies(p) \/ WaitOver(p) \/ WriteExpired(p)
    BY <2>1 DEF ReadSecret, AcquireRevoked, AcquireJoins, AcquireFlies, WaitOver,
       WriteExpired, flights
  <2>2. CASE AssertStatus(p) \/ AssertSecret(p) \/ AssertDelete(p) \/ AssertMark(p) \/ Activate(p)
    BY <2>2 DEF AssertStatus, AssertSecret, AssertDelete, AssertMark, Activate, flights
  <2>3. CASE RotationRedeems(p) \/ Lease(p) \/ WriteRotated(p) \/ Notify(p)
             \/ RevokeDeletes(p) \/ RevokeMarks(p)
    BY <2>3 DEF RotationRedeems, Lease, WriteRotated, Notify, RevokeDeletes, RevokeMarks, flights
  <2> QED BY <1>1, <2>1, <2>2, <2>3 DEF Step
<1>2. CASE Resolve(p) \/ Rotate(p) \/ Revoke(p) \/ CallerFails(p) \/ OtherFails(p)
  BY <1>2 DEF Resolve, Rotate, Revoke, CallerFails, OtherFails, flights
<1> QED BY <1>1, <1>2 DEF Act

\* Where an actor goes: nobody becomes idle, and only an invocation that begins
\* is going to redeem.
LEMMA WhereActorsGo ==
    ASSUME MapInv, NEW p \in Actors, Act(p), ~Rotate(p)
    PROVE  \E pc \in Places \ {"idle", "redeem"} : Goto(p, pc)
<1>1. CASE Resolve(p) \/ Revoke(p) \/ CallerFails(p) \/ OtherFails(p)
           \/ RevokeDeletes(p) \/ RevokeMarks(p)
  BY <1>1 DEF Resolve, Revoke, CallerFails, OtherFails, RevokeDeletes, RevokeMarks,
     Ends, Places
<1>2. CASE ReadSecret(p) \/ AcquireRevoked(p) \/ AcquireJoins(p)
           \/ AcquireFlies(p) \/ WaitOver(p) \/ WriteExpired(p)
  BY <1>2 DEF ReadSecret, AcquireRevoked, AcquireJoins, AcquireFlies, WaitOver,
     WriteExpired, Ends, Enter, Places
<1>3. CASE AssertStatus(p) \/ AssertDelete(p) \/ AssertMark(p) \/ Activate(p)
           \/ RotationRedeems(p) \/ Lease(p) \/ WriteRotated(p) \/ Notify(p)
  BY <1>3 DEF AssertStatus, AssertDelete, AssertMark, Activate, RotationRedeems, Lease,
     WriteRotated, Notify, Ends, Enter, Places
<1>4. CASE AssertSecret(p)
  BY <1>4 DEF AssertSecret, Ends, Proceeds, Places
<1> QED BY <1>1, <1>2, <1>3, <1>4 DEF Act, Step

\* Whoever redeems has read a token.
LEMMA TokenIsHeld ==
    ASSUME MapInv, HoldsToken, [Next]_vars
    PROVE  HoldsToken'
<1>1. TypeOK
  BY DEF MapInv
<1>2. ASSUME NEW p \in Actors, Act(p) PROVE HoldsToken'
  <2>1. flight' = flight \/ flight' = [flight EXCEPT ![p] = "read"]
    BY <1>2, ActorsAndFlights
  <2>2. CASE Rotate(p)
    <3>1. /\ p \in Rotations /\ p \notin Callers /\ secret # None
          /\ token' = [token EXCEPT ![p] = secret] /\ flight' = flight
          /\ Goto(p, "redeem")
      BY <2>2, Kinds DEF Rotate
    <3>2. /\ token'[p] = secret
          /\ \A q \in Asserting \ {p} : token'[q] = token[q]
          /\ \A q \in Actors \ {p} : at'[q] = at[q]
      BY <1>1, <3>1, Kinds DEF TypeOK, Goto
    <3> QED BY <3>1, <3>2, Kinds DEF HoldsToken
  <2>3. CASE ~Rotate(p)
    <3>1. token' = token
      BY <1>2, <2>3, ActorsAndFlights
    <3>2. PICK pc \in Places \ {"idle", "redeem"} : Goto(p, pc)
      BY <1>2, <2>3, WhereActorsGo
    <3>3. at'[p] # "redeem" /\ \A q \in Actors \ {p} : at'[q] = at[q]
      BY <1>1, <3>2, Went
    <3>4. \A f \in Callers : flight'[f] = "redeem" => flight[f] = "redeem"
      BY <1>1, <2>1 DEF TypeOK
    <3> QED BY <3>1, <3>3, <3>4, Kinds DEF HoldsToken
  <2> QED BY <2>2, <2>3
<1>3. ASSUME NEW f \in Callers, FlightStep(f) \/ FlightFails(f) PROVE HoldsToken'
  <2>4. /\ at' = at /\ \A r \in Rotations : r \in Asserting /\ r # f
        /\ \A c \in Callers : c \in Asserting
        /\ f # None
    BY <1>3, Kinds DEF FlightStep, FlightFails, FlightReads, FlightRedeems, FlightWrites,
       FlightWritten, FlightUndoes
  <2>1. CASE FlightReads(f)
    BY <1>1, <2>1, <2>4 DEF FlightReads, Fly, HoldsToken, TypeOK
  <2>2. CASE FlightRedeems(f)
    BY <1>1, <2>2, <2>4 DEF FlightRedeems, Fly, HoldsToken, TypeOK
  <2>3. CASE FlightWrites(f) \/ FlightWritten(f) \/ FlightUndoes(f) \/ FlightFails(f)
    BY <1>1, <2>3, <2>4 DEF FlightWrites, FlightWritten, FlightUndoes, FlightFails, Fly,
       HoldsToken, TypeOK
  <2> QED BY <1>3, <2>1, <2>2, <2>3 DEF FlightStep
<1>4. CASE UNCHANGED vars \/ \E t \in Tokens : Expire(t)
  BY <1>4 DEF vars, Expire, flights, HoldsToken
<1> QED BY <1>2, <1>3, <1>4 DEF Next, Act

\* The inductive step.
LEMMA InvariantStep ==
    ASSUME MapInv, HoldsToken, [Next]_vars
    PROVE  MapInv' /\ HoldsToken'
<1>1. ASSUME NEW p \in Actors, Act(p) PROVE MapInv'
  BY <1>1, ActorStep
<1>2. ASSUME NEW f \in Callers, FlightStep(f) \/ FlightFails(f) PROVE MapInv'
  BY <1>2, FlightSteps
<1>3. ASSUME NEW t \in Tokens, Expire(t) PROVE MapInv'
  BY <1>3, ExpireStep
<1>4. ASSUME UNCHANGED vars PROVE MapInv'
  BY <1>4, StutterStep
<1>5. MapInv'
  BY <1>1, <1>2, <1>3, <1>4 DEF Next, Act
<1> QED BY <1>5, TokenIsHeld

\* Every state of the shared refresh satisfies the invariant.
LEMMA Invariant == Spec => [](MapInv /\ HoldsToken)
<1>1. Init => HoldsToken
  BY Kinds DEF Init, HoldsToken
<1> QED BY <1>1, InitEstablishes, InvariantStep, PTL DEF Spec

\* What callers, rotations, revocations and flights leave behind has its type.
THEOREM RefreshTypeCorrect == Spec => []TypeOK
<1>1. MapInv => TypeOK
  BY DEF MapInv
<1> QED BY <1>1, Invariant, PTL

\* credentialRefreshes holds a flight only while somebody can settle or leave
\* it, however the callers, failures and revocations interleave.
THEOREM MapIsCleared == Spec => []FlightsAreCleared
<1>1. ASSUME MapInv PROVE FlightsAreCleared
  <2>1. TypeOK /\ OneFlight
    BY <1>1 DEF MapInv
  <2>2. ASSUME Quiet, entry # None PROVE FALSE
    <3>1. entry \in Callers
      BY <2>1, <2>2 DEF TypeOK
    <3>2. ~Unsettled(entry)
      BY <2>2, <3>1 DEF Quiet, Settled, Unsettled
    <3>3. PICK c \in Callers : joined[c] = entry
      BY <2>1, <2>2, <3>2 DEF OneFlight
    <3>4. CallerFits(c) /\ at[c] \in {"idle", "done"}
      BY <1>1, <2>2, Kinds DEF MapInv, Quiet
    <3> QED BY <2>2, <3>3, <3>4 DEF CallerFits
  <2> QED BY <2>1, <2>2 DEF FlightsAreCleared, OneFlight
<1> QED BY <1>1, Invariant, PTL

---------------------------------------------------------------------------
(* Tokens, while nothing is revoked and nothing fails                      *)

\* Nothing has failed, and no revocation has begun.
Calm == faults = 0 /\ \A v \in Revokers : at[v] = "idle"

\* Then nobody takes the connection for revoked.
Unrevoked ==
    /\ cancelled = {} /\ status # "revoked" /\ secret # None
    /\ \A p \in Asserting : doomed[p] = FALSE /\ at[p] \notin {"delete", "mark"}
    /\ \A f \in Callers : flight[f] # "undo"

\* The rotation or flight that obtains t has not stored it.
Unwritten(t) ==
    \/ t \in Rotations /\ stage[t] <= 1
    \/ t \in Callers /\ flight[t] \in {"none", "read", "redeem", "write"}

\* An invocation has redeemed the token it was handed, or was refused.
Asked(r) == at[r] \notin {"idle", "redeem"}

\* An adapter has redeemed t.
AdapterRedeemed(t) == \E r \in Rotations : Asked(r) /\ token[r] = t

\* Adapters apart, the stored token has been redeemed only by a flight that is
\* about to store another, and what a flight redeems has not been; nobody holds
\* a token that has not been stored.
FreshTokens ==
    /\ secret \in redeemed => AdapterRedeemed(secret) \/ \E f \in Callers : flight[f] = "write"
    /\ \A f \in Callers : flight[f] = "redeem" /\ token[f] \in redeemed =>
          AdapterRedeemed(token[f])
    /\ \A t \in Tokens : Unwritten(t) =>
          /\ t # secret /\ t \notin redeemed
          /\ \A f \in Callers : flight[f] = "redeem" => token[f] # t
          /\ \A r \in Rotations : token[r] # t

\* The inductive invariant of the tokens.
TokenInv == Calm => Unrevoked /\ FreshTokens

\* A step adds one failure at most.
LEMMA FaultsCount ==
    ASSUME MapInv, Next, faults' = 0
    PROVE  faults = 0
<1>1. faults \in Nat
  BY CredentialAssumption DEF MapInv, TypeOK, CredentialAssumption
<1>2. ASSUME NEW p \in Actors, Act(p) PROVE faults' = faults \/ faults' = faults + 1
  BY <1>2 DEF Act, Step, Resolve, Rotate, Revoke, CallerFails, OtherFails, ReadSecret,
     AcquireRevoked, AcquireJoins, AcquireFlies, WaitOver, WriteExpired, AssertStatus,
     AssertSecret, AssertDelete, AssertMark, Activate, RotationRedeems, Lease, WriteRotated,
     Notify, RevokeDeletes, RevokeMarks, Fault, ghosts
<1>3. ASSUME NEW f \in Callers, FlightStep(f) \/ FlightFails(f)
      PROVE  faults' = faults \/ faults' = faults + 1
  BY <1>3 DEF FlightStep, FlightFails, FlightReads, FlightRedeems, FlightWrites,
     FlightWritten, FlightUndoes, Fault, ghosts
<1>4. ASSUME NEW t \in Tokens, Expire(t) PROVE faults' = faults
  BY <1>4 DEF Expire
<1>5. faults' = faults \/ faults' = faults + 1
  BY <1>2, <1>3, <1>4 DEF Next, Act
<1> QED BY <1>1, <1>5

\* Nobody who has begun becomes idle again.
LEMMA NobodyReturns ==
    ASSUME MapInv, Next, NEW q \in Actors, at'[q] = "idle"
    PROVE  at[q] = "idle"
<1>1. TypeOK
  BY DEF MapInv
<1>2. ASSUME NEW p \in Actors, Act(p) PROVE \E pc \in Places \ {"idle"} : Goto(p, pc)
  <2>1. CASE Rotate(p)
    BY <2>1 DEF Rotate, Places
  <2> QED BY <1>2, <2>1, WhereActorsGo
<1>3. ASSUME NEW f \in Callers, FlightStep(f) \/ FlightFails(f) PROVE at' = at
  BY <1>3 DEF FlightStep, FlightFails, FlightReads, FlightRedeems, FlightWrites,
     FlightWritten, FlightUndoes
<1>4. ASSUME NEW t \in Tokens, Expire(t) PROVE at' = at
  BY <1>4 DEF Expire
<1>5. at' = at \/ \E p \in Actors : \E pc \in Places \ {"idle"} : Goto(p, pc)
  BY <1>2, <1>3, <1>4 DEF Next, Act
<1> QED BY <1>1, <1>5 DEF Goto, TypeOK

\* Calm does not return once it is over.
LEMMA CalmBefore ==
    ASSUME MapInv, Calm', Next
    PROVE  Calm
<1>1. faults = 0
  BY FaultsCount DEF Calm
<1>2. ASSUME NEW v \in Revokers PROVE at[v] = "idle"
  <2>1. at'[v] = "idle" /\ v \in Actors
    BY Kinds DEF Calm
  <2> QED BY <2>1, NobodyReturns
<1> QED BY <1>1, <1>2 DEF Calm

\* Who enters a check finds no revocation.
LEMMA CalmEnters ==
    ASSUME MapInv, Calm, Unrevoked, NEW p \in Asserting, stage[p] \in 0..3, Enter(p)
    PROVE  /\ \A q \in Asserting : doomed'[q] = FALSE /\ at'[q] \notin {"delete", "mark"}
           /\ \A q \in Asserting : stage'[q] \in {stage[q], stage[q] + 1}
           /\ \A q \in Asserting : Asked(q) => Asked(q)'
<1>1. TypeOK /\ p \in Actors /\ \A q \in Asserting : q \in Actors
  BY Known
<1>2. /\ at'[p] = "readStatus"
      /\ \A q \in Actors \ {p} : at'[q] = at[q]
      /\ stage'[p] = stage[p] + 1
      /\ \A q \in Asserting \ {p} : stage'[q] = stage[q]
  BY <1>1, Entered
<1>3. (Operation(p) \cap cancelled # {} \/ Revoking) = FALSE
  BY DEF Unrevoked, Calm, Revoking
<1>4. doomed' = [doomed EXCEPT ![p] = FALSE]
  BY <1>3 DEF Enter
<1>5. \A q \in Asserting : stage[q] \in Nat
  BY <1>1 DEF TypeOK
<1>6. \A q \in Asserting : Asked(q) => Asked(q)'
  BY <1>1, <1>2 DEF Asked
<1> QED BY <1>1, <1>2, <1>4, <1>5, <1>6 DEF Unrevoked, TypeOK

\* An actor moves, and no token does.
LEMMA CalmMoves ==
    ASSUME MapInv, Unrevoked, FreshTokens, secret' = secret, redeemed' = redeemed,
           token' = token, cancelled' = cancelled, status' \in {status, "active", "expired"},
           \/ flight' = flight
           \/ \E c \in Callers : flight[c] = "none" /\ flight' = [flight EXCEPT ![c] = "read"],
           \A q \in Asserting : doomed'[q] = FALSE /\ at'[q] \notin {"delete", "mark"},
           \A q \in Asserting : stage'[q] \in {stage[q], stage[q] + 1},
           \A q \in Asserting : Asked(q) => Asked(q)'
    PROVE  Unrevoked' /\ FreshTokens'
<1>1. TypeOK /\ \A r \in Rotations : r \in Asserting /\ stage[r] \in Nat
  <2>1. TypeOK
    BY DEF MapInv
  <2> QED BY <2>1, Kinds DEF TypeOK
<1>2. \A f \in Callers :
        /\ flight'[f] # "undo"
        /\ flight'[f] = "redeem" <=> flight[f] = "redeem"
        /\ flight'[f] = "write" <=> flight[f] = "write"
        /\ flight'[f] \in {"none", "read", "redeem", "write"} =>
              flight[f] \in {"none", "read", "redeem", "write"}
  BY <1>1 DEF TypeOK, Unrevoked
<1>3. Unrevoked'
  BY <1>2 DEF Unrevoked
<1>4. ASSUME NEW t \in Tokens, Unwritten(t)' PROVE Unwritten(t)
  <2>1. CASE t \in Rotations /\ stage'[t] <= 1
    <3>1. stage[t] <= 1
      BY <1>1, <2>1
    <3> QED BY <2>1, <3>1 DEF Unwritten
  <2> QED BY <1>2, <1>4, <2>1 DEF Unwritten
<1>5. ASSUME NEW t, AdapterRedeemed(t) PROVE AdapterRedeemed(t)'
  BY <1>1, <1>5 DEF AdapterRedeemed
<1>6. FreshTokens'
  BY <1>2, <1>4, <1>5 DEF FreshTokens
<1> QED BY <1>3, <1>6

\* An asserting actor that neither enters a check nor meets a revocation.
LEMMA CalmGoes ==
    ASSUME MapInv, Unrevoked, NEW p \in Asserting,
           NEW pc \in Places \ {"idle", "redeem", "delete", "mark"},
           Goto(p, pc), UNCHANGED doomed \/ Forget(p), UNCHANGED stage
    PROVE  /\ \A q \in Asserting : doomed'[q] = FALSE /\ at'[q] \notin {"delete", "mark"}
           /\ \A q \in Asserting : stage'[q] \in {stage[q], stage[q] + 1}
           /\ \A q \in Asserting : Asked(q) => Asked(q)'
<1>1. TypeOK /\ p \in Actors /\ \A q \in Asserting : q \in Actors
  BY Known
<1>2. at'[p] = pc /\ \A q \in Actors \ {p} : at'[q] = at[q]
  BY <1>1, Went
<1>3. \A q \in Asserting : doomed'[q] = FALSE
  BY <1>1 DEF Unrevoked, Forget, TypeOK
<1>4. \A q \in Asserting : Asked(q) => Asked(q)'
  BY <1>1, <1>2 DEF Asked
<1> QED BY <1>1, <1>2, <1>3, <1>4 DEF Unrevoked

\* Callers, rotations and their checks, but for the rotation that is handed a
\* token, redeems it or stores another.
LEMMA CalmActs ==
    ASSUME MapInv, Calm, Calm', Unrevoked, FreshTokens, NEW p \in Actors, Act(p),
           ~Rotate(p), ~RotationRedeems(p), ~WriteRotated(p)
    PROVE  Unrevoked' /\ FreshTokens'
<1>1. /\ TypeOK
      /\ p \notin Revokers => p \in Asserting
      /\ p \in Asserting => /\ stage[p] \in 0..4
                            /\ p \in Callers => CallerFits(p) /\ p \notin Rotations
                            /\ p \in Rotations => RotationFits(p) /\ p \notin Callers
                            /\ p \in Callers \/ p \in Rotations
      /\ p \in Callers \/ p \in Rotations => p \in Asserting /\ p \notin Revokers
  BY Known, Kinds DEF MapInv, Actors, Asserting
<1>2. faults' = 0 /\ faults = 0 /\ \A v \in Revokers : at[v] = "idle" /\ at'[v] = "idle"
  BY DEF Calm
<1>3. ~Revoking
  BY <1>2 DEF Revoking
<1>4. p \in Asserting
  <2>1. ASSUME p \in Revokers PROVE FALSE
    <3>1. Goto(p, "delete") \/ Goto(p, "mark") \/ Goto(p, "done")
      BY <1>1, <1>2, <2>1, Kinds DEF Act, Step, Asserting, Resolve, Lease,
         WriteRotated, Notify, Revoke, RevokeDeletes, RevokeMarks, CallerFails, OtherFails
    <3> QED BY <1>1, <1>2, <2>1, <3>1 DEF Goto, TypeOK
  <2> QED BY <1>1, <2>1
<1>5. CASE AcquireFlies(p) /\ p \in Callers
  <2>1. /\ Goto(p, "wait") /\ UNCHANGED <<stores, check, token, redeemed, cancelled>>
        /\ flight[p] = "none" /\ flight' = [flight EXCEPT ![p] = "read"]
    BY <1>1, <1>5 DEF AcquireFlies, CallerFits
  <2>2. /\ \A q \in Asserting : doomed'[q] = FALSE /\ at'[q] \notin {"delete", "mark"}
        /\ \A q \in Asserting : stage'[q] \in {stage[q], stage[q] + 1}
        /\ \A q \in Asserting : Asked(q) => Asked(q)'
    BY <1>4, <2>1, CalmGoes DEF Places, check
  <2> QED BY <1>5, <2>1, <2>2, CalmMoves DEF stores
<1>6. CASE /\ UNCHANGED <<secret, redeemed, token, cancelled, flight>>
           /\ status' \in {status, "active", "expired"}
           /\ stage[p] \in 0..3 /\ Enter(p)
  BY <1>4, <1>6, CalmEnters, CalmMoves
<1>7. CASE /\ UNCHANGED <<secret, redeemed, token, cancelled, flight, stage>>
           /\ status' \in {status, "active", "expired"}
           /\ UNCHANGED doomed \/ Forget(p)
           /\ \E pc \in Places \ {"idle", "redeem", "delete", "mark"} : Goto(p, pc)
  BY <1>4, <1>7, CalmGoes, CalmMoves
<1>8. CASE AssertStatus(p)
  <2>1. at[p] = "readStatus" /\ UNCHANGED <<stores, stage, flights>>
        /\ doomed' = [doomed EXCEPT ![p] = (doomed[p] \/ status = "revoked")]
        /\ \/ doomed'[p]
           \/ Goto(p, "readSecret") /\ UNCHANGED cancelled
    BY <1>8 DEF AssertStatus
  <2>2. (doomed[p] \/ status = "revoked") = FALSE
    BY <1>4 DEF Unrevoked
  <2>3. doomed' = [doomed EXCEPT ![p] = FALSE]
    BY <2>1, <2>2
  <2>4. doomed' = doomed /\ doomed'[p] = FALSE
    BY <1>1, <1>4, <2>3 DEF TypeOK, Unrevoked
  <2>5. Goto(p, "readSecret") /\ UNCHANGED cancelled
    BY <2>1, <2>4
  <2> QED BY <1>7, <2>1, <2>4, <2>5 DEF stores, flights, Places
<1>9. CASE AssertSecret(p)
  <2>1. /\ UNCHANGED <<secret, status, redeemed, token, cancelled, flight, stage>> /\ Forget(p)
        /\ Goto(p, Proceeds(p)) \/ Ends(p)
    BY <1>9 DEF AssertSecret, Unrevoked, stores
  <2>2. \E pc \in Places \ {"idle", "redeem", "delete", "mark"} : Goto(p, pc)
    BY <2>1 DEF Ends, Proceeds, Places
  <2> QED BY <1>7, <2>1, <2>2
<1>10. CASE Lease(p)
  <2>1. UNCHANGED <<secret, status, redeemed, token, cancelled, flight>> /\ Enter(p)
    BY <1>3, <1>10 DEF Lease, stores, flights
  <2>2. stage[p] = 0
    BY <1>1, <1>10 DEF Lease, RotationFits
  <2> QED BY <1>6, <2>1, <2>2
<1>11. CASE Notify(p) \/ Activate(p)
  <2>1. /\ UNCHANGED <<secret, redeemed, token, cancelled, flight>> /\ Enter(p)
        /\ status' \in {status, "active"}
    BY <1>11 DEF Notify, Activate, stores, flights
  <2>2. stage[p] \in 0..3
    BY <1>1, <1>4, <1>11 DEF Notify, Activate, CallerFits, RotationFits
  <2> QED BY <1>6, <2>1, <2>2
<1>12. CASE /\ p \in Callers
            /\ \/ ReadSecret(p) \/ AcquireRevoked(p) \/ AcquireJoins(p)
               \/ WaitOver(p) \/ WriteExpired(p)
  <2>1. /\ UNCHANGED <<secret, redeemed, token, cancelled, flight>>
        /\ status' \in {status, "expired"}
    BY <1>12 DEF ReadSecret, AcquireRevoked, AcquireJoins, WaitOver, WriteExpired, stores, flights
  <2>2. CASE Enter(p)
    <3>1. at[p] \in {"secret", "wait"} \/ Goto(p, "wait") \/ Goto(p, "done")
      BY <1>12 DEF ReadSecret, AcquireRevoked, AcquireJoins, WaitOver, WriteExpired, Ends
    <3>2. at'[p] = "readStatus"
      BY <1>1, <1>4, <2>2, Kinds DEF Enter, Goto, TypeOK
    <3>3. stage[p] \in 0..3
      BY <1>1, <1>4, <1>12, <3>1, <3>2 DEF Goto, TypeOK, CallerFits
    <3> QED BY <1>6, <2>1, <2>2, <3>3
  <2>3. CASE ~Enter(p)
    <3>1. /\ UNCHANGED <<stage, doomed>>
          /\ \E pc \in Places \ {"idle", "redeem", "delete", "mark"} : Goto(p, pc)
      BY <1>12, <2>3 DEF ReadSecret, AcquireRevoked, AcquireJoins, WaitOver, WriteExpired,
         Ends, check, Places
    <3> QED BY <1>7, <2>1, <3>1
  <2> QED BY <2>2, <2>3
<1>13. CASE Resolve(p)
  <2>1. /\ UNCHANGED <<secret, status, redeemed, token, cancelled, flight, stage, doomed>>
        /\ \E pc \in Places \ {"idle", "redeem", "delete", "mark"} : Goto(p, pc)
    BY <1>13 DEF Resolve, stores, check, flights, Places
  <2> QED BY <1>7, <2>1
<1>14. ~CallerFails(p) /\ ~OtherFails(p)
  BY <1>2 DEF CallerFails, OtherFails, Fault
<1>15. ~AssertDelete(p) /\ ~AssertMark(p)
  BY DEF AssertDelete, AssertMark, Unrevoked
<1>16. ~Revoke(p) /\ ~RevokeDeletes(p) /\ ~RevokeMarks(p)
  BY <1>1, <1>4, Kinds DEF Revoke, RevokeDeletes, RevokeMarks, Asserting
<1> QED BY <1>5, <1>8, <1>9, <1>10, <1>11, <1>12, <1>13, <1>14, <1>15, <1>16 DEF Act, Step

\* An invocation is handed what is stored.
LEMMA CalmIsHanded ==
    ASSUME MapInv, Unrevoked, FreshTokens, NEW r \in Rotations, Rotate(r)
    PROVE  Unrevoked' /\ FreshTokens'
<1>1. /\ TypeOK /\ r \in Asserting /\ r \in Actors /\ r \notin Callers
      /\ \A q \in Asserting : q \in Actors
      /\ \A q \in Callers \cup Rotations : q \in Asserting
  BY Kinds, Known
<1>2. /\ at[r] = "idle" /\ Goto(r, "redeem") /\ token' = [token EXCEPT ![r] = secret]
      /\ UNCHANGED <<secret, status, stage, doomed, entry, flight, redeemed, cancelled>>
  BY DEF Rotate, Begins, stores, check
<1>3. /\ at'[r] = "redeem" /\ \A q \in Actors \ {r} : at'[q] = at[q]
      /\ token'[r] = secret /\ \A q \in Asserting \ {r} : token'[q] = token[q]
  BY <1>1, <1>2 DEF TypeOK, Goto
<1>4. Unrevoked'
  BY <1>1, <1>2, <1>3 DEF Unrevoked
<1>5. ASSUME NEW t, AdapterRedeemed(t) PROVE AdapterRedeemed(t)'
  <2>1. PICK q \in Rotations : Asked(q) /\ token[q] = t
    BY <1>5 DEF AdapterRedeemed
  <2>2. q # r
    BY <1>2, <2>1 DEF Asked
  <2>3. Asked(q)' /\ token'[q] = t
    BY <1>1, <1>3, <2>1, <2>2 DEF Asked
  <2> QED BY <2>3 DEF AdapterRedeemed
<1>6. \A t : Unwritten(t)' <=> Unwritten(t)
  BY <1>2 DEF Unwritten
<1>7. \A f \in Callers : token'[f] = token[f]
  BY <1>1, <1>3
<1>8. FreshTokens'
  BY <1>1, <1>2, <1>3, <1>5, <1>6, <1>7 DEF FreshTokens
<1> QED BY <1>4, <1>8

\* An adapter redeems what it was handed.
LEMMA CalmAsks ==
    ASSUME MapInv, HoldsToken, Unrevoked, FreshTokens, NEW r \in Rotations, RotationRedeems(r)
    PROVE  Unrevoked' /\ FreshTokens'
<1>1. /\ TypeOK /\ r \in Asserting /\ r \in Actors
      /\ \A q \in Asserting : q \in Actors
      /\ \A q \in Callers \cup Rotations : q \in Asserting
  BY Kinds, Known
<1>2. /\ at[r] = "redeem" /\ (Goto(r, "acquire") \/ Goto(r, "done"))
      /\ redeemed' = redeemed \cup {token[r]}
      /\ UNCHANGED <<secret, status, stage, doomed, entry, flight, token, cancelled>>
  BY DEF RotationRedeems, stores, check
<1>3. at'[r] \in {"acquire", "done"} /\ \A q \in Actors \ {r} : at'[q] = at[q]
  BY <1>1, <1>2 DEF TypeOK, Goto
<1>4. Unrevoked'
  BY <1>1, <1>2, <1>3 DEF Unrevoked
<1>5. ASSUME NEW t, AdapterRedeemed(t) PROVE AdapterRedeemed(t)'
  <2>1. PICK q \in Rotations : Asked(q) /\ token[q] = t
    BY <1>5 DEF AdapterRedeemed
  <2>2. Asked(q)'
    BY <1>1, <1>3, <2>1 DEF Asked
  <2> QED BY <1>2, <2>1, <2>2 DEF AdapterRedeemed
<1>6. AdapterRedeemed(token[r])'
  BY <1>2, <1>3 DEF AdapterRedeemed, Asked
<1>7. \A t : Unwritten(t)' <=> Unwritten(t)
  BY <1>2 DEF Unwritten
<1>8. FreshTokens'
  <2>1. secret' \in redeemed' => AdapterRedeemed(secret)' \/ \E f \in Callers : flight'[f] = "write"
    BY <1>2, <1>5, <1>6 DEF FreshTokens
  <2>2. \A f \in Callers : flight'[f] = "redeem" /\ token'[f] \in redeemed' =>
           AdapterRedeemed(token[f])'
    BY <1>2, <1>5, <1>6 DEF FreshTokens
  <2>3. ASSUME NEW t \in Tokens, Unwritten(t)'
        PROVE  /\ t # secret' /\ t \notin redeemed'
               /\ \A f \in Callers : flight'[f] = "redeem" => token'[f] # t
               /\ \A q \in Rotations : token'[q] # t
    BY <1>2, <1>7, <2>3 DEF FreshTokens
  <2> QED BY <1>2, <2>1, <2>2, <2>3 DEF FreshTokens
<1> QED BY <1>4, <1>8

\* A rotation stores what nobody has seen.
LEMMA CalmRotates ==
    ASSUME MapInv, Calm, Unrevoked, FreshTokens, NEW r \in Rotations, WriteRotated(r)
    PROVE  Unrevoked' /\ FreshTokens'
<1>1. /\ TypeOK /\ RotationFits(r) /\ r \in Asserting /\ r \in Tokens /\ r # None
      /\ r \notin Callers
  BY Kinds DEF MapInv
<1>2. /\ at[r] = "write" /\ secret' = r /\ Enter(r)
      /\ UNCHANGED <<status, cancelled, flight, token, redeemed>>
  BY DEF WriteRotated, flights
<1>3. stage[r] = 1
  BY <1>1, <1>2 DEF RotationFits
<1>4. /\ \A q \in Asserting : doomed'[q] = FALSE /\ at'[q] \notin {"delete", "mark"}
      /\ stage'[r] = 2
      /\ \A q \in Asserting \ {r} : stage'[q] = stage[q]
      /\ \A q \in Asserting : Asked(q) => Asked(q)'
  <2>1. stage[r] \in 0..3
    BY <1>3
  <2>2. /\ \A q \in Asserting : doomed'[q] = FALSE /\ at'[q] \notin {"delete", "mark"}
        /\ \A q \in Asserting : stage'[q] \in {stage[q], stage[q] + 1}
        /\ \A q \in Asserting : Asked(q) => Asked(q)'
    BY <1>1, <1>2, <2>1, CalmEnters
  <2>3. stage'[r] = stage[r] + 1 /\ \A q \in Asserting \ {r} : stage'[q] = stage[q]
    BY <1>1, <1>2, <2>1, Entered
  <2> QED BY <1>3, <2>2, <2>3
<1>5. Unrevoked'
  BY <1>1, <1>2, <1>4 DEF Unrevoked
<1>6. Unwritten(r) /\ r \notin redeemed
  BY <1>1, <1>3 DEF Unwritten, FreshTokens
<1>7. ASSUME NEW t \in Tokens, Unwritten(t)' PROVE Unwritten(t) /\ t # r
  <2>1. \A q \in Rotations : q \in Asserting
    BY Kinds
  <2> QED BY <1>1, <1>2, <1>4, <1>7, <2>1 DEF Unwritten
<1>8. ASSUME NEW t, AdapterRedeemed(t) PROVE AdapterRedeemed(t)'
  BY <1>2, <1>4, <1>8, Kinds DEF AdapterRedeemed
<1>9. FreshTokens'
  BY <1>2, <1>6, <1>7, <1>8 DEF FreshTokens
<1> QED BY <1>5, <1>9

\* A flight goes on.
LEMMA CalmFlies ==
    ASSUME MapInv, HoldsToken, Calm, Calm', Unrevoked, FreshTokens, NEW f \in Callers,
           FlightStep(f) \/ FlightFails(f)
    PROVE  Unrevoked' /\ FreshTokens'
<1>1. /\ TypeOK /\ OneFlight /\ f \in Tokens /\ f # None /\ f \notin Rotations
      /\ secret \in Tokens
  <2>1. TypeOK /\ OneFlight
    BY DEF MapInv
  <2> QED BY <2>1, Kinds DEF TypeOK, Unrevoked
<1>2. /\ UNCHANGED <<at, stage, doomed, status, cancelled>>
      /\ Unsettled(f)
  BY DEF FlightStep, FlightFails, FlightReads, FlightRedeems, FlightWrites, FlightWritten,
     FlightUndoes, stores, check, Unsettled
<1>3. \A g \in Callers \ {f} : ~Unsettled(g)
  BY <1>1, <1>2 DEF OneFlight
<1>4. ~FlightFails(f) /\ ~FlightUndoes(f)
  BY DEF FlightFails, Fault, Calm, FlightUndoes, Unrevoked
<1>9. /\ \A q \in Rotations : token'[q] = token[q] /\ q \in Asserting /\ q # f
      /\ \A g \in Callers : g \in Asserting
  BY <1>1, Kinds DEF FlightStep, FlightFails, FlightReads, FlightRedeems, FlightWrites,
     FlightWritten, FlightUndoes, TypeOK
<1>10. \A t : AdapterRedeemed(t)' <=> AdapterRedeemed(t)
  BY <1>2, <1>9 DEF AdapterRedeemed, Asked
<1>5. CASE FlightReads(f)
  <2>1. PICK pc \in {"redeem", "resolved"} : Fly(f, pc)
    BY <1>1, <1>5, Kinds DEF FlightReads
  <2>2. /\ flight[f] = "read" /\ token' = [token EXCEPT ![f] = secret]
        /\ secret' = secret /\ redeemed' = redeemed
        /\ flight' = [flight EXCEPT ![f] = pc]
    BY <1>5, <2>1 DEF FlightReads, stores, Fly
  <2>3. secret \in redeemed => AdapterRedeemed(secret)
    BY <1>3, <2>2 DEF FreshTokens, Unsettled
  <2>4. \A g \in Callers \ {f} : /\ flight'[g] = flight[g] /\ token'[g] = token[g]
                                /\ flight'[g] # "redeem"
    BY <1>1, <1>3, <1>9, <2>2 DEF TypeOK, Unsettled
  <2>5. flight'[f] = pc /\ token'[f] = secret
    BY <1>1, <1>9, <2>2 DEF TypeOK
  <2>6. Unrevoked'
    BY <1>2, <2>2, <2>4, <2>5 DEF Unrevoked
  <2>7. ASSUME NEW t \in Tokens, Unwritten(t)' PROVE Unwritten(t)
    BY <1>2, <2>2, <2>4, <2>7 DEF Unwritten
  <2>8. FreshTokens'
    BY <1>9, <1>10, <2>2, <2>3, <2>4, <2>5, <2>7 DEF FreshTokens
  <2> QED BY <2>6, <2>8
<1>11. CASE FlightRedeems(f) /\ token[f] \in redeemed
  <2>1. /\ flight[f] = "redeem" /\ flight' = [flight EXCEPT ![f] = "failed"]
        /\ redeemed' = redeemed /\ token' = token /\ secret' = secret
    BY <1>11 DEF FlightRedeems, Fly, stores
  <2>2. \A g \in Callers \ {f} : flight'[g] = flight[g]
    BY <1>1, <2>1 DEF TypeOK
  <2>3. flight'[f] = "failed"
    BY <1>1, <2>1 DEF TypeOK
  <2>4. Unrevoked'
    BY <1>2, <2>1, <2>2, <2>3 DEF Unrevoked
  <2>5. ASSUME NEW t \in Tokens, Unwritten(t)' PROVE Unwritten(t)
    BY <1>2, <2>2, <2>3, <2>5 DEF Unwritten
  <2>6. FreshTokens'
    BY <1>10, <2>1, <2>2, <2>3, <2>5 DEF FreshTokens
  <2> QED BY <2>4, <2>6
<1>6. CASE FlightRedeems(f) /\ token[f] \notin redeemed
  <2>1. flight[f] = "redeem" /\ token[f] \notin redeemed
    BY <1>6 DEF FlightRedeems
  <2>2. /\ redeemed' = redeemed \cup {token[f]} /\ token' = [token EXCEPT ![f] = f]
        /\ secret' = secret
        /\ flight' = [flight EXCEPT ![f] = "write"]
    BY <1>6, <2>1 DEF FlightRedeems, Fly, stores, Unrevoked
  <2>3. \A g \in Callers \ {f} : /\ flight'[g] = flight[g] /\ flight'[g] # "redeem"
    BY <1>1, <1>3, <2>2 DEF TypeOK, Unsettled
  <2>4. flight'[f] = "write"
    BY <1>1, <2>2 DEF TypeOK
  <2>5. Unrevoked'
    BY <1>2, <2>2, <2>3, <2>4 DEF Unrevoked
  <2>6. ASSUME NEW t \in Tokens, Unwritten(t)' PROVE Unwritten(t)
    BY <1>2, <2>1, <2>3, <2>6 DEF Unwritten
  <2>7. ASSUME NEW t \in Tokens, Unwritten(t)'
        PROVE  t # secret' /\ t \notin redeemed' /\ \A q \in Rotations : token'[q] # t
    BY <1>9, <2>1, <2>2, <2>6, <2>7 DEF FreshTokens
  <2>8. FreshTokens'
    BY <2>3, <2>4, <2>7 DEF FreshTokens
  <2> QED BY <2>5, <2>8
<1>7. CASE FlightWrites(f)
  <2>1. /\ flight[f] = "write" /\ secret' = f /\ redeemed' = redeemed /\ token' = token
        /\ flight' = [flight EXCEPT ![f] = "written"]
    BY <1>7 DEF FlightWrites, Fly
  <2>2. \A g \in Callers \ {f} : flight'[g] = flight[g] /\ flight'[g] # "redeem"
    BY <1>1, <1>3, <2>1 DEF TypeOK, Unsettled
  <2>3. flight'[f] = "written"
    BY <1>1, <2>1 DEF TypeOK
  <2>4. Unrevoked'
    BY <1>1, <1>2, <2>1, <2>2, <2>3 DEF Unrevoked
  <2>5. f \notin redeemed
    BY <1>1, <2>1 DEF Unwritten, FreshTokens
  <2>6. ASSUME NEW t \in Tokens, Unwritten(t)' PROVE Unwritten(t) /\ t # f
    BY <1>1, <1>2, <2>2, <2>3, <2>6 DEF Unwritten
  <2>7. FreshTokens'
    BY <1>10, <2>1, <2>2, <2>3, <2>5, <2>6 DEF FreshTokens
  <2> QED BY <2>4, <2>7
<1>8. CASE FlightWritten(f)
  <2>1. /\ flight[f] = "written" /\ secret' = secret /\ redeemed' = redeemed /\ token' = token
        /\ flight' = [flight EXCEPT ![f] = "resolved"]
    BY <1>8 DEF FlightWritten, Fly, stores, Unrevoked
  <2>2. \A g \in Callers \ {f} : flight'[g] = flight[g] /\ flight'[g] # "redeem"
    BY <1>1, <1>3, <2>1 DEF TypeOK, Unsettled
  <2>3. flight'[f] = "resolved"
    BY <1>1, <2>1 DEF TypeOK
  <2>4. Unrevoked'
    BY <1>2, <2>1, <2>2, <2>3 DEF Unrevoked
  <2>5. ASSUME NEW t \in Tokens, Unwritten(t)' PROVE Unwritten(t)
    BY <1>2, <2>2, <2>3, <2>5 DEF Unwritten
  <2>6. secret \in redeemed =>
           AdapterRedeemed(secret) \/ \E g \in Callers : flight'[g] = "write"
    BY <2>1, <2>2 DEF FreshTokens
  <2>7. FreshTokens'
    BY <1>10, <2>1, <2>2, <2>3, <2>5, <2>6 DEF FreshTokens
  <2> QED BY <2>4, <2>7
<1> QED BY <1>4, <1>5, <1>6, <1>7, <1>8, <1>11 DEF FlightStep

\* The inductive step of the tokens.
LEMMA TokensStayFresh ==
    ASSUME MapInv, HoldsToken, TokenInv, [Next]_vars
    PROVE  TokenInv'
<1> SUFFICES ASSUME Calm' PROVE Unrevoked' /\ FreshTokens'
  BY DEF TokenInv
<1>1. ASSUME Next PROVE Calm /\ Unrevoked /\ FreshTokens
  BY <1>1, CalmBefore DEF TokenInv
<1>2. ASSUME NEW p \in Actors, Act(p), Next PROVE Unrevoked' /\ FreshTokens'
  <2>1. CASE WriteRotated(p)
    BY <1>1, <1>2, <2>1, CalmRotates DEF WriteRotated
  <2>2. CASE Rotate(p)
    BY <1>1, <1>2, <2>2, CalmIsHanded DEF Rotate
  <2>3. CASE RotationRedeems(p)
    BY <1>1, <1>2, <2>3, CalmAsks DEF RotationRedeems
  <2> QED BY <1>1, <1>2, <2>1, <2>2, <2>3, CalmActs
<1>3. ASSUME NEW f \in Callers, FlightStep(f) \/ FlightFails(f), Next
      PROVE  Unrevoked' /\ FreshTokens'
  BY <1>1, <1>3, CalmFlies
<1>4. ASSUME UNCHANGED <<secret, redeemed, status, at, stage, doomed, flight, token, cancelled,
                         faults>>
      PROVE  Unrevoked' /\ FreshTokens'
  <2>1. Calm
    BY <1>4 DEF Calm
  <2>2. Unrevoked /\ FreshTokens
    BY <2>1 DEF TokenInv
  <2>3. \A t : Unwritten(t)' <=> Unwritten(t)
    BY <1>4 DEF Unwritten
  <2>4. Unrevoked'
    BY <1>4, <2>2 DEF Unrevoked
  <2>5. FreshTokens'
    <3>1. AdapterRedeemed(secret)' <=> AdapterRedeemed(secret)
      BY <1>4 DEF AdapterRedeemed, Asked
    <3>2. \A f \in Callers : AdapterRedeemed(token[f])' <=> AdapterRedeemed(token[f])
      BY <1>4 DEF AdapterRedeemed, Asked
    <3>3. secret' \in redeemed' =>
             AdapterRedeemed(secret)' \/ \E f \in Callers : flight'[f] = "write"
      BY <1>4, <2>2, <3>1 DEF FreshTokens
    <3>4. \A f \in Callers : flight'[f] = "redeem" /\ token'[f] \in redeemed' =>
             AdapterRedeemed(token[f])'
      BY <1>4, <2>2, <3>2 DEF FreshTokens
    <3>5. ASSUME NEW t \in Tokens, Unwritten(t)'
          PROVE  /\ t # secret' /\ t \notin redeemed'
                 /\ \A f \in Callers : flight'[f] = "redeem" => token'[f] # t
                 /\ \A r \in Rotations : token'[r] # t
      <4>1. Unwritten(t)
        BY <2>3, <3>5
      <4>2. /\ t # secret /\ t \notin redeemed
            /\ \A f \in Callers : flight[f] = "redeem" => token[f] # t
            /\ \A r \in Rotations : token[r] # t
        BY <2>2, <4>1 DEF FreshTokens
      <4> QED BY <1>4, <4>2
    <3> QED BY <3>3, <3>4, <3>5 DEF FreshTokens
  <2> QED BY <2>4, <2>5
<1>5. ASSUME NEW t \in Tokens, Expire(t) PROVE Unrevoked' /\ FreshTokens'
  BY <1>4, <1>5 DEF Expire, stores, check, flights
<1>6. CASE UNCHANGED vars
  BY <1>4, <1>6 DEF vars
<1>7. CASE Next
  BY <1>2, <1>3, <1>5, <1>7 DEF Next, Act
<1> QED BY <1>6, <1>7

\* acquireCredentialRefresh shares one refresh: while nothing fails and nothing
\* is revoked, the provider refuses no refresh token that a flight redeems,
\* however many callers find the credentials expired, but for a token that an
\* adapter, to which an invocation handed it, has redeemed as well.
THEOREM RefreshTokensRedeemedOnce == Spec => RedeemedOnce
<1>1. Init => TokenInv
  <2> SUFFICES ASSUME Init PROVE Unrevoked /\ FreshTokens
    BY DEF TokenInv
  <2>1. Unrevoked
    BY CredentialAssumption DEF Init, Unrevoked, Asserting, Actors, CredentialAssumption
  <2>2. Granted \notin Callers \cup Rotations
    BY CredentialAssumption DEF CredentialAssumption
  <2> QED BY <2>1, <2>2, Kinds DEF Init, FreshTokens, Unwritten
<1>2. Init => HoldsToken
  BY Kinds DEF Init, HoldsToken
<1>3. /\ (MapInv /\ HoldsToken /\ TokenInv) /\ [Next]_vars
         => (MapInv /\ HoldsToken /\ TokenInv)'
  BY InvariantStep, TokensStayFresh
<1>4. ASSUME MapInv, HoldsToken, TokenInv, [Next]_vars
      PROVE  [\A f \in Callers :
                flight[f] = "redeem" /\ flight'[f] = "failed" =>
                    \/ faults' > 0
                    \/ \E v \in Revokers : at[v] # "idle"
                    \/ \E r \in Rotations : token[r] = token[f] /\ at[r] # "redeem"]_vars
  <2>1. CASE UNCHANGED vars
    BY <2>1
  <2>2. CASE Next
    <3> SUFFICES ASSUME NEW f \in Callers, flight[f] = "redeem", flight'[f] = "failed",
                        ~(faults' > 0), \A v \in Revokers : at[v] = "idle",
                        ~AdapterRedeemed(token[f])
                 PROVE  FALSE
      BY DEF AdapterRedeemed, Asked
    <3>1. TypeOK /\ OneFlight /\ faults' \in Nat
      BY <1>4, InvariantStep, CredentialAssumption DEF MapInv, TypeOK, CredentialAssumption
    <3>2. faults' = 0 /\ faults = 0
      BY <1>4, <2>2, <3>1, FaultsCount
    <3>3. token[f] \notin redeemed
      BY <1>4, <3>2 DEF TokenInv, Calm, FreshTokens
    <3>4. ASSUME NEW p \in Actors, Act(p) PROVE FALSE
      BY <3>1, <3>4, ActorsAndFlights DEF TypeOK
    <3>5. ASSUME NEW g \in Callers, FlightStep(g) PROVE FALSE
      <4>1. CASE g # f
        <5>1. Unsettled(f) /\ ~Unsettled(g)
          BY <3>1, <4>1 DEF OneFlight, Unsettled
        <5> QED BY <3>5, <5>1 DEF FlightStep, FlightReads, FlightRedeems, FlightWrites,
               FlightWritten, FlightUndoes, Unsettled
      <4>2. CASE g = f
        <5>1. FlightRedeems(f)
          BY <3>5, <4>2 DEF FlightStep, FlightReads, FlightWrites, FlightWritten, FlightUndoes
        <5> QED BY <3>1, <3>3, <5>1 DEF FlightRedeems, Fly, TypeOK
      <4> QED BY <4>1, <4>2
    <3>6. ASSUME NEW g \in Callers, FlightFails(g) PROVE FALSE
      BY <3>2, <3>6 DEF FlightFails, Fault
    <3>7. ASSUME NEW t \in Tokens, Expire(t) PROVE FALSE
      BY <3>7 DEF Expire, flights
    <3> QED BY <2>2, <3>4, <3>5, <3>6, <3>7 DEF Next, Act
  <2> QED BY <1>4, <2>1, <2>2
<1> QED BY <1>1, <1>2, <1>3, <1>4, InitEstablishes, PTL DEF Spec, RedeemedOnce

---------------------------------------------------------------------------
(* Revocation                                                              *)

\* Nothing has failed, and no adapter has rotated credentials.
Unrotated == faults = 0 /\ \A r \in Rotations : at[r] = "idle"

\* A caller in its second or third check, or between them, is in a flight that
\* was resolved.
InResolved ==
    \A c \in Callers :
        (at[c] \in {"readStatus", "readSecret"} /\ stage[c] \in {2, 3}) \/ at[c] = "activate"
            => flight[joined[c]] = "resolved"

\* A revocation that has returned is over.
ReturnedAreDone == \A v \in revoked : at[v] = "done"

\* Since a revocation began, a refresh is cancelled, or it began after the
\* revocations before it and has not read the secret yet.
FlightsKnow ==
    (\E v \in Revokers : at[v] # "idle") =>
        \A f \in Callers : Unsettled(f) => f \in cancelled \/ (flight[f] = "read" /\ ~Revoking)

\* A secret that a revocation has deleted is only back until the flight that has
\* stored it deletes it again.
SecretGone ==
    (\E v \in Revokers : at[v] \in {"mark", "done"}) =>
        secret = None \/ \E f \in Callers : flight[f] \in {"written", "undo"}

\* The caller will find the secret deleted and write revoked.
Repairs(c) ==
    \/ at[c] = "mark"
    \/ at[c] = "delete" /\ stored[c] # "revoked"
    \/ at[c] = "readSecret" /\ stored[c] # "revoked" /\ stage[c] = 3
    \/ at[c] = "readStatus" /\ stage[c] = 3

\* A connection that is active after its revocation has a caller that repairs it.
ActiveIsRepaired ==
    revoked # {} /\ status = "active" => \E c \in Callers : Repairs(c)

\* The inductive invariant of revocation.
RevocationInv ==
    /\ InResolved
    /\ Unrotated => ReturnedAreDone /\ FlightsKnow /\ SecretGone /\ ActiveIsRepaired

\* Only the actor that moves changes its own place, check and flight.
LEMMA OthersWait ==
    ASSUME MapInv, NEW p \in Actors, Act(p)
    PROVE  /\ \A q \in Actors \ {p} : at'[q] = at[q]
           /\ \A q \in Asserting \ {p} : stage'[q] = stage[q] /\ stored'[q] = stored[q]
           /\ \A c \in Callers \ {p} : joined'[c] = joined[c]
<1>1. TypeOK
  BY DEF MapInv
<1>2. CASE Resolve(p) \/ Rotate(p) \/ Revoke(p) \/ CallerFails(p) \/ OtherFails(p)
           \/ RevokeDeletes(p) \/ RevokeMarks(p)
  BY <1>1, <1>2, Kinds DEF TypeOK, Resolve, Rotate, Revoke, CallerFails, OtherFails,
     RevokeDeletes, RevokeMarks, Ends, Leave, Goto, flights, check
<1>3. CASE ReadSecret(p) \/ AcquireRevoked(p) \/ AcquireJoins(p)
           \/ AcquireFlies(p) \/ WaitOver(p) \/ WriteExpired(p)
  BY <1>1, <1>3, Kinds DEF TypeOK, ReadSecret, AcquireRevoked, AcquireJoins, AcquireFlies,
     WaitOver, WriteExpired, Ends, Leave, Enter, Goto, flights, check
<1>4. CASE AssertStatus(p) \/ AssertDelete(p) \/ AssertMark(p) \/ Activate(p)
           \/ RotationRedeems(p) \/ Lease(p) \/ WriteRotated(p) \/ Notify(p)
  BY <1>1, <1>4, Kinds DEF TypeOK, AssertStatus, AssertDelete, AssertMark, Activate,
     RotationRedeems, Lease, WriteRotated, Notify, Ends, Leave, Enter, Forget, Goto, flights, check
<1>5. CASE AssertSecret(p)
  BY <1>1, <1>5, Kinds DEF TypeOK, AssertSecret, Ends, Leave, Forget, Goto, flights, check
<1> QED BY <1>2, <1>3, <1>4, <1>5 DEF Act, Step

\* What a caller can do.
LEMMA CallerActs ==
    ASSUME MapInv, NEW c \in Callers, Act(c)
    PROVE  \/ Resolve(c) \/ ReadSecret(c) \/ AcquireRevoked(c) \/ AcquireJoins(c)
           \/ AcquireFlies(c) \/ WaitOver(c) \/ WriteExpired(c) \/ AssertStatus(c)
           \/ AssertSecret(c) \/ AssertDelete(c) \/ AssertMark(c) \/ Activate(c)
           \/ CallerFails(c)
<1>1. c \notin Rotations /\ c \notin Revokers /\ CallerFits(c)
  BY Kinds DEF MapInv
<1>2. at[c] # "notify"
  BY <1>1 DEF CallerFits
<1> QED BY <1>1, <1>2 DEF Act, Step, Rotate, Revoke, OtherFails, RotationRedeems, Lease,
   WriteRotated, Notify, RevokeDeletes, RevokeMarks

\* Flights move only while they are under way; nobody else moves with them.
LEMMA FlightsAlone ==
    ASSUME MapInv, NEW f \in Callers, FlightStep(f) \/ FlightFails(f)
    PROVE  /\ Unsettled(f) /\ \A g \in Callers \ {f} : flight'[g] = flight[g]
           /\ UNCHANGED <<at, stage, stored, joined, status, cancelled, revoked>>
<1>1. TypeOK
  BY DEF MapInv
<1> QED BY <1>1 DEF TypeOK, Unsettled, FlightStep, FlightFails, FlightReads, FlightRedeems,
   FlightWrites, FlightWritten, FlightUndoes, Fly, flights, check, stores, ghosts

\* An actor starts a flight at most, a new one, and then nothing else but its
\* own place changes.
LEMMA ActorsStartFlights ==
    ASSUME MapInv, NEW p \in Actors, Act(p)
    PROVE  \/ flight' = flight
           \/ p \in Callers /\ AcquireFlies(p) /\ flight[p] = "none"
<1>1. ASSUME ~(p \in Callers /\ AcquireFlies(p)) PROVE flight' = flight
  <2>1. CASE Step(p)
    <3>1. CASE /\ p \in Callers
               /\ \/ ReadSecret(p) \/ AcquireRevoked(p) \/ AcquireJoins(p)
                  \/ WaitOver(p) \/ WriteExpired(p)
      BY <3>1 DEF ReadSecret, AcquireRevoked, AcquireJoins, WaitOver, WriteExpired, flights
    <3>2. CASE AssertStatus(p) \/ AssertSecret(p) \/ AssertDelete(p) \/ AssertMark(p)
               \/ Activate(p)
      BY <3>2 DEF AssertStatus, AssertSecret, AssertDelete, AssertMark, Activate, flights
    <3>3. CASE RotationRedeems(p) \/ Lease(p) \/ WriteRotated(p) \/ Notify(p)
               \/ RevokeDeletes(p) \/ RevokeMarks(p)
      BY <3>3 DEF RotationRedeems, Lease, WriteRotated, Notify, RevokeDeletes, RevokeMarks, flights
    <3> QED BY <1>1, <2>1, <3>1, <3>2, <3>3 DEF Step
  <2>2. CASE Resolve(p) \/ Rotate(p) \/ Revoke(p) \/ CallerFails(p) \/ OtherFails(p)
    BY <2>2 DEF Resolve, Rotate, Revoke, CallerFails, OtherFails, flights
  <2> QED BY <2>1, <2>2 DEF Act
<1>2. ASSUME p \in Callers, AcquireFlies(p) PROVE flight[p] = "none"
  <2>1. CallerFits(p)
    BY <1>2 DEF MapInv
  <2> QED BY <1>2, <2>1 DEF CallerFits, AcquireFlies
<1> QED BY <1>1, <1>2

\* The caller is in its second or third check, or writes the connection.
Later(c) ==
    (at[c] \in {"readStatus", "readSecret"} /\ stage[c] \in {2, 3}) \/ at[c] = "activate"

\* A caller that goes on to its second check has seen its flight resolve.
LEMMA LaterIsResolved ==
    ASSUME MapInv, InResolved, NEW c \in Callers, Act(c), Later(c)'
    PROVE  joined'[c] = joined[c] /\ joined[c] \in Callers /\ flight[joined[c]] = "resolved"
<1>1. /\ TypeOK /\ CallerFits(c) /\ c \in Actors /\ c \in Asserting /\ stage[c] \in 0..4
      /\ c \notin Rotations /\ joined[c] \in Callers \cup {None}
      /\ Later(c) => flight[joined[c]] = "resolved"
  BY Kinds DEF MapInv, TypeOK, InResolved, Later
<1>2. CASE Resolve(c) \/ AcquireRevoked(c) \/ AcquireJoins(c) \/ AcquireFlies(c)
           \/ WriteExpired(c) \/ AssertDelete(c) \/ AssertMark(c) \/ CallerFails(c)
  <2>1. at'[c] \in {"secret", "done", "wait", "mark", "expire"}
    BY <1>1, <1>2 DEF TypeOK, Resolve, AcquireRevoked, AcquireJoins, AcquireFlies,
       WriteExpired, AssertDelete, AssertMark, CallerFails, Ends, Goto
  <2> QED BY <2>1 DEF Later
<1>3. CASE ReadSecret(c)
  <2>1. stage[c] = 0
    BY <1>1, <1>3 DEF ReadSecret, CallerFits
  <2>2. CASE Enter(c)
    BY <1>1, <2>1, <2>2, Entered DEF Later
  <2>3. CASE Goto(c, "done")
    BY <1>1, <2>3 DEF TypeOK, Goto, Later
  <2> QED BY <1>3, <2>2, <2>3 DEF ReadSecret
<1>4. CASE WaitOver(c)
  <2>1. \/ Goto(c, "expire") \/ Goto(c, "done")
        \/ flight[joined[c]] = "resolved" /\ joined' = joined
    BY <1>4 DEF WaitOver, Ends
  <2>2. joined[c] # None
    BY <1>1, <1>4 DEF WaitOver, CallerFits
  <2>3. ~Goto(c, "expire") /\ ~Goto(c, "done")
    BY <1>1 DEF TypeOK, Goto, Later
  <2> QED BY <1>1, <2>1, <2>2, <2>3
<1>5. CASE Activate(c)
  <2>1. joined[c] # None /\ Later(c) /\ UNCHANGED joined
    BY <1>1, <1>5 DEF Activate, CallerFits, Later, flights
  <2> QED BY <1>1, <2>1
<1>6. CASE AssertStatus(c)
  <2>1. /\ at[c] = "readStatus" /\ stage' = stage /\ UNCHANGED joined
        /\ at'[c] \in {"delete", "readSecret"}
    BY <1>1, <1>6 DEF TypeOK, AssertStatus, Goto, flights
  <2>2. stage[c] \in {2, 3}
    BY <2>1 DEF Later
  <2>3. joined[c] # None
    BY <1>1, <2>1, <2>2 DEF CallerFits
  <2> QED BY <1>1, <2>1, <2>2, <2>3 DEF Later
<1>7. CASE AssertSecret(c)
  <2>1. at[c] = "readSecret" /\ stage' = stage /\ stage[c] \in 1..3
    BY <1>1, <1>7 DEF AssertSecret, CallerFits
  <2>2. \/ at'[c] \in {"delete", "done"}
        \/ at'[c] = Proceeds(c) /\ Proceeds(c) # "done" /\ UNCHANGED joined
    BY <1>1, <1>7 DEF TypeOK, AssertSecret, Ends, Goto
  <2>3. stage[c] = 2 /\ UNCHANGED joined
    BY <1>1, <2>1, <2>2, WhatFollows DEF Later
  <2>4. joined[c] # None
    BY <1>1, <2>1, <2>3 DEF CallerFits
  <2> QED BY <1>1, <2>1, <2>3, <2>4 DEF Later
<1> QED BY <1>2, <1>3, <1>4, <1>5, <1>6, <1>7, CallerActs

\* A flight that is resolved stays so.
LEMMA ResolvedStays ==
    ASSUME MapInv, InResolved, [Next]_vars
    PROVE  InResolved'
<1>1. /\ TypeOK /\ Callers \subseteq Actors /\ Callers \subseteq Asserting
      /\ \A c \in Callers : Later(c) => joined[c] \in Callers /\ flight[joined[c]] = "resolved"
  <2>1. ASSUME NEW c \in Callers, Later(c)
        PROVE  joined[c] \in Callers /\ flight[joined[c]] = "resolved"
    <3>1. CallerFits(c) /\ joined[c] \in Callers \cup {None}
      BY DEF MapInv, TypeOK
    <3> QED BY <2>1, <3>1 DEF Later, CallerFits, InResolved
  <2> QED BY <2>1, Kinds DEF MapInv
<1>2. ASSUME NEW p \in Actors, Act(p) PROVE InResolved'
  <2>1. \A f \in Callers : flight[f] = "resolved" => flight'[f] = "resolved"
    BY <1>1, <1>2, ActorsStartFlights DEF AcquireFlies, TypeOK
  <2> SUFFICES ASSUME NEW c \in Callers, Later(c)' PROVE flight'[joined'[c]] = "resolved"
    BY DEF InResolved, Later
  <2>2. CASE c = p
    BY <1>2, <2>1, <2>2, LaterIsResolved
  <2>3. CASE c # p
    <3>1. at'[c] = at[c] /\ stage'[c] = stage[c] /\ joined'[c] = joined[c]
      BY <1>1, <1>2, <2>3, OthersWait
    <3>2. Later(c)
      BY <3>1 DEF Later
    <3> QED BY <1>1, <2>1, <3>1, <3>2
  <2> QED BY <2>2, <2>3
<1>3. ASSUME NEW f \in Callers, FlightStep(f) \/ FlightFails(f) PROVE InResolved'
  <2>1. /\ UNCHANGED <<at, stage, joined>>
        /\ \A g \in Callers : flight[g] = "resolved" => flight'[g] = "resolved"
    BY <1>3, FlightsAlone DEF Unsettled
  <2> QED BY <1>1, <2>1 DEF InResolved, Later
<1>4. CASE UNCHANGED vars \/ \E t \in Tokens : Expire(t)
  BY <1>4 DEF vars, Expire, flights, check, InResolved
<1> QED BY <1>2, <1>3, <1>4 DEF Next, Act

\* No rotation has begun before the step if none has after it.
LEMMA UnrotatedBefore ==
    ASSUME MapInv, Unrotated', Next
    PROVE  Unrotated
<1>1. faults = 0
  BY FaultsCount DEF Unrotated
<1>2. ASSUME NEW r \in Rotations PROVE at[r] = "idle"
  <2>1. at'[r] = "idle" /\ r \in Actors
    BY Kinds DEF Unrotated
  <2> QED BY <2>1, NobodyReturns
<1> QED BY <1>1, <1>2 DEF Unrotated

\* While a revocation is over and a caller is in its last check, the secret is
\* gone for good.
LEMMA RepairFindsNothing ==
    ASSUME MapInv, InResolved, ReturnedAreDone, SecretGone, revoked # {},
           NEW c \in Callers, at[c] = "readSecret", stage[c] = 3
    PROVE  secret = None
<1>1. \E v \in Revokers : at[v] \in {"mark", "done"}
  BY DEF ReturnedAreDone, MapInv, TypeOK
<1>2. flight[joined[c]] = "resolved" /\ joined[c] # None /\ entry = joined[c]
  BY DEF InResolved, MapInv, CallerFits, OneFlight
<1>3. ASSUME NEW f \in Callers, flight[f] \in {"written", "undo"} PROVE FALSE
  <2>1. entry = f
    BY <1>3 DEF MapInv, OneFlight, Unsettled
  <2> QED BY <1>2, <1>3, <2>1
<1> QED BY <1>1, <1>3 DEF SecretGone

\* What a caller does while nothing fails: it may delete the secret, start a
\* flight outside a revocation, and cancel; it writes active only to check once
\* more, and repairs what it can repair.
LEMMA CallerGoesOn ==
    ASSUME MapInv, InResolved, ReturnedAreDone, SecretGone, faults = 0, faults' = 0,
           NEW c \in Callers, Act(c)
    PROVE  /\ secret' \in {secret, None} /\ cancelled \subseteq cancelled' /\ revoked' = revoked
           /\ flight' = flight \/ (~Revoking /\ flight' = [flight EXCEPT ![c] = "read"])
           /\ status' = "active" => status = "active" \/ Repairs(c)'
           /\ revoked # {} /\ status = "active" /\ Repairs(c)
                => status' # "active" \/ Repairs(c)'
<1>1. /\ TypeOK /\ CallerFits(c) /\ c \in Actors /\ c \in Asserting /\ stage[c] \in 0..4
      /\ c \notin Rotations
  BY Kinds DEF MapInv, TypeOK
<1>2. CASE Resolve(c) \/ ReadSecret(c) \/ AcquireRevoked(c) \/ AcquireJoins(c)
           \/ WaitOver(c)
  <2>1. UNCHANGED <<secret, status, cancelled, revoked, flight>>
    BY <1>2 DEF Resolve, ReadSecret, AcquireRevoked, AcquireJoins, WaitOver, stores, flights,
       ghosts
  <2>2. ~Repairs(c)
    BY <1>2 DEF Resolve, ReadSecret, AcquireRevoked, AcquireJoins, WaitOver, Begins, Repairs
  <2> QED BY <2>1, <2>2
<1>3. CASE AcquireFlies(c)
  BY <1>3 DEF AcquireFlies, Repairs, stores, ghosts
<1>4. CASE WriteExpired(c)
  BY <1>4 DEF WriteExpired, ghosts
<1>5. CASE AssertStatus(c)
  <2>1. UNCHANGED <<secret, status, revoked, flight, stage>> /\ cancelled \subseteq cancelled'
    BY <1>5 DEF AssertStatus, stores, flights, ghosts
  <2>2. /\ at[c] = "readStatus" /\ stored'[c] = status
        /\ at'[c] \in {"delete", "readSecret"}
    BY <1>1, <1>5 DEF TypeOK, AssertStatus, Goto
  <2>3. status = "active" /\ Repairs(c) => Repairs(c)'
    BY <2>1, <2>2 DEF Repairs
  <2> QED BY <2>1, <2>3
<1>6. CASE AssertSecret(c)
  <2>1. UNCHANGED <<secret, status, revoked, flight>> /\ cancelled \subseteq cancelled'
    BY <1>6 DEF AssertSecret, stores
  <2>2. ASSUME revoked # {}, Repairs(c) PROVE Repairs(c)'
    <3>1. at[c] = "readSecret" /\ stored[c] # "revoked" /\ stage[c] = 3
      BY <1>6, <2>2 DEF AssertSecret, Repairs
    <3>2. secret = None
      BY <2>2, <3>1, RepairFindsNothing
    <3>3. Goto(c, "delete") /\ stored' = stored
      BY <1>6, <3>2 DEF AssertSecret
    <3>4. at'[c] = "delete"
      BY <1>1, <3>3 DEF TypeOK, Goto
    <3> QED BY <3>1, <3>3, <3>4 DEF Repairs
  <2> QED BY <2>1, <2>2
<1>7. CASE AssertDelete(c)
  <2>1. UNCHANGED <<status, revoked, flight, cancelled>> /\ secret' = None
    BY <1>7 DEF AssertDelete, ghosts
  <2>2. ASSUME Repairs(c) PROVE Repairs(c)'
    <3>1. Goto(c, "mark")
      BY <1>7, <2>2 DEF AssertDelete, Repairs
    <3> QED BY <1>1, <3>1 DEF TypeOK, Goto, Repairs
  <2> QED BY <2>1, <2>2
<1>8. CASE AssertMark(c)
  BY <1>8 DEF AssertMark, ghosts
<1>9. CASE Activate(c)
  <2>1. UNCHANGED <<secret, revoked, flight, cancelled>>
    BY <1>9 DEF Activate, flights, ghosts
  <2>2. stage[c] = 2 /\ Enter(c)
    BY <1>1, <1>9 DEF Activate, CallerFits
  <2>3. at'[c] = "readStatus" /\ stage'[c] = 3
    BY <1>1, <2>2, Entered
  <2> QED BY <2>1, <2>3 DEF Repairs
<1>10. CASE CallerFails(c)
  BY <1>10 DEF CallerFails, Fault
<1> QED
  BY <1>2, <1>3, <1>4, <1>5, <1>6, <1>7, <1>8, <1>9, <1>10, CallerActs

\* Nothing fails, no adapter rotates, and revocation is as it should be.
Unchallenged ==
    Unrotated /\ MapInv /\ InResolved /\ ReturnedAreDone /\ FlightsKnow /\ SecretGone
        /\ ActiveIsRepaired

\* A caller's step.
LEMMA RevocationOutlivesCallers ==
    ASSUME Unchallenged, Unrotated', NEW c \in Callers, Act(c)
    PROVE  ReturnedAreDone' /\ FlightsKnow' /\ SecretGone' /\ ActiveIsRepaired'
<1>1. /\ MapInv /\ InResolved /\ ReturnedAreDone /\ FlightsKnow /\ SecretGone /\ TypeOK
      /\ ActiveIsRepaired /\ faults = 0 /\ faults' = 0 /\ c \in Actors /\ c \notin Revokers
  BY Kinds DEF Unchallenged, Unrotated, MapInv
<1>2. /\ \A q \in Actors \ {c} : at'[q] = at[q]
      /\ \A q \in Asserting \ {c} : stage'[q] = stage[q] /\ stored'[q] = stored[q]
  BY <1>1, OthersWait
<1>3. /\ secret' \in {secret, None} /\ cancelled \subseteq cancelled' /\ revoked' = revoked
      /\ flight' = flight \/ (~Revoking /\ flight' = [flight EXCEPT ![c] = "read"])
      /\ status' = "active" => status = "active" \/ Repairs(c)'
      /\ revoked # {} /\ status = "active" /\ Repairs(c) => status' # "active" \/ Repairs(c)'
  BY <1>1, CallerGoesOn
<1>4. \A v \in Revokers : at'[v] = at[v]
  BY <1>1, <1>2, Kinds
<1>5. Revoking' <=> Revoking
  BY <1>4 DEF Revoking
<1>6. ReturnedAreDone'
  BY <1>1, <1>3, <1>4 DEF ReturnedAreDone, TypeOK
<1>7. FlightsKnow'
  <2> SUFFICES ASSUME \E v \in Revokers : at'[v] # "idle", NEW f \in Callers, Unsettled(f)'
               PROVE  f \in cancelled' \/ (flight'[f] = "read" /\ ~Revoking')
    BY DEF FlightsKnow
  <2>1. \E v \in Revokers : at[v] # "idle"
    BY <1>4
  <2>2. Unsettled(f) => f \in cancelled \/ (flight[f] = "read" /\ ~Revoking)
    BY <1>1, <2>1 DEF FlightsKnow
  <2>3. CASE flight' = flight
    BY <1>3, <1>5, <2>2, <2>3 DEF Unsettled
  <2>4. CASE ~Revoking /\ flight' = [flight EXCEPT ![c] = "read"]
    BY <1>1, <1>3, <1>5, <2>2, <2>4 DEF Unsettled, TypeOK
  <2> QED BY <1>3, <2>3, <2>4
<1>8. SecretGone'
  <2> SUFFICES ASSUME \E v \in Revokers : at'[v] \in {"mark", "done"}
               PROVE  secret' = None \/ \E f \in Callers : flight'[f] \in {"written", "undo"}
    BY DEF SecretGone
  <2>1. secret = None \/ \E f \in Callers : flight[f] \in {"written", "undo"}
    BY <1>1, <1>4 DEF SecretGone
  <2>2. CASE secret = None
    BY <1>3, <2>2
  <2>3. ASSUME NEW f \in Callers, flight[f] \in {"written", "undo"}
        PROVE  flight'[f] = flight[f]
    <3>1. flight' = flight \/ flight[c] = "none"
      BY <1>1, ActorsStartFlights
    <3>2. CASE flight' = flight
      BY <3>2
    <3>3. CASE flight[c] = "none"
      BY <1>1, <1>3, <2>3, <3>3 DEF TypeOK
    <3> QED BY <3>1, <3>2, <3>3
  <2> QED BY <2>1, <2>2, <2>3
<1>9. ActiveIsRepaired'
  <2> SUFFICES ASSUME revoked # {}, status' = "active" PROVE \E d \in Callers : Repairs(d)'
    BY <1>3 DEF ActiveIsRepaired
  <2>1. CASE Repairs(c)'
    BY <2>1
  <2>2. CASE ~Repairs(c)'
    <3>1. status = "active" /\ ~Repairs(c)
      BY <1>3, <2>2
    <3>2. PICK d \in Callers : Repairs(d)
      BY <1>1, <3>1 DEF ActiveIsRepaired
    <3>3. d # c /\ d \in Actors /\ d \in Asserting
      BY <3>1, <3>2, Kinds
    <3>4. at'[d] = at[d] /\ stage'[d] = stage[d] /\ stored'[d] = stored[d]
      BY <1>2, <3>3
    <3>5. Repairs(d)'
      BY <3>2, <3>4 DEF Repairs
    <3> QED BY <3>5
  <2> QED BY <2>1, <2>2
<1> QED BY <1>6, <1>7, <1>8, <1>9

\* A revocation's step: it cancels the flight in the map, deletes, and marks.
LEMMA RevocationsAddUp ==
    ASSUME Unchallenged, Unrotated', NEW v \in Revokers, Act(v)
    PROVE  ReturnedAreDone' /\ FlightsKnow' /\ SecretGone' /\ ActiveIsRepaired'
<1>1. /\ MapInv /\ ReturnedAreDone /\ FlightsKnow /\ SecretGone /\ TypeOK /\ OneFlight
      /\ ActiveIsRepaired /\ faults = 0 /\ faults' = 0
      /\ v \in Actors /\ v \notin Callers /\ v \notin Rotations /\ v \notin Asserting
      /\ RevokerFits(v)
  BY Kinds DEF Unchallenged, Unrotated, MapInv, Asserting
<1>2. /\ \A q \in Actors \ {v} : at'[q] = at[q]
      /\ \A c \in Callers : stage'[c] = stage[c] /\ stored'[c] = stored[c] /\ at'[c] = at[c]
  BY <1>1, OthersWait, Kinds
<1>3. flight' = flight
  BY <1>1, ActorsStartFlights
<1>4. \A c \in Callers : Repairs(c) => Repairs(c)'
  BY <1>2 DEF Repairs
<1>5. \A f \in Callers : Unsettled(f)' <=> Unsettled(f)
  BY <1>3 DEF Unsettled
<1>6. CASE Revoke(v)
  <2>1. /\ at[v] = "idle" /\ at'[v] = "delete" /\ {entry} \cap Callers \subseteq cancelled'
        /\ UNCHANGED <<secret, status, revoked>>
    BY <1>1, <1>6 DEF Revoke, Begins, Goto, TypeOK, stores, ghosts
  <2>2. v \notin revoked
    BY <1>1, <2>1 DEF ReturnedAreDone
  <2>3. ReturnedAreDone'
    BY <1>1, <1>2, <2>1, <2>2, Kinds DEF ReturnedAreDone, TypeOK
  <2>4. FlightsKnow'
    BY <1>1, <1>5, <2>1 DEF FlightsKnow, OneFlight
  <2>5. SecretGone'
    BY <1>1, <1>2, <1>3, <2>1, Kinds DEF SecretGone
  <2>6. ActiveIsRepaired'
    BY <1>1, <1>4, <2>1 DEF ActiveIsRepaired
  <2> QED BY <2>3, <2>4, <2>5, <2>6
<1>7. CASE RevokeDeletes(v)
  <2>1. /\ at[v] = "delete" /\ secret' = None
        /\ UNCHANGED <<status, cancelled, revoked>>
    BY <1>7 DEF RevokeDeletes, ghosts
  <2>2. v \notin revoked
    BY <1>1, <2>1 DEF ReturnedAreDone
  <2>3. ReturnedAreDone'
    BY <1>1, <1>2, <2>1, <2>2, Kinds DEF ReturnedAreDone, TypeOK
  <2>4. \A f \in Callers : Unsettled(f) => f \in cancelled
    BY <1>1, <2>1 DEF FlightsKnow, Revoking
  <2>5. FlightsKnow'
    BY <1>5, <2>1, <2>4 DEF FlightsKnow
  <2>6. SecretGone'
    BY <2>1 DEF SecretGone
  <2>7. ActiveIsRepaired'
    BY <1>1, <1>4, <2>1 DEF ActiveIsRepaired
  <2> QED BY <2>3, <2>5, <2>6, <2>7
<1>8. CASE RevokeMarks(v)
  <2>1. /\ at[v] = "mark" /\ at'[v] = "done" /\ status' = "revoked"
        /\ revoked' = revoked \cup {v} /\ UNCHANGED <<secret, cancelled>>
    BY <1>1, <1>8 DEF RevokeMarks, Goto, TypeOK
  <2>2. ReturnedAreDone'
    BY <1>1, <1>2, <2>1, Kinds DEF ReturnedAreDone, TypeOK
  <2>3. \A f \in Callers : Unsettled(f) => f \in cancelled
    BY <1>1, <2>1 DEF FlightsKnow, Revoking
  <2>4. FlightsKnow'
    BY <1>5, <2>1, <2>3 DEF FlightsKnow
  <2>5. SecretGone'
    BY <1>1, <1>3, <2>1 DEF SecretGone
  <2>6. ActiveIsRepaired'
    BY <2>1 DEF ActiveIsRepaired
  <2> QED BY <2>2, <2>4, <2>5, <2>6
<1>9. Revoke(v) \/ RevokeDeletes(v) \/ RevokeMarks(v)
  <2>1. at[v] \notin {"acquire", "write", "notify"}
    BY <1>1 DEF RevokerFits
  <2>2. ~OtherFails(v)
    BY <1>1 DEF OtherFails, Fault
  <2> QED BY <1>1, <2>1, <2>2 DEF Act, Step, Resolve, Rotate, CallerFails, RotationRedeems,
     Lease, WriteRotated, Notify
<1> QED BY <1>6, <1>7, <1>8, <1>9

\* A step of a refresh: once a revocation has begun, it finds the secret deleted
\* or it is cancelled and deletes what it has stored.
LEMMA RevocationOutlivesFlights ==
    ASSUME Unchallenged, Unrotated', NEW f \in Callers, FlightStep(f) \/ FlightFails(f)
    PROVE  ReturnedAreDone' /\ FlightsKnow' /\ SecretGone' /\ ActiveIsRepaired'
<1>1. /\ MapInv /\ ReturnedAreDone /\ FlightsKnow /\ SecretGone /\ TypeOK /\ OneFlight
      /\ ActiveIsRepaired /\ faults = 0 /\ faults' = 0
  BY DEF Unchallenged, Unrotated, MapInv
<1>2. /\ Unsettled(f) /\ \A g \in Callers \ {f} : flight'[g] = flight[g]
      /\ UNCHANGED <<at, stage, stored, joined, status, cancelled, revoked>>
  BY <1>1, FlightsAlone
<1>3. \A g \in Callers \ {f} : ~Unsettled(g) /\ ~Unsettled(g)'
  BY <1>1, <1>2 DEF OneFlight, Unsettled
<1>4. ReturnedAreDone' /\ ActiveIsRepaired'
  BY <1>1, <1>2 DEF ReturnedAreDone, ActiveIsRepaired, Repairs
<1>5. FlightStep(f)
  BY <1>1 DEF FlightFails, Fault
<1>6. CASE \A v \in Revokers : at[v] = "idle"
  BY <1>2, <1>4, <1>6 DEF FlightsKnow, SecretGone
<1>7. CASE \E v \in Revokers : at[v] # "idle"
  <2>1. f \in cancelled \/ (flight[f] = "read" /\ ~Revoking)
    BY <1>1, <1>2, <1>7 DEF FlightsKnow
  <2>2. FlightsKnow'
    <3>1. CASE f \in cancelled
      BY <1>2, <1>3, <3>1 DEF FlightsKnow
    <3>2. CASE flight[f] = "read" /\ ~Revoking
      <4>1. \E v \in Revokers : at[v] \in {"mark", "done"}
        BY <1>1, <1>7, <3>2 DEF Revoking, MapInv, RevokerFits
      <4>2. secret = None
        BY <1>1, <1>3, <3>2, <4>1 DEF SecretGone, Unsettled
      <4>3. flight' = [flight EXCEPT ![f] = "failed"]
        BY <1>5, <3>2, <4>2 DEF FlightStep, FlightReads, FlightRedeems, FlightWrites,
           FlightWritten, FlightUndoes, Fly
      <4>4. ~Unsettled(f)'
        BY <1>1, <4>3 DEF TypeOK, Unsettled
      <4> QED BY <1>3, <4>4 DEF FlightsKnow
    <3> QED BY <2>1, <3>1, <3>2
  <2>3. SecretGone'
    <3> SUFFICES ASSUME \E v \in Revokers : at[v] \in {"mark", "done"}
                 PROVE  secret' = None \/ flight'[f] \in {"written", "undo"}
      BY <1>2 DEF SecretGone
    <3>1. secret = None \/ flight[f] \in {"written", "undo"}
      BY <1>1, <1>3 DEF SecretGone, Unsettled
    <3>2. CASE FlightReads(f) \/ FlightRedeems(f)
      BY <3>1, <3>2 DEF FlightReads, FlightRedeems, stores
    <3>3. CASE FlightWrites(f)
      BY <1>1, <3>3 DEF FlightWrites, Fly, TypeOK
    <3>4. CASE FlightWritten(f)
      <4>1. f \in cancelled
        BY <2>1, <3>4 DEF FlightWritten
      <4> QED BY <1>1, <3>4, <4>1 DEF FlightWritten, Fly, TypeOK
    <3>5. CASE FlightUndoes(f)
      BY <3>5 DEF FlightUndoes
    <3> QED BY <1>5, <3>2, <3>3, <3>4, <3>5 DEF FlightStep
  <2> QED BY <1>4, <2>2, <2>3
<1> QED BY <1>6, <1>7

\* The inductive step of revocation.
LEMMA RevocationStep ==
    ASSUME MapInv, RevocationInv, [Next]_vars
    PROVE  RevocationInv'
<1>1. InResolved /\ InResolved'
  BY ResolvedStays DEF RevocationInv
<1> SUFFICES ASSUME Unrotated'
             PROVE  ReturnedAreDone' /\ FlightsKnow' /\ SecretGone' /\ ActiveIsRepaired'
  BY <1>1 DEF RevocationInv
<1>2. ASSUME Next PROVE Unchallenged
  BY <1>1, <1>2, UnrotatedBefore DEF Unchallenged, RevocationInv
<1>3. ASSUME NEW p \in Actors, Act(p), Next
      PROVE  ReturnedAreDone' /\ FlightsKnow' /\ SecretGone' /\ ActiveIsRepaired'
  <2>1. CASE p \in Callers
    BY <1>2, <1>3, <2>1, RevocationOutlivesCallers
  <2>2. CASE p \in Revokers
    BY <1>2, <1>3, <2>2, RevocationsAddUp
  <2>3. CASE p \in Rotations
    <3>1. at[p] = "idle" /\ at'[p] = "idle" /\ TypeOK /\ p \notin Callers /\ p \notin Revokers
      BY <1>2, <1>3, <2>3, Kinds DEF Unchallenged, Unrotated, MapInv
    <3>2. Rotate(p)
      BY <1>3, <3>1 DEF Act, Step, Resolve, Revoke, CallerFails, OtherFails, AssertStatus,
         AssertSecret, AssertDelete, AssertMark, Activate, RotationRedeems, Lease,
         WriteRotated, Notify, RevokeDeletes, RevokeMarks
    <3> QED BY <1>3, <3>1, <3>2 DEF Rotate, Goto, TypeOK
  <2> QED BY <1>3, <2>1, <2>2, <2>3 DEF Actors
<1>4. ASSUME NEW f \in Callers, FlightStep(f) \/ FlightFails(f), Next
      PROVE  ReturnedAreDone' /\ FlightsKnow' /\ SecretGone' /\ ActiveIsRepaired'
  BY <1>2, <1>4, RevocationOutlivesFlights
<1>5. ASSUME UNCHANGED <<secret, status, at, stage, stored, flight, cancelled, revoked, faults>>
      PROVE  ReturnedAreDone' /\ FlightsKnow' /\ SecretGone' /\ ActiveIsRepaired'
  <2>1. ReturnedAreDone /\ FlightsKnow /\ SecretGone /\ ActiveIsRepaired
    BY <1>5 DEF RevocationInv, Unrotated
  <2> QED BY <1>5, <2>1 DEF ReturnedAreDone, FlightsKnow, SecretGone, ActiveIsRepaired, Repairs,
     Unsettled, Revoking
<1>6. ASSUME NEW t \in Tokens, Expire(t)
      PROVE  ReturnedAreDone' /\ FlightsKnow' /\ SecretGone' /\ ActiveIsRepaired'
  BY <1>5, <1>6 DEF Expire, stores, check, flights
<1>7. CASE UNCHANGED vars
  BY <1>5, <1>7 DEF vars
<1>8. CASE Next
  BY <1>3, <1>4, <1>6, <1>8 DEF Next, Act
<1> QED BY <1>7, <1>8

\* resolveConnectionCredentials and revokeConnection together "do not resurrect
\* a secret or connection revoked during refresh": however many callers refresh
\* the credentials and however many revocations overlap them, once one has
\* returned and everything has ended without a failure the secret is gone and
\* the connection is not active.  No adapter has rotated credentials yet: with
\* rotations under way it does not hold.
THEOREM RevocationIsFinal ==
    Spec => []((\A r \in Rotations : at[r] = "idle") => NothingResurrected)
<1>1. Init => RevocationInv
  <2> SUFFICES ASSUME Init PROVE RevocationInv
    OBVIOUS
  <2>1. /\ \A p \in Actors : at[p] = "idle"
        /\ \A f \in Callers : flight[f] = "none"
        /\ revoked = {}
    BY DEF Init
  <2>2. InResolved
    BY <2>1, Kinds DEF InResolved
  <2>3. ReturnedAreDone /\ ActiveIsRepaired
    BY <2>1 DEF ReturnedAreDone, ActiveIsRepaired
  <2>4. FlightsKnow /\ SecretGone
    BY <2>1, Kinds DEF FlightsKnow, SecretGone
  <2> QED BY <2>2, <2>3, <2>4 DEF RevocationInv
<1>2. MapInv /\ RevocationInv /\ [Next]_vars => RevocationInv'
  BY RevocationStep
<1>3. ASSUME MapInv, RevocationInv
      PROVE  (\A r \in Rotations : at[r] = "idle") => NothingResurrected
  <2> SUFFICES ASSUME \A r \in Rotations : at[r] = "idle", revoked # {}, Quiet, faults = 0
               PROVE  secret = None /\ status # "active"
    BY DEF NothingResurrected
  <2>1. ReturnedAreDone /\ SecretGone /\ ActiveIsRepaired /\ revoked \subseteq Revokers
    BY <1>3 DEF RevocationInv, Unrotated, MapInv, TypeOK
  <2>2. \E v \in Revokers : at[v] \in {"mark", "done"}
    BY <2>1 DEF ReturnedAreDone
  <2>3. \A f \in Callers : flight[f] \notin {"written", "undo"}
    BY DEF Quiet, Settled
  <2>4. \A c \in Callers : ~Repairs(c)
    BY Kinds DEF Quiet, Repairs
  <2> QED BY <2>1, <2>2, <2>3, <2>4 DEF SecretGone, ActiveIsRepaired
<1> QED BY <1>1, <1>2, <1>3, Invariant, PTL DEF Spec
=============================================================================
