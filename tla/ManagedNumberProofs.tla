------------------------ MODULE ManagedNumberProofs ------------------------
(***************************************************************************)
(* No provider call of an order is made twice, for any number of ticks,    *)
(* lost answers, late executions, crashes, stalls and denials.  The        *)
(* invariant follows the journal entry of a phase: who wrote it and has    *)
(* not called is the only one who may, and an entry is taken back only     *)
(* while the call has not been made.                                       *)
(***************************************************************************)
EXTENDS ManagedNumber, TLAPS

\* The provider has executed the call of phase k, or may still execute it.
Spent(k) == made[k] > 0 \/ \E c \in inbound : c[2] = k

\* A tick that has journaled an attempt and not made its call.
Holds(w) == step[w] \in {"authorize", "deny", "recheck", "unclaim"} /\ snap[w].phase \in Mutations

\* A tick that is about to save, and will not lose.
MayStore(w) ==
    /\ step[w] \in {"claim", "deny", "save", "unclaiming", "recording"}
    /\ "draft" \in current[w]

\* The calls of later phases have not been made, nor has the one of this phase
\* unless the row says so; the number of the row exists.
Sound(o) ==
    /\ o.phase = "identity" => ~Spent("number") /\ ~Spent("credential")
    /\ o.phase = "number" => ~Spent("credential")
    /\ o.phase \in Mutations /\ o.attempt = "none" /\ Spent(o.phase) =>
          o.phase = "number" /\ "number" \in o.receipts
    /\ "number" \in o.receipts => made["number"] > 0

\* Each call has been made once or is on its way once, and what shows exists.
CallsOnce ==
    /\ \A k \in Mutations : made[k] > 0 => made[k] = 1 /\ \A c \in inbound : c[2] # k
    /\ \A c, d \in inbound : c[2] = d[2] => c = d
    /\ \A k \in shown : made[k] > 0
    /\ vault => made["credential"] > 0

\* A tick's order of the stored version is the stored order, but for the clock.
SnapFits(w) ==
    "snap" \in current[w] =>
        /\ snap[w].phase = order.phase /\ snap[w].receipts = order.receipts
        /\ (snap[w].attempt = "none") <=> (order.attempt = "none")
        /\ order.status # "cancelled"

\* A row may replace the stored order.
Follows(w, o) ==
    /\ Sound(o)
    /\ order.receipts \subseteq o.receipts
    /\ order.status = "cancelled" => o.status = "cancelled"
    /\ o.attempt = "none" => \A v \in Workers \ {w} : ~Holds(v)
    /\ o.attempt # "none" => o.phase = order.phase

\* What a tick is about to save may replace the stored order; a claim is of an
\* attempt nobody has made, and a denial keeps it.
DraftFits(w) ==
    MayStore(w) =>
        /\ Follows(w, draft[w])
        /\ step[w] = "claim" =>
              /\ order.attempt = "none" /\ draft[w].attempt # "none"
              /\ draft[w].phase \in Mutations /\ ~Spent(draft[w].phase)
        /\ step[w] = "deny" /\ snap[w].phase # "connection" =>
              draft[w].attempt # "none"
        /\ step[w] \in {"claim", "deny", "unclaiming"} => draft[w].status # "cancelled"

\* Which phases each step belongs to.
Place(s, o) ==
    /\ s \in {"claim", "unclaim", "calling"} => o.phase \in Mutations
    /\ s \in {"authorize", "deny", "recheck"} => o.phase # "complete"
    /\ s \in {"keep", "verify"} => o.phase = "credential" /\ made["credential"] > 0
    /\ s = "vault" => o.phase \in {"credential", "connection"}
    /\ s = "bind" => o.phase = "connection"
    /\ s = "receipt" => o.phase = "number"

\* No refusal has been caught.
Open(ms) == "refused" \notin ms /\ "unsent" \notin ms

\* A call of a tick was executed or is on its way; only a tick that ends knows
\* of a refusal; a number it has seen exists.
Shape(w) ==
    /\ Place(step[w], snap[w])
    /\ step[w] = "calling" => Call(w) \in inbound \/ made[snap[w].phase] > 0
    /\ step[w] \notin {"save", "record", "recording"} => Open(marks[w])
    /\ "number" \in snap[w].receipts \cup draft[w].receipts => made["number"] > 0

\* Its claim is the only one, and the order has it.
ClaimFits(w) ==
    Holds(w) =>
        /\ order.phase = snap[w].phase /\ order.attempt # "none" /\ ~Spent(order.phase)
        /\ \A v \in Workers \ {w} : ~Holds(v)

\* The inductive invariant.
IInv ==
    /\ TypeOK /\ CallsOnce /\ Sound(order)
    /\ \A w \in Workers : SnapFits(w) /\ DraftFits(w) /\ Shape(w) /\ ClaimFits(w)

---------------------------------------------------------------------------
(* Orders                                                                  *)

\* The fields of an order.
LEMMA OrderFields ==
    ASSUME NEW o \in Orders
    PROVE  /\ o.phase \in Phases /\ o.attempt \in Attempts /\ o.status \in Statuses
           /\ o.waiting \in BOOLEAN /\ o.receipts \subseteq Receipts
BY DEF Orders

\* The order that Init stores.
LEMMA NewOrderMade ==
    /\ NewOrder \in Orders /\ NewOrder.phase = "identity" /\ NewOrder.attempt = "none"
    /\ NewOrder.status = "pending" /\ NewOrder.receipts = {}
BY DEF NewOrder, Order, Orders, Phases, Mutations, Attempts, Statuses

\* The bounds are numbers.
LEMMA Bounds ==
    ASSUME TypeOK, UNCHANGED budget \/ Fault \/ Denial
    PROVE  faults' \in 0..MaxFaults /\ denials' \in 0..MaxDenials
BY NumberAssumption DEF NumberAssumption, TypeOK, budget, Fault, Denial

\* Before the first tick.
LEMMA InitEstablishes == Init => IInv
<1> SUFFICES ASSUME Init PROVE IInv
  OBVIOUS
<1>1. /\ NewOrder \in Orders /\ NewOrder.phase = "identity" /\ NewOrder.attempt = "none"
      /\ NewOrder.receipts = {} /\ MaxFaults \in Nat /\ MaxDenials \in Nat
  BY NewOrderMade, NumberAssumption DEF NumberAssumption
<1>2. TypeOK
  <2>1. /\ step \in [Workers -> Steps] /\ snap \in [Workers -> Orders]
        /\ draft \in [Workers -> Orders] /\ order \in Orders
    BY <1>1 DEF Init, Steps
  <2>2. /\ current \in [Workers -> SUBSET {"snap", "draft"}]
        /\ marks \in [Workers -> SUBSET {"refused", "unsent", "settled", "threw"}]
        /\ tries \in [Workers -> 0..2]
    BY DEF Init
  <2>3. /\ inbound \subseteq Workers \X Mutations /\ made \in [Mutations -> Nat]
        /\ shown \subseteq Receipts
        /\ faults \in 0..MaxFaults /\ denials \in 0..MaxDenials
    BY <1>1 DEF Init
  <2>4. ready \in BOOLEAN /\ vault \in BOOLEAN
    BY DEF Init
  <2> QED BY <2>1, <2>2, <2>3, <2>4 DEF TypeOK
<1>3. \A k \in Mutations : ~Spent(k)
  BY DEF Init, Spent
<1>4. CallsOnce
  BY DEF Init, CallsOnce
<1>5. Sound(order)
  BY <1>1, <1>3 DEF Init, Sound, Mutations
<1>6. ASSUME NEW w \in Workers
      PROVE  SnapFits(w) /\ DraftFits(w) /\ Shape(w) /\ ClaimFits(w)
  <2>1. step[w] = "idle" /\ current[w] = {} /\ marks[w] = {}
        /\ snap[w].receipts = {} /\ draft[w].receipts = {}
    BY <1>1 DEF Init
  <2> QED BY <2>1 DEF SnapFits, DraftFits, MayStore, Shape, Open, Place, ClaimFits, Holds
<1> QED BY <1>2, <1>4, <1>5, <1>6 DEF IInv

---------------------------------------------------------------------------
(* What a step has to keep                                                 *)

\* What was sound stays so while no new call is made.
LEMMA SoundKept ==
    ASSUME NEW o \in Orders, Sound(o),
           \A k \in Mutations : Spent(k)' => Spent(k),
           made["number"] > 0 => made'["number"] > 0
    PROVE  Sound(o)'
BY DEF Sound, Mutations

\* One tick moves and leaves the order alone; a new call is that of its claim.
LEMMA TickMoves ==
    ASSUME IInv, TypeOK', NEW w \in Workers, order' = order,
           \A v \in Workers \ {w} :
               /\ step'[v] = step[v] /\ snap'[v] = snap[v] /\ draft'[v] = draft[v]
               /\ current'[v] = current[v] /\ marks'[v] = marks[v],
           CallsOnce', Sound(order)',
           \A k \in Mutations : made[k] > 0 => made'[k] > 0,
           \A v \in Workers \ {w}, k \in Mutations :
               <<v, k>> \in inbound => <<v, k>> \in inbound' \/ made'[k] > 0,
           \A k \in Mutations : Spent(k)' => Spent(k) \/ (Holds(w) /\ ~Holds(w)'),
           Holds(w)' => Holds(w) /\ snap'[w].phase = snap[w].phase,
           SnapFits(w)', DraftFits(w)', Shape(w)'
    PROVE  IInv'
<1>1. /\ TypeOK /\ Sound(order)
      /\ \A v \in Workers : SnapFits(v) /\ DraftFits(v) /\ Shape(v) /\ ClaimFits(v)
  BY DEF IInv
<1>2. \A v \in Workers \ {w} : (Holds(v)' <=> Holds(v)) /\ (MayStore(v)' <=> MayStore(v))
  BY DEF Holds, MayStore
<1>3. ASSUME NEW v \in Workers \ {w} PROVE SnapFits(v)'
  BY <1>1 DEF SnapFits
<1>4. ASSUME NEW v \in Workers \ {w}, Holds(v) PROVE ~Holds(w)
  BY <1>1, <1>4 DEF ClaimFits
<1>5. ASSUME NEW v \in Workers \ {w} PROVE DraftFits(v)'
  <2> SUFFICES ASSUME MayStore(v) PROVE DraftFits(v)'
    BY <1>2 DEF DraftFits
  <2>1. DraftFits(v) /\ Follows(v, draft[v])
    BY <1>1 DEF DraftFits
  <2>2. PICK o \in Orders : o = draft[v]
    BY <1>1 DEF TypeOK
  <2>3. Sound(o) /\ Follows(v, o)
    BY <2>1, <2>2 DEF Follows
  <2>4. Sound(o)'
    <3>1. CASE Holds(w)
      <4>1. o.phase = order.phase /\ o.attempt # "none"
        BY <2>3, <3>1 DEF Follows
      <4> QED BY <2>3, <4>1 DEF Sound, Mutations
    <3>2. CASE ~Holds(w)
      <4>1. \A k \in Mutations : Spent(k)' => Spent(k)
        BY <3>2
      <4> QED BY <2>3, <4>1, SoundKept DEF Mutations
    <3> QED BY <3>1, <3>2
  <2>5. Follows(v, o)'
    <3>1. o.attempt = "none" => \A u \in Workers \ {v} : ~Holds(u)'
      BY <1>2, <2>3 DEF Follows
    <3> QED BY <2>3, <2>4, <3>1 DEF Follows
  <2>6. step[v] = "claim" => ~Spent(o.phase)'
    <3> SUFFICES ASSUME step[v] = "claim" PROVE ~Spent(o.phase)'
      OBVIOUS
    <3>1. order.attempt = "none" /\ ~Spent(o.phase) /\ o.phase \in Mutations
      BY <2>1, <2>2 DEF DraftFits
    <3>2. ~Holds(w)
      BY <1>1, <3>1 DEF ClaimFits
    <3> QED BY <3>1, <3>2
  <2> QED BY <2>1, <2>2, <2>5, <2>6 DEF DraftFits
<1>6. ASSUME NEW v \in Workers \ {w} PROVE Shape(v)'
  <2>1. PICK o \in Orders : o = snap[v]
    BY <1>1 DEF TypeOK
  <2>2. Shape(v) /\ Place(step[v], o) /\ (step[v] = "calling" => o.phase \in Mutations)
    BY <1>1, <2>1 DEF Shape, Place
  <2>9. PICK s : s = step[v]
    OBVIOUS
  <2>3. Place(s, o)'
    <3>1. Place(s, o)
      BY <2>2, <2>9
    <3> QED BY <3>1 DEF Place, Mutations
  <2>4. step[v] = "calling" => <<v, o.phase>> \in inbound' \/ made'[o.phase] > 0
    BY <2>1, <2>2 DEF Shape, Call
  <2>5. "number" \in snap[v].receipts \cup draft[v].receipts => made'["number"] > 0
    BY <2>2 DEF Shape, Mutations
  <2>6. Place(step[v], snap[v])'
    BY <2>1, <2>9, <2>3
  <2>7. step'[v] = "calling" => Call(v)' \in inbound' \/ made'[snap'[v].phase] > 0
    BY <2>1, <2>4 DEF Call
  <2>8. step'[v] \notin {"save", "record", "recording"} => Open(marks'[v])
    BY <2>2 DEF Shape
  <2> QED BY <2>5, <2>6, <2>7, <2>8 DEF Shape
<1>7. ASSUME NEW v \in Workers PROVE ClaimFits(v)'
  <2> SUFFICES ASSUME Holds(v)' PROVE ClaimFits(v)'
    BY DEF ClaimFits
  <2>1. Holds(v) /\ snap'[v].phase = snap[v].phase /\ snap[v].phase \in Mutations
    BY <1>2 DEF Holds
  <2>2. /\ order.phase = snap[v].phase /\ order.attempt # "none" /\ ~Spent(order.phase)
        /\ \A u \in Workers \ {v} : ~Holds(u)
    BY <1>1, <2>1 DEF ClaimFits
  <2>3. \A u \in Workers \ {v} : ~Holds(u)'
    BY <1>2, <2>2
  <2>4. PICK k \in Mutations : k = order.phase
    BY <2>1, <2>2
  <2>5. ~Spent(k)'
    BY <2>2, <2>4, <1>4, <2>1
  <2> QED BY <2>1, <2>2, <2>3, <2>4, <2>5 DEF ClaimFits
<1> QED BY <1>1, <1>3, <1>5, <1>6, <1>7 DEF IInv

\* A tick saves: its row is the stored order, all other copies are outdated.
LEMMA SaveMoves ==
    ASSUME IInv, TypeOK', NEW w \in Workers, MayStore(w), order' = draft[w],
           UNCHANGED <<inbound, made, shown, vault>>,
           \A v \in Workers \ {w} :
               /\ step'[v] = step[v] /\ snap'[v] = snap[v] /\ draft'[v] = draft[v]
               /\ current'[v] = {} /\ marks'[v] = marks[v],
           Holds(w)' =>
               /\ snap'[w].phase = draft[w].phase /\ draft[w].attempt # "none"
               /\ ~Spent(draft[w].phase) /\ \A v \in Workers \ {w} : ~Holds(v),
           SnapFits(w)', DraftFits(w)', Shape(w)'
    PROVE  IInv'
<1>1. /\ TypeOK /\ CallsOnce
      /\ \A v \in Workers : SnapFits(v) /\ DraftFits(v) /\ Shape(v) /\ ClaimFits(v)
  BY DEF IInv
<1>2. PICK o \in Orders : o = draft[w]
  BY <1>1 DEF TypeOK
<1>3. Follows(w, o)
  BY <1>1, <1>2 DEF DraftFits
<1>4. CallsOnce'
  BY <1>1 DEF CallsOnce
<1>5. \A k \in Mutations : Spent(k)' <=> Spent(k)
  BY DEF Spent
<1>6. Sound(o)'
  BY <1>3, <1>5, SoundKept DEF Follows
<1>7. Sound(order)'
  BY <1>2, <1>6 DEF Sound
<1>8. \A v \in Workers \ {w} : Holds(v)' <=> Holds(v)
  BY DEF Holds
<1>9. ASSUME NEW v \in Workers \ {w} PROVE SnapFits(v)' /\ DraftFits(v)' /\ Shape(v)'
  <2>1. SnapFits(v)' /\ DraftFits(v)'
    BY DEF SnapFits, DraftFits, MayStore
  <2>2. Shape(v)'
    BY <1>1 DEF Shape, Place, Call
  <2> QED BY <2>1, <2>2
<1>10. ASSUME NEW v \in Workers PROVE ClaimFits(v)'
  <2> SUFFICES ASSUME Holds(v)' PROVE ClaimFits(v)'
    BY DEF ClaimFits
  <2>1. CASE v = w
    <3>1. /\ snap'[w].phase = o.phase /\ o.attempt # "none" /\ ~Spent(o.phase)
          /\ \A u \in Workers \ {w} : ~Holds(u)'
      BY <1>2, <1>8, <2>1
    <3>2. o.phase \in Mutations
      BY <2>1, <3>1 DEF Holds
    <3>3. ~Spent(o.phase)'
      BY <1>5, <3>1, <3>2
    <3> QED BY <1>2, <2>1, <3>1, <3>3 DEF ClaimFits
  <2>2. CASE v # w
    <3>1. Holds(v) /\ snap'[v] = snap[v]
      BY <1>8, <2>2
    <3>2. o.attempt # "none" /\ o.phase = order.phase /\ ~Holds(w)'
      BY <1>3, <2>2, <3>1 DEF Follows
    <3>3. /\ order.phase = snap[v].phase /\ ~Spent(order.phase)
          /\ \A u \in Workers \ {v} : ~Holds(u)
      BY <1>1, <3>1 DEF ClaimFits
    <3>4. \A u \in Workers \ {v} : ~Holds(u)'
      BY <1>8, <3>2, <3>3
    <3>5. o.phase \in Mutations
      BY <3>1, <3>2, <3>3 DEF Holds
    <3>6. ~Spent(o.phase)'
      BY <1>5, <3>2, <3>3, <3>5
    <3> QED BY <1>2, <3>1, <3>2, <3>3, <3>4, <3>6 DEF ClaimFits
  <2> QED BY <2>1, <2>2
<1> QED BY <1>1, <1>4, <1>7, <1>9, <1>10 DEF IInv

\* The provider works, and loses what it showed.
LEMMA ProviderMoves ==
    ASSUME IInv, TypeOK', UNCHANGED <<order, ticks, vault>>, CallsOnce',
           \A k \in Mutations : made[k] > 0 => made'[k] > 0,
           \A k \in Mutations : Spent(k)' => Spent(k),
           \A v \in Workers, k \in Mutations :
               <<v, k>> \in inbound => <<v, k>> \in inbound' \/ made'[k] > 0
    PROVE  IInv'
<1>1. /\ TypeOK /\ Sound(order)
      /\ \A v \in Workers : SnapFits(v) /\ DraftFits(v) /\ Shape(v) /\ ClaimFits(v)
  BY DEF IInv
<1>2. /\ order' = order /\ step' = step /\ snap' = snap /\ draft' = draft
      /\ current' = current /\ marks' = marks
  BY DEF ticks
<1>3. \A o \in Orders : Sound(o) => Sound(o)'
  BY SoundKept DEF Mutations
<1>4. Sound(order)'
  <2>1. PICK o \in Orders : o = order
    BY <1>1 DEF TypeOK
  <2>2. Sound(o)'
    BY <1>1, <1>3, <2>1
  <2> QED BY <1>2, <2>1, <2>2 DEF Sound
<1>5. \A v \in Workers : (Holds(v)' <=> Holds(v)) /\ (MayStore(v)' <=> MayStore(v))
  BY <1>2 DEF Holds, MayStore
<1>6. ASSUME NEW v \in Workers PROVE SnapFits(v)' /\ DraftFits(v)'
  <2>1. SnapFits(v)'
    BY <1>1, <1>2 DEF SnapFits
  <2>2. DraftFits(v)'
    <3> SUFFICES ASSUME MayStore(v) PROVE DraftFits(v)'
      BY <1>5 DEF DraftFits
    <3>1. PICK o \in Orders : o = draft[v]
      BY <1>1 DEF TypeOK
    <3>2. DraftFits(v) /\ Follows(v, o)
      BY <1>1, <3>1 DEF DraftFits
    <3>3. Sound(o)'
      BY <1>3, <3>2 DEF Follows
    <3>4. o.attempt = "none" => \A u \in Workers \ {v} : ~Holds(u)'
      BY <1>5, <3>2 DEF Follows
    <3>5. Follows(v, o)'
      BY <1>2, <3>2, <3>3, <3>4 DEF Follows
    <3>6. step[v] = "claim" => order.attempt = "none" /\ o.attempt # "none"
                               /\ o.phase \in Mutations /\ ~Spent(o.phase)'
      BY <3>1, <3>2 DEF DraftFits
    <3> QED BY <1>2, <3>1, <3>2, <3>5, <3>6 DEF DraftFits
  <2> QED BY <2>1, <2>2
<1>7. ASSUME NEW v \in Workers PROVE Shape(v)'
  <2>1. PICK o \in Orders, s \in Steps : o = snap[v] /\ s = step[v]
    BY <1>1 DEF TypeOK
  <2>2. Shape(v) /\ Place(s, o) /\ (s = "calling" => o.phase \in Mutations)
    BY <1>1, <2>1 DEF Shape, Place
  <2>3. Place(s, o)'
    BY <2>2 DEF Place, Mutations
  <2>4. s = "calling" => <<v, o.phase>> \in inbound' \/ made'[o.phase] > 0
    BY <2>1, <2>2 DEF Shape, Call
  <2>5. "number" \in snap[v].receipts \cup draft[v].receipts => made'["number"] > 0
    BY <2>2 DEF Shape, Mutations
  <2> QED BY <1>2, <2>1, <2>2, <2>3, <2>4, <2>5 DEF Shape, Call
<1>8. ASSUME NEW v \in Workers PROVE ClaimFits(v)'
  <2> SUFFICES ASSUME Holds(v) PROVE ClaimFits(v)'
    BY <1>5 DEF ClaimFits
  <2>1. /\ order.phase = snap[v].phase /\ order.attempt # "none" /\ ~Spent(order.phase)
        /\ \A u \in Workers \ {v} : ~Holds(u)
    BY <1>1 DEF ClaimFits
  <2>2. PICK k \in Mutations : k = order.phase
    BY <2>1 DEF Holds
  <2>3. ~Spent(k)' /\ \A u \in Workers \ {v} : ~Holds(u)'
    BY <1>5, <2>1, <2>2
  <2> QED BY <1>2, <2>1, <2>2, <2>3 DEF ClaimFits
<1> QED BY <1>4, <1>6, <1>7, <1>8 DEF IInv

\* The stored order changes for the clock, or by a cancellation; its phase,
\* whether its call was attempted and its receipts do not.
LEMMA OrderMoves ==
    ASSUME IInv, TypeOK', UNCHANGED <<step, snap, draft, marks, inbound, made, shown, vault>>,
           order'.phase = order.phase, order'.receipts = order.receipts,
           (order'.attempt = "none") <=> (order.attempt = "none"),
           \/ order'.status = order.status /\ current' = current
           \/ \A v \in Workers : current'[v] = {}
    PROVE  IInv'
<1>1. /\ TypeOK /\ Sound(order) /\ CallsOnce
      /\ \A v \in Workers : SnapFits(v) /\ DraftFits(v) /\ Shape(v) /\ ClaimFits(v)
  BY DEF IInv
<1>2. CallsOnce'
  BY <1>1 DEF CallsOnce
<1>3. \A k : Spent(k)' <=> Spent(k)
  BY DEF Spent
<1>4. Sound(order)'
  BY <1>1, <1>3 DEF Sound
<1>5. \A v \in Workers : (Holds(v)' <=> Holds(v)) /\ Shape(v)'
  BY <1>1 DEF Holds, Shape, Place, Call
<1>6. ASSUME NEW v \in Workers PROVE SnapFits(v)'
  BY <1>1 DEF SnapFits
<1>7. ASSUME NEW v \in Workers PROVE DraftFits(v)'
  <2> SUFFICES ASSUME MayStore(v)' PROVE DraftFits(v)'
    BY DEF DraftFits
  <2>1. MayStore(v) /\ order'.status = order.status
    BY DEF MayStore
  <2>2. PICK o \in Orders : o = draft[v]
    BY <1>1 DEF TypeOK
  <2>3. DraftFits(v) /\ Follows(v, o)
    BY <1>1, <2>1, <2>2 DEF DraftFits
  <2>4. Sound(o)'
    BY <1>3, <2>3, SoundKept DEF Follows
  <2>5. o.attempt = "none" => \A u \in Workers \ {v} : ~Holds(u)'
    BY <1>5, <2>3 DEF Follows
  <2>6. Follows(v, o)'
    BY <2>1, <2>3, <2>4, <2>5 DEF Follows
  <2>7. step[v] = "claim" => order'.attempt = "none" /\ o.attempt # "none"
                             /\ o.phase \in Mutations /\ ~Spent(o.phase)'
    BY <1>3, <2>1, <2>2, <2>3 DEF DraftFits
  <2>8. step[v] = "deny" /\ snap[v].phase # "connection" => o.attempt # "none"
    BY <2>1, <2>2, <2>3 DEF DraftFits
  <2>9. step[v] \in {"claim", "deny", "unclaiming"} => o.status # "cancelled"
    BY <2>1, <2>2, <2>3 DEF DraftFits
  <2> QED BY <2>2, <2>6, <2>7, <2>8, <2>9 DEF DraftFits
<1>8. ASSUME NEW v \in Workers PROVE ClaimFits(v)'
  <2> SUFFICES ASSUME Holds(v) PROVE ClaimFits(v)'
    BY <1>5 DEF ClaimFits
  <2>1. /\ order.phase = snap[v].phase /\ order.attempt # "none" /\ ~Spent(order.phase)
        /\ \A u \in Workers \ {v} : ~Holds(u)
    BY <1>1 DEF ClaimFits
  <2>2. PICK k \in Mutations : k = order.phase
    BY <2>1 DEF Holds
  <2>3. ~Spent(k)' /\ \A u \in Workers \ {v} : ~Holds(u)'
    BY <1>3, <1>5, <2>1, <2>2
  <2> QED BY <2>1, <2>2, <2>3 DEF ClaimFits
<1> QED BY <1>2, <1>4, <1>5, <1>6, <1>7, <1>8 DEF IInv

---------------------------------------------------------------------------
(* What a tick plans                                                       *)

Marks == SUBSET {"refused", "unsent", "settled", "threw"}

\* What Plan changes.
LEMMA Planned ==
    ASSUME TypeOK, NEW w \in Workers, NEW s \in Steps, NEW d \in Orders, Plan(w, s, d)
    PROVE  /\ step' \in [Workers -> Steps] /\ draft' \in [Workers -> Orders]
           /\ current' \in [Workers -> SUBSET {"snap", "draft"}]
           /\ step'[w] = s /\ draft'[w] = d
           /\ order' = order /\ snap' = snap /\ tries' = tries
           /\ ("snap" \in current'[w]) <=> ("snap" \in current[w])
           /\ ("draft" \in current'[w]) <=> ("snap" \in current[w])
           /\ \A v \in Workers \ {w} :
                 step'[v] = step[v] /\ draft'[v] = draft[v] /\ current'[v] = current[v]
<1>1. /\ step' \in [Workers -> Steps] /\ draft' \in [Workers -> Orders]
      /\ step'[w] = s /\ draft'[w] = d
      /\ \A v \in Workers \ {w} : step'[v] = step[v] /\ draft'[v] = draft[v]
  BY DEF TypeOK, Plan, Go
<1>2. /\ current' = [current EXCEPT ![w] = {c \in {"snap", "draft"} : "snap" \in current[w]}]
      /\ order' = order /\ snap' = snap /\ tries' = tries
  BY DEF Plan, FromSnap
<1>3. current \in [Workers -> SUBSET {"snap", "draft"}]
  BY DEF TypeOK
<1>4. PICK cs \in SUBSET {"snap", "draft"} : cs = {c \in {"snap", "draft"} : "snap" \in current[w]}
  OBVIOUS
<1>5. /\ ("snap" \in cs) <=> ("snap" \in current[w])
      /\ ("draft" \in cs) <=> ("snap" \in current[w])
  BY <1>4
<1>6. /\ current' \in [Workers -> SUBSET {"snap", "draft"}] /\ current'[w] = cs
      /\ \A v \in Workers \ {w} : current'[v] = current[v]
  BY <1>2, <1>3, <1>4
<1> QED BY <1>1, <1>2, <1>5, <1>6

\* A tick goes on from its order, perhaps after a call that was not executed,
\* or whose key it has stored.
LEMMA Plans ==
    ASSUME IInv, NEW w \in Workers, NEW s \in Steps \ {"calling", "unclaiming", "recording"},
           NEW d \in Orders, Plan(w, s, d),
           marks' \in [Workers -> Marks], \A v \in Workers \ {w} : marks'[v] = marks[v],
           s \notin {"save", "record"} => Open(marks'[w]),
           faults' \in 0..MaxFaults, denials' \in 0..MaxDenials,
           UNCHANGED <<made, shown, ready>>,
           inbound' \subseteq inbound,
           \A v \in Workers \ {w}, k \in Mutations : <<v, k>> \in inbound => <<v, k>> \in inbound',
           vault' \in BOOLEAN, vault' => made["credential"] > 0,
           Place(s, snap[w]),
           s \in {"authorize", "deny", "recheck", "unclaim"} =>
               Holds(w) \/ snap[w].phase \notin Mutations,
           "number" \in d.receipts => made["number"] > 0,
           s \in {"claim", "deny", "save"} /\ "snap" \in current[w] => Follows(w, d)',
           s = "claim" /\ "snap" \in current[w] =>
               /\ order.attempt = "none" /\ d.attempt # "none"
               /\ d.phase \in Mutations /\ ~Spent(d.phase),
           s = "deny" /\ snap[w].phase # "connection" => d.attempt # "none",
           s \in {"claim", "deny"} => d.status # "cancelled"
    PROVE  IInv'
<1>1. /\ TypeOK /\ CallsOnce /\ Sound(order) /\ SnapFits(w) /\ Shape(w)
  BY DEF IInv
<1>2. /\ step' \in [Workers -> Steps] /\ draft' \in [Workers -> Orders]
      /\ current' \in [Workers -> SUBSET {"snap", "draft"}]
      /\ step'[w] = s /\ draft'[w] = d
      /\ order' = order /\ snap' = snap /\ tries' = tries
      /\ ("snap" \in current'[w]) <=> ("snap" \in current[w])
      /\ ("draft" \in current'[w]) <=> ("snap" \in current[w])
      /\ \A v \in Workers \ {w} :
            step'[v] = step[v] /\ draft'[v] = draft[v] /\ current'[v] = current[v]
  BY <1>1, Planned
<1>3. \A k \in Mutations : Spent(k)' => Spent(k)
  BY DEF Spent
<1>4. TypeOK'
  BY <1>1, <1>2 DEF TypeOK, Marks
<1>5. CallsOnce'
  BY <1>1 DEF CallsOnce
<1>6. Sound(order)'
  BY <1>1, <1>2, <1>3 DEF Sound, Mutations
<1>7. SnapFits(w)'
  BY <1>1, <1>2 DEF SnapFits
<1>8. DraftFits(w)'
  <2> SUFFICES ASSUME MayStore(w)' PROVE DraftFits(w)'
    BY DEF DraftFits
  <2>1. s \in {"claim", "deny", "save"} /\ "snap" \in current[w]
    BY <1>2 DEF MayStore
  <2>2. Follows(w, d)'
    BY <2>1
  <2>3. s = "claim" => ~Spent(d.phase)'
    BY <1>3, <2>1
  <2> QED BY <1>2, <2>1, <2>2, <2>3 DEF DraftFits
<1>9. Shape(w)'
  <2>1. "number" \in snap[w].receipts \cup d.receipts => made["number"] > 0
    BY <1>1 DEF Shape
  <2>2. Place(step[w], snap[w])'
    BY <1>2 DEF Place
  <2> QED BY <1>2, <2>1, <2>2 DEF Shape
<1>10. Holds(w)' => Holds(w) /\ snap'[w].phase = snap[w].phase
  BY <1>2 DEF Holds
<1> QED BY <1>2, <1>3, <1>4, <1>5, <1>6, <1>7, <1>8, <1>9, <1>10, TickMoves

\* A tick goes on and touches no port.
LEMMA PlansQuietly ==
    ASSUME IInv, NEW w \in Workers, NEW s \in Steps \ {"calling", "unclaiming", "recording"},
           NEW d \in Orders, Plan(w, s, d),
           marks' \in [Workers -> Marks], \A v \in Workers \ {w} : marks'[v] = marks[v],
           s \notin {"save", "record"} => Open(marks'[w]),
           UNCHANGED budget \/ Fault \/ Denial, UNCHANGED provider,
           Place(s, snap[w]),
           s \in {"authorize", "deny", "recheck", "unclaim"} =>
               Holds(w) \/ snap[w].phase \notin Mutations,
           "number" \in d.receipts => made["number"] > 0,
           s \in {"claim", "deny", "save"} /\ "snap" \in current[w] => Follows(w, d),
           s = "claim" /\ "snap" \in current[w] =>
               /\ order.attempt = "none" /\ d.attempt # "none"
               /\ d.phase \in Mutations /\ ~Spent(d.phase),
           s = "deny" /\ snap[w].phase # "connection" => d.attempt # "none",
           s \in {"claim", "deny"} => d.status # "cancelled"
    PROVE  IInv'
<1>1. TypeOK /\ CallsOnce
  BY DEF IInv
<1>2. faults' \in 0..MaxFaults /\ denials' \in 0..MaxDenials
  BY <1>1, Bounds
<1>3. /\ inbound' = inbound /\ made' = made /\ shown' = shown /\ ready' = ready
      /\ vault' = vault
  BY DEF provider
<1>4. vault' \in BOOLEAN /\ (vault' => made["credential"] > 0)
  BY <1>1, <1>3 DEF TypeOK, CallsOnce
<1>5. ASSUME Follows(w, d) PROVE Follows(w, d)'
  <2>1. /\ order' = order /\ snap' = snap
        /\ \A v \in Workers \ {w} : step'[v] = step[v]
    BY <1>1, Planned
  <2>2. \A v \in Workers \ {w} : Holds(v)' <=> Holds(v)
    BY <2>1 DEF Holds
  <2>3. Sound(d)'
    BY <1>3, <1>5, SoundKept DEF Follows, Spent
  <2>4. d.attempt = "none" => \A v \in Workers \ {w} : ~Holds(v)'
    BY <1>5, <2>2 DEF Follows
  <2> QED BY <1>5, <2>1, <2>3, <2>4 DEF Follows
<1> QED BY <1>2, <1>3, <1>4, <1>5, Plans

\* A tick that returns or dies leaves the order and its calls as they are.
LEMMA Returns ==
    ASSUME IInv, NEW w \in Workers, Return(w), UNCHANGED provider,
           UNCHANGED budget \/ Fault \/ Denial
    PROVE  IInv'
<1>1. TypeOK /\ CallsOnce /\ Sound(order)
  BY DEF IInv
<1>2. faults' \in 0..MaxFaults /\ denials' \in 0..MaxDenials
  BY <1>1, Bounds
<1>3. /\ inbound' = inbound /\ made' = made /\ shown' = shown /\ ready' = ready
      /\ vault' = vault
  BY DEF provider
<1>4. /\ NewOrder \in Orders /\ NewOrder.receipts = {} /\ NewOrder.phase = "identity"
  BY NewOrderMade
<1>5. /\ step' \in [Workers -> Steps] /\ draft' \in [Workers -> Orders]
      /\ snap' \in [Workers -> Orders] /\ tries' \in [Workers -> 0..2]
      /\ current' \in [Workers -> SUBSET {"snap", "draft"}]
      /\ marks' \in [Workers -> Marks]
      /\ order' = order
  BY <1>1, <1>4 DEF TypeOK, Return, Forget, Go, Steps, Marks
<1>6. /\ step'[w] = "idle" /\ draft'[w] = NewOrder /\ snap'[w] = NewOrder /\ current'[w] = {}
      /\ marks'[w] = {}
  BY <1>1 DEF TypeOK, Return, Forget, Go
<1>7. \A v \in Workers \ {w} :
          /\ step'[v] = step[v] /\ snap'[v] = snap[v] /\ draft'[v] = draft[v]
          /\ current'[v] = current[v] /\ marks'[v] = marks[v]
  BY <1>1 DEF TypeOK, Return, Forget, Go
<1>8. TypeOK'
  BY <1>1, <1>2, <1>3, <1>5 DEF TypeOK, Marks
<1>9. CallsOnce' /\ Sound(order)'
  <2>1. \A k : Spent(k)' <=> Spent(k)
    BY <1>3 DEF Spent
  <2> QED BY <1>1, <1>3, <1>5, <2>1 DEF CallsOnce, Sound
<1>10. SnapFits(w)' /\ DraftFits(w)' /\ Shape(w)' /\ ~Holds(w)'
  BY <1>4, <1>6 DEF SnapFits, DraftFits, MayStore, Shape, Open, Place, Holds
<1>11. \A k \in Mutations : Spent(k)' => Spent(k)
  BY <1>3 DEF Spent
<1> QED BY <1>3, <1>5, <1>7, <1>8, <1>9, <1>10, <1>11, TickMoves

\* A row of the same phase that does not take back the attempt may be saved.
LEMMA SamePhase ==
    ASSUME IInv, NEW w \in Workers, "snap" \in current[w], NEW d \in Orders,
           d.phase = snap[w].phase, d.receipts = snap[w].receipts,
           d.attempt = "none" => snap[w].attempt = "none"
    PROVE  Follows(w, d)
<1>1. /\ Sound(order) /\ SnapFits(w) /\ \A v \in Workers : ClaimFits(v)
  BY DEF IInv
<1>2. /\ d.phase = order.phase /\ d.receipts = order.receipts /\ order.status # "cancelled"
      /\ d.attempt = "none" => order.attempt = "none"
  BY <1>1 DEF SnapFits
<1>3. Sound(d)
  BY <1>1, <1>2 DEF Sound
<1>4. d.attempt = "none" => \A v \in Workers : ~Holds(v)
  BY <1>1, <1>2 DEF ClaimFits
<1> QED BY <1>2, <1>3, <1>4 DEF Follows

\* The row of the next phase may be saved when the call of this one was made;
\* an SMS number that is not ready is recorded in its own phase.
LEMMA NextPhase ==
    ASSUME IInv, NEW w \in Workers, "snap" \in current[w], NEW d \in Orders,
           d.attempt = "none", snap[w].receipts \subseteq d.receipts,
           \/ snap[w].phase = "identity" /\ d.phase = "number"
           \/ snap[w].phase = "number" /\ d.phase = "number" /\ "number" \in d.receipts
           \/ snap[w].phase = "number" /\ d.phase = "credential"
           \/ snap[w].phase = "credential" /\ d.phase = "connection"
           \/ snap[w].phase = "connection" /\ d.phase = "complete",
           "number" \in d.receipts => made["number"] > 0,
           snap[w].phase \in Mutations => made[snap[w].phase] > 0
    PROVE  Follows(w, d)
<1>1. /\ Sound(order) /\ SnapFits(w) /\ \A v \in Workers : ClaimFits(v)
  BY DEF IInv
<1>2. order.phase = snap[w].phase /\ order.receipts = snap[w].receipts /\ order.status # "cancelled"
  BY <1>1 DEF SnapFits
<1>3. Sound(d)
  BY <1>1, <1>2 DEF Sound, Mutations
<1>4. order.phase \in Mutations => Spent(order.phase)
  BY <1>2 DEF Spent
<1>5. \A v \in Workers : ~Holds(v)
  BY <1>1, <1>4 DEF ClaimFits, Holds
<1> QED BY <1>2, <1>3, <1>5 DEF Follows

---------------------------------------------------------------------------
(* The steps that read, plan and fail                                      *)

\* What is known of one tick.
LEMMA Ticking ==
    ASSUME IInv, NEW w \in Workers
    PROVE  /\ TypeOK /\ CallsOnce /\ Sound(order)
           /\ SnapFits(w) /\ DraftFits(w) /\ Shape(w) /\ ClaimFits(w)
           /\ snap[w] \in Orders /\ draft[w] \in Orders /\ order \in Orders
           /\ marks[w] \in Marks /\ Place(step[w], snap[w])
           /\ "number" \in snap[w].receipts => made["number"] > 0
           /\ "number" \in draft[w].receipts => made["number"] > 0
           /\ step[w] \notin {"save", "record", "recording"} => Open(marks[w])
BY DEF IInv, TypeOK, Shape, Marks

\* Marks that stay, or become ms.
LEMMA Marked ==
    ASSUME TypeOK, NEW w \in Workers, NEW ms \in Marks, marks' = [marks EXCEPT ![w] = ms]
    PROVE  /\ marks' \in [Workers -> Marks] /\ marks'[w] = ms
           /\ \A v \in Workers \ {w} : marks'[v] = marks[v]
BY DEF TypeOK, Marks

\* Marks that nobody touches.
LEMMA Unmarked ==
    ASSUME TypeOK, UNCHANGED marks
    PROVE  marks' \in [Workers -> Marks] /\ \A v \in Workers : marks'[v] = marks[v]
BY DEF TypeOK, Marks

\* An error, a review or a wait is saved in the phase of the tick.
LEMMA StaysInPhase ==
    ASSUME IInv, NEW w \in Workers, NEW d \in Orders, Plan(w, "save", d),
           d.phase = snap[w].phase, d.receipts = snap[w].receipts,
           d.attempt = "none" => snap[w].attempt = "none",
           marks' \in [Workers -> Marks], \A v \in Workers \ {w} : marks'[v] = marks[v],
           UNCHANGED budget \/ Fault \/ Denial, UNCHANGED provider
    PROVE  IInv'
<1>1. "number" \in d.receipts => made["number"] > 0
  BY Ticking
<1>2. "snap" \in current[w] => Follows(w, d)
  BY SamePhase
<1>3. Place("save", snap[w])
  BY DEF Place
<1> QED BY <1>1, <1>2, <1>3, PlansQuietly DEF Steps

\* The rows of a review and of a wait.
LEMMA Rows ==
    ASSUME NEW o \in Orders
    PROVE  /\ Review(o) \in Orders /\ Review(o).phase = o.phase
           /\ Review(o).attempt = o.attempt /\ Review(o).receipts = o.receipts
           /\ Review(o).status = "needs_review"
           /\ Pending(o) \in Orders /\ Pending(o).phase = o.phase
           /\ Pending(o).attempt = o.attempt /\ Pending(o).receipts = o.receipts
           /\ Pending(o).status = "provider_pending"
BY DEF Review, Pending, Order, Orders, Statuses

\* The catch block, unless the provider refused the call.
LEMMA Caught ==
    ASSUME IInv, NEW w \in Workers, NEW ms \in Marks, Open(ms),
           NEW status \in {"provider_pending", "needs_review"}, Catch(w, ms, status),
           UNCHANGED budget \/ Fault \/ Denial, UNCHANGED provider
    PROVE  IInv'
<1>1. TypeOK /\ snap[w] \in Orders
  BY Ticking
<1>2. PICK a \in Attempts : a = AfterError(snap[w], ms)
  BY <1>1, OrderFields DEF AfterError, Attempts
<1>3. a = "none" => snap[w].attempt = "none"
  BY <1>2 DEF AfterError, Open
<1>a. PICK d : d = Order(snap[w].phase, a, status, TRUE, snap[w].receipts)
  OBVIOUS
<1>4. /\ d \in Orders
      /\ d.phase = snap[w].phase /\ d.attempt = a /\ d.receipts = snap[w].receipts
  BY <1>1, <1>a DEF Order, Orders, Statuses
<1>5. Plan(w, "save", d) /\ marks' = [marks EXCEPT ![w] = ms]
  BY <1>2, <1>a DEF Catch
<1>6. marks' \in [Workers -> Marks] /\ \A v \in Workers \ {w} : marks'[v] = marks[v]
  BY <1>1, <1>5, Marked
<1> QED BY <1>3, <1>4, <1>5, <1>6, StaysInPhase

\* The steps of the tick's reads that end in a review or a wait.
LEMMA ReviewSteps ==
    ASSUME IInv, NEW w \in Workers,
           LeaseBurned(w) \/ IdentityForeign(w) \/ SomethingMissing(w) \/ LinePending(w)
    PROVE  IInv'
<1>1. /\ TypeOK /\ snap[w] \in Orders /\ UNCHANGED <<marks, provider>> /\ UNCHANGED budget
      /\ Plan(w, "save", Review(snap[w])) \/ Plan(w, "save", Pending(snap[w]))
  BY Ticking DEF LeaseBurned, IdentityForeign, SomethingMissing, LinePending, Quiet
<1>2. marks' \in [Workers -> Marks] /\ \A v \in Workers : marks'[v] = marks[v]
  BY <1>1, Unmarked
<1>3. CASE Plan(w, "save", Review(snap[w]))
  <2>1. PICK d \in Orders : d = Review(snap[w]) /\ d.phase = snap[w].phase
                            /\ d.attempt = snap[w].attempt /\ d.receipts = snap[w].receipts
    BY <1>1, Rows
  <2> QED BY <1>1, <1>2, <1>3, <2>1, StaysInPhase
<1>4. CASE Plan(w, "save", Pending(snap[w]))
  <2>1. PICK d \in Orders : d = Pending(snap[w]) /\ d.phase = snap[w].phase
                            /\ d.attempt = snap[w].attempt /\ d.receipts = snap[w].receipts
    BY <1>1, Rows
  <2> QED BY <1>1, <1>2, <1>4, <2>1, StaysInPhase
<1> QED BY <1>1, <1>3, <1>4

\* A journal entry is planned for a call that was not made.
LEMMA LeaseClaimStep ==
    ASSUME IInv, NEW w \in Workers, LeaseClaim(w)
    PROVE  IInv'
<1>1. /\ TypeOK /\ Sound(order) /\ SnapFits(w) /\ snap[w] \in Orders
      /\ "number" \in snap[w].receipts => made["number"] > 0
      /\ step[w] \in {"look", "vault"} /\ Open(marks[w])
  BY Ticking DEF LeaseClaim, ReceiptMissing, At
<1>2. /\ snap[w].phase \in Mutations /\ snap[w].attempt = "none"
      /\ snap[w].phase = "number" => "number" \notin snap[w].receipts
  BY DEF LeaseClaim, ReceiptMissing, At, Mutations
<1>a. PICK d : d = Order(snap[w].phase, "recent", "pending", FALSE, snap[w].receipts)
  OBVIOUS
<1>3. /\ d \in Orders /\ d.phase = snap[w].phase /\ d.attempt = "recent"
      /\ d.receipts = snap[w].receipts /\ d.status = "pending"
  BY <1>1, <1>a DEF Order, Orders, Statuses, Attempts
<1>4. /\ Plan(w, "claim", d) /\ UNCHANGED budget /\ UNCHANGED provider /\ UNCHANGED marks
  BY <1>a DEF LeaseClaim, Quiet
<1>5. marks' \in [Workers -> Marks] /\ \A v \in Workers : marks'[v] = marks[v]
  BY <1>1, <1>4, Unmarked
<1>6. ASSUME "snap" \in current[w] PROVE order.attempt = "none" /\ ~Spent(d.phase)
  BY <1>1, <1>2, <1>3, <1>6 DEF SnapFits, Sound
<1>7. "snap" \in current[w] => Follows(w, d)
  BY <1>3, SamePhase
<1>8. Place("claim", snap[w]) /\ "claim" \in Steps \ {"calling", "unclaiming", "recording"}
  BY <1>2 DEF Place, Steps
<1> QED BY <1>1, <1>2, <1>3, <1>4, <1>5, <1>6, <1>7, <1>8, PlansQuietly

\* A row of the next phase is planned.
LEMMA GoesOn ==
    ASSUME IInv, NEW w \in Workers, NEW d \in Orders, Plan(w, "save", d),
           d.attempt = "none", snap[w].receipts \subseteq d.receipts,
           \/ snap[w].phase = "identity" /\ d.phase = "number"
           \/ snap[w].phase = "number" /\ d.phase = "number" /\ "number" \in d.receipts
           \/ snap[w].phase = "number" /\ d.phase = "credential"
           \/ snap[w].phase = "credential" /\ d.phase = "connection"
           \/ snap[w].phase = "connection" /\ d.phase = "complete",
           "number" \in d.receipts => made["number"] > 0,
           snap[w].phase \in Mutations => made[snap[w].phase] > 0,
           marks' \in [Workers -> Marks], \A v \in Workers \ {w} : marks'[v] = marks[v],
           UNCHANGED budget, UNCHANGED provider
    PROVE  IInv'
<1>1. "snap" \in current[w] => Follows(w, d)
  BY NextPhase
<1>2. Place("save", snap[w]) /\ "save" \in Steps \ {"calling", "unclaiming", "recording"}
  BY DEF Place, Steps
<1> QED BY <1>1, <1>2, PlansQuietly

\* The rows that end a phase.
LEMMA NextRows ==
    ASSUME NEW o \in Orders
    PROVE  /\ HasIdentity(o) \in Orders /\ HasIdentity(o).phase = "number"
           /\ HasIdentity(o).attempt = "none"
           /\ HasIdentity(o).receipts = o.receipts \cup {"identity"}
           /\ HasNumber(o) \in Orders /\ HasNumber(o).phase \in {"number", "credential"}
           /\ HasNumber(o).attempt = "none"
           /\ HasNumber(o).receipts = o.receipts \cup {"number"}
<1>1. /\ HasIdentity(o) \in Orders /\ HasIdentity(o).phase = "number"
      /\ HasIdentity(o).attempt = "none"
      /\ HasIdentity(o).receipts = o.receipts \cup {"identity"}
  BY DEF HasIdentity, Order, Orders, Statuses, Phases, Mutations, Attempts, Receipts
<1>2. CASE Transport = "sms" /\ ~ready
  <2>1. HasNumber(o) = Order("number", "none", "provider_pending", TRUE, o.receipts \cup {"number"})
    BY <1>2 DEF HasNumber
  <2> QED BY <1>1, <2>1 DEF Order, Orders, Statuses, Phases, Mutations, Attempts, Receipts
<1>3. CASE ~(Transport = "sms" /\ ~ready)
  <2>1. HasNumber(o) = Order("credential", "none", "pending", FALSE, o.receipts \cup {"number"})
    BY <1>3 DEF HasNumber
  <2> QED BY <1>1, <2>1 DEF Order, Orders, Statuses, Phases, Mutations, Attempts, Receipts
<1> QED BY <1>2, <1>3

\* The identity shows and this order asked for it.
LEMMA IdentityFoundStep ==
    ASSUME IInv, NEW w \in Workers, IdentityFound(w)
    PROVE  IInv'
<1>1. /\ TypeOK /\ CallsOnce /\ snap[w] \in Orders
      /\ "number" \in snap[w].receipts => made["number"] > 0
  BY Ticking
<1>2. /\ snap[w].phase = "identity" /\ "identity" \in shown
      /\ UNCHANGED budget /\ UNCHANGED provider /\ UNCHANGED marks
  BY DEF IdentityFound, At, Quiet
<1>3. PICK d \in Orders : /\ d = HasIdentity(snap[w]) /\ d.phase = "number"
                          /\ d.attempt = "none"
                          /\ d.receipts = snap[w].receipts \cup {"identity"}
  BY <1>1, NextRows
<1>4. Plan(w, "save", d)
  BY <1>3 DEF IdentityFound
<1>5. made["identity"] > 0
  BY <1>1, <1>2 DEF CallsOnce
<1>6. marks' \in [Workers -> Marks] /\ \A v \in Workers : marks'[v] = marks[v]
  BY <1>1, <1>2, Unmarked
<1> QED BY <1>1, <1>2, <1>3, <1>4, <1>5, <1>6, GoesOn

\* The number shows and becomes the order's receipt.
LEMMA NumberSeen ==
    ASSUME IInv, NEW w \in Workers, snap[w].phase = "number", "number" \in shown,
           Plan(w, "save", HasNumber(snap[w])),
           marks' \in [Workers -> Marks], \A v \in Workers \ {w} : marks'[v] = marks[v],
           UNCHANGED budget, UNCHANGED provider
    PROVE  IInv'
<1>1. TypeOK /\ CallsOnce /\ snap[w] \in Orders
  BY Ticking
<1>2. PICK d \in Orders : /\ d = HasNumber(snap[w]) /\ d.phase \in {"number", "credential"}
                          /\ d.attempt = "none"
                          /\ d.receipts = snap[w].receipts \cup {"number"}
  BY <1>1, NextRows
<1>3. made["number"] > 0
  BY <1>1 DEF CallsOnce
<1> QED BY <1>2, <1>3, GoesOn

\* ... when the tick looks for it, and after an SMS purchase.
LEMMA NumberFoundStep ==
    ASSUME IInv, NEW w \in Workers, NumberFound(w) \/ ReceiptRead(w)
    PROVE  IInv'
<1>1. /\ TypeOK /\ marks[w] \in Marks /\ Place(step[w], snap[w])
      /\ step[w] \notin {"save", "record", "recording"} => Open(marks[w])
  BY Ticking
<1>2. UNCHANGED budget /\ UNCHANGED provider
  BY DEF NumberFound, ReceiptRead, Quiet
<1>3. CASE ReceiptRead(w) /\ shown # Receipts
  <2>1. Catch(w, marks[w], "needs_review") /\ Open(marks[w])
    BY <1>1, <1>3 DEF ReceiptRead
  <2> QED BY <1>1, <1>2, <2>1, Caught
<1>4. CASE ~(ReceiptRead(w) /\ shown # Receipts)
  <2>1. /\ snap[w].phase = "number" /\ "number" \in shown /\ UNCHANGED marks
        /\ Plan(w, "save", HasNumber(snap[w]))
    BY <1>1, <1>4 DEF NumberFound, ReceiptRead, At, Place, Receipts
  <2>2. marks' \in [Workers -> Marks] /\ \A v \in Workers : marks'[v] = marks[v]
    BY <1>1, <2>1, Unmarked
  <2> QED BY <1>2, <2>1, <2>2, NumberSeen
<1> QED BY <1>3, <1>4

\* A tick goes to a step that saves nothing, and holds no claim it had not.
LEMMA Walks ==
    ASSUME IInv, NEW w \in Workers,
           NEW s \in {"vault", "verify", "authorize", "recheck", "unclaim", "receipt", "keep",
                      "bind", "record"},
           To(w, s), marks' \in [Workers -> Marks],
           \A v \in Workers \ {w} : marks'[v] = marks[v],
           s # "record" => Open(marks'[w]),
           UNCHANGED budget \/ Fault \/ Denial, UNCHANGED provider, Place(s, snap[w]),
           s \in {"authorize", "recheck", "unclaim"} =>
               Holds(w) \/ snap[w].phase \notin Mutations
    PROVE  IInv'
<1>1. TypeOK /\ draft[w] \in Orders /\ ("number" \in draft[w].receipts => made["number"] > 0)
  BY Ticking
<1>2. PICK d \in Orders : d = draft[w]
  BY <1>1
<1>3. Plan(w, s, d) /\ s \in Steps \ {"calling", "unclaiming", "recording"}
  BY <1>2 DEF To, Steps
<1> QED BY <1>1, <1>2, <1>3, PlansQuietly

\* The steps of a tick that walks on from a read, a grant or an answer.
LEMMA WalkSteps ==
    ASSUME IInv, NEW w \in Workers,
           LineConfirmed(w) \/ VaultRead(w) \/ AuthorizeGranted(w) \/ SaveLost(w)
    PROVE  IInv'
<1>1. /\ TypeOK /\ CallsOnce /\ Place(step[w], snap[w])
      /\ step[w] \notin {"save", "record", "recording"} => Open(marks[w])
  BY Ticking
<1>2. UNCHANGED budget /\ UNCHANGED provider /\ UNCHANGED marks
  BY DEF LineConfirmed, VaultRead, AuthorizeGranted, SaveLost, Quiet
<1>3. marks' \in [Workers -> Marks] /\ \A v \in Workers : marks'[v] = marks[v]
  BY <1>1, <1>2, Unmarked
<1>4. CASE LineConfirmed(w)
  <2>1. To(w, "vault") /\ step[w] = "look" /\ Place("vault", snap[w])
    BY <1>4 DEF LineConfirmed, Place
  <2> QED BY <1>1, <1>2, <1>3, <2>1, Walks
<1>5. CASE VaultRead(w)
  <2>1. made["credential"] > 0 /\ step[w] = "vault"
    BY <1>1, <1>5 DEF VaultRead, CallsOnce, At
  <2>2. CASE At(w, "vault", "credential") /\ To(w, "verify")
    <3>1. Place("verify", snap[w])
      BY <2>1, <2>2 DEF Place, At
    <3> QED BY <1>1, <1>2, <1>3, <2>1, <2>2, <3>1, Walks
  <2>3. CASE At(w, "vault", "connection") /\ To(w, "authorize")
    <3>1. Place("authorize", snap[w]) /\ snap[w].phase \notin Mutations
      BY <2>3 DEF Place, At, Mutations
    <3> QED BY <1>1, <1>2, <1>3, <2>1, <2>3, <3>1, Walks
  <2> QED BY <1>5, <2>2, <2>3 DEF VaultRead
<1>6. CASE AuthorizeGranted(w)
  <2>1. To(w, "recheck") /\ step[w] = "authorize"
    BY <1>6 DEF AuthorizeGranted
  <2>2. Place("recheck", snap[w]) /\ (Holds(w) \/ snap[w].phase \notin Mutations)
    BY <1>1, <2>1 DEF Place, Holds
  <2> QED BY <1>1, <1>2, <1>3, <2>1, <2>2, Walks
<1>7. CASE SaveLost(w)
  <2>1. To(w, "record") /\ Place("record", snap[w])
    BY <1>7 DEF SaveLost, Place
  <2> QED BY <1>2, <1>3, <2>1, Walks
<1> QED BY <1>4, <1>5, <1>6, <1>7

\* A read, the verification or the binding fails.
LEMMA ReadThrowsStep ==
    ASSUME IInv, NEW w \in Workers, ReadThrows(w)
    PROVE  IInv'
<1>1. /\ marks[w] \in Marks
      /\ step[w] \notin {"save", "record", "recording"} => Open(marks[w])
  BY Ticking
<1>2. /\ Fault /\ Catch(w, marks[w], "provider_pending") /\ UNCHANGED provider
      /\ step[w] \in {"look", "vault", "receipt", "verify", "bind"}
  BY DEF ReadThrows
<1> QED BY <1>1, <1>2, Caught

\* A tick that was not granted its call gives the entry back.
LEMMA NotGrantedStep ==
    ASSUME IInv, NEW w \in Workers, AuthorizeStale(w) \/ DenyLost(w)
    PROVE  IInv'
<1>1. /\ TypeOK /\ Place(step[w], snap[w]) /\ snap[w] \in Orders
      /\ step[w] \notin {"save", "record", "recording"} => Open(marks[w])
  BY Ticking
<1>2. /\ NotGranted(w) /\ UNCHANGED budget /\ UNCHANGED provider
      /\ step[w] \in {"authorize", "recheck", "deny"}
  BY DEF AuthorizeStale, DenyLost, Quiet
<1>3. CASE snap[w].phase = "connection" /\ Return(w)
  BY <1>2, <1>3, Returns
<1>4. CASE snap[w].phase # "connection" /\ To(w, "unclaim") /\ UNCHANGED marks
  <2>1. snap[w].phase \in Mutations
    BY <1>1, <1>2, <1>4, OrderFields DEF Place, Phases
  <2>2. Holds(w) /\ Place("unclaim", snap[w])
    BY <1>2, <2>1 DEF Holds, Place
  <2>3. marks' \in [Workers -> Marks] /\ \A v \in Workers : marks'[v] = marks[v]
    BY <1>1, <1>4, Unmarked
  <2> QED BY <1>1, <1>2, <1>4, <2>2, <2>3, Walks
<1> QED BY <1>2, <1>3, <1>4 DEF NotGranted

\* A denial keeps the journal entry until the claim is given back.
LEMMA AuthorizeDeniedStep ==
    ASSUME IInv, NEW w \in Workers, AuthorizeDenied(w)
    PROVE  IInv'
<1>1. /\ TypeOK /\ SnapFits(w) /\ ClaimFits(w) /\ Place(step[w], snap[w]) /\ snap[w] \in Orders
      /\ step[w] \notin {"save", "record", "recording"} => Open(marks[w])
      /\ "number" \in snap[w].receipts => made["number"] > 0
  BY Ticking
<1>2. /\ step[w] = "authorize" /\ "snap" \in current[w] /\ Denial
      /\ UNCHANGED marks /\ UNCHANGED provider
  BY DEF AuthorizeDenied
<1>3. PICK d \in Orders : /\ d = Pending(snap[w]) /\ d.phase = snap[w].phase
                          /\ d.attempt = snap[w].attempt /\ d.receipts = snap[w].receipts
                          /\ d.status = "provider_pending"
  BY <1>1, Rows
<1>4. Plan(w, "deny", d)
  BY <1>3 DEF AuthorizeDenied
<1>5. Holds(w) \/ snap[w].phase \notin Mutations
  BY <1>2 DEF Holds
<1>6. snap[w].phase # "connection" => d.attempt # "none"
  <2>1. snap[w].phase # "connection" => Holds(w)
    BY <1>1, <1>2, <1>5, OrderFields DEF Place, Phases
  <2> QED BY <1>1, <1>2, <1>3, <2>1 DEF ClaimFits, SnapFits
<1>7. Follows(w, d)
  BY <1>2, <1>3, SamePhase
<1>8. Place("deny", snap[w]) /\ "deny" \in Steps \ {"calling", "unclaiming", "recording"}
  BY <1>1, <1>2 DEF Place, Steps
<1>9. marks' \in [Workers -> Marks] /\ \A v \in Workers : marks'[v] = marks[v]
  BY <1>1, <1>2, Unmarked
<1>10. "number" \in d.receipts => made["number"] > 0
  BY <1>1, <1>3
<1> QED BY <1>1, <1>2, <1>3, <1>4, <1>5, <1>6, <1>7, <1>8, <1>9, <1>10, PlansQuietly

\* A port of authorize throws.
LEMMA AuthorizeThrowsStep ==
    ASSUME IInv, NEW w \in Workers, AuthorizeThrows(w)
    PROVE  IInv'
<1>1. /\ TypeOK /\ Place(step[w], snap[w]) /\ snap[w] \in Orders /\ marks[w] \in Marks
      /\ step[w] \notin {"save", "record", "recording"} => Open(marks[w])
  BY Ticking
<1>2. step[w] = "authorize" /\ Fault /\ UNCHANGED provider
  BY DEF AuthorizeThrows
<1>3. CASE /\ snap[w].phase # "connection" /\ To(w, "unclaim")
           /\ marks' = [marks EXCEPT ![w] = marks[w] \cup {"threw"}]
  <2>1. snap[w].phase \in Mutations
    BY <1>1, <1>2, <1>3, OrderFields DEF Place, Phases
  <2>2. Holds(w) /\ Place("unclaim", snap[w])
    BY <1>2, <2>1 DEF Holds, Place
  <2>3. PICK ms \in Marks : ms = marks[w] \cup {"threw"}
    BY <1>1 DEF Marks
  <2>4. /\ marks' \in [Workers -> Marks] /\ marks'[w] = ms
        /\ \A v \in Workers \ {w} : marks'[v] = marks[v]
    BY <1>1, <1>3, <2>3, Marked
  <2>5. Open(marks'[w])
    BY <1>1, <1>2, <2>3, <2>4 DEF Open
  <2> QED BY <1>2, <1>3, <2>2, <2>4, <2>5, Walks
<1>4. CASE snap[w].phase = "connection" /\ Catch(w, marks[w], "provider_pending")
  BY <1>1, <1>2, <1>4, Caught
<1> QED BY <1>3, <1>4 DEF AuthorizeThrows

\* The answer of a call that was made.
LEMMA CallReturnsStep ==
    ASSUME IInv, NEW w \in Workers, CallReturns(w)
    PROVE  IInv'
<1>1. /\ TypeOK /\ Shape(w) /\ Place(step[w], snap[w]) /\ snap[w] \in Orders
      /\ marks[w] \in Marks
      /\ step[w] \notin {"save", "record", "recording"} => Open(marks[w])
      /\ "number" \in snap[w].receipts => made["number"] > 0
  BY Ticking
<1>2. step[w] = "calling" /\ UNCHANGED budget /\ UNCHANGED provider
  BY DEF CallReturns, Quiet
<1>3. made[snap[w].phase] > 0
  BY <1>1 DEF CallReturns, Shape
<1>4. PICK ms \in Marks : ms = Settled(w) /\ Open(ms)
  BY <1>1, <1>2 DEF Marks, Settled, Open
<1>5. /\ marks' \in [Workers -> Marks] /\ marks'[w] = ms
      /\ \A v \in Workers \ {w} : marks'[v] = marks[v]
  BY <1>1, <1>4, Marked DEF CallReturns
<1>6. CASE snap[w].phase = "identity" /\ Plan(w, "save", HasIdentity(snap[w]))
  <2>1. PICK d \in Orders : /\ d = HasIdentity(snap[w]) /\ d.phase = "number"
                            /\ d.attempt = "none"
                            /\ d.receipts = snap[w].receipts \cup {"identity"}
    BY <1>1, NextRows
  <2> QED BY <1>1, <1>2, <1>3, <1>5, <1>6, <2>1, GoesOn
<1>7. CASE snap[w].phase = "number" /\ To(w, "receipt")
  <2>1. Place("receipt", snap[w])
    BY <1>7 DEF Place
  <2> QED BY <1>2, <1>4, <1>5, <1>7, <2>1, Walks
<1>8. CASE snap[w].phase = "number" /\ "number" \in shown /\ Plan(w, "save", HasNumber(snap[w]))
  BY <1>2, <1>5, <1>8, NumberSeen
<1>9. CASE Plan(w, "save", Pending(snap[w]))
  <2>1. PICK d \in Orders : d = Pending(snap[w]) /\ d.phase = snap[w].phase
                            /\ d.attempt = snap[w].attempt /\ d.receipts = snap[w].receipts
    BY <1>1, Rows
  <2> QED BY <1>2, <1>5, <1>9, <2>1, StaysInPhase
<1>10. CASE snap[w].phase = "credential" /\ To(w, "keep")
  <2>1. Place("keep", snap[w])
    BY <1>3, <1>10 DEF Place
  <2> QED BY <1>2, <1>4, <1>5, <1>10, <2>1, Walks
<1> QED BY <1>6, <1>7, <1>8, <1>9, <1>10 DEF CallReturns

\* The credential is verified; the connection is bound.
LEMMA PhaseEnds ==
    ASSUME IInv, NEW w \in Workers, Verified(w) \/ Bound(w)
    PROVE  IInv'
<1>1. /\ TypeOK /\ Place(step[w], snap[w]) /\ snap[w] \in Orders
      /\ "number" \in snap[w].receipts => made["number"] > 0
  BY Ticking
<1>2. UNCHANGED budget /\ UNCHANGED provider /\ UNCHANGED marks
  BY DEF Verified, Bound, Quiet
<1>3. marks' \in [Workers -> Marks] /\ \A v \in Workers : marks'[v] = marks[v]
  BY <1>1, <1>2, Unmarked
<1>4. CASE Verified(w)
  <2>1. PICK d : d = Order("connection", "none", "pending", snap[w].waiting, snap[w].receipts)
    OBVIOUS
  <2>2. /\ d \in Orders /\ d.phase = "connection" /\ d.attempt = "none"
        /\ d.receipts = snap[w].receipts
    BY <1>1, <2>1 DEF Order, Orders, Statuses, Phases, Attempts
  <2>3. /\ Plan(w, "save", d) /\ snap[w].phase = "credential" /\ made["credential"] > 0
    BY <1>1, <1>4, <2>1 DEF Verified, Place
  <2> QED BY <1>1, <1>2, <1>3, <2>2, <2>3, GoesOn
<1>5. CASE Bound(w)
  <2>1. PICK d : d = Order("complete", "none", "ready_for_setup", snap[w].waiting,
                           snap[w].receipts)
    OBVIOUS
  <2>2. /\ d \in Orders /\ d.phase = "complete" /\ d.attempt = "none"
        /\ d.receipts = snap[w].receipts
    BY <1>1, <2>1 DEF Order, Orders, Statuses, Phases, Attempts
  <2>3. /\ Plan(w, "save", d) /\ snap[w].phase = "connection"
    BY <1>1, <1>5, <2>1 DEF Bound, Place
  <2>4. "connection" \notin Mutations
    BY DEF Mutations
  <2> QED BY <1>1, <1>2, <1>3, <2>2, <2>3, <2>4, GoesOn
<1> QED BY <1>4, <1>5

\* The claim is given back, or there was nothing to give back.
LEMMA ClaimOverStep ==
    ASSUME IInv, NEW w \in Workers, UnclaimNothing(w) \/ UnclaimLost(w)
    PROVE  IInv'
<1>1. /\ marks[w] \in Marks
      /\ step[w] \notin {"save", "record", "recording"} => Open(marks[w])
  BY Ticking
<1>2. /\ ClaimOver(w) /\ UNCHANGED budget /\ UNCHANGED provider
      /\ step[w] \in {"unclaim", "unclaiming"}
  BY DEF UnclaimNothing, UnclaimLost, Quiet
<1>3. CASE Return(w)
  BY <1>2, <1>3, Returns
<1>4. CASE Catch(w, marks[w] \ {"threw"}, "provider_pending")
  <2>1. PICK ms \in Marks : ms = marks[w] \ {"threw"} /\ Open(ms)
    BY <1>1, <1>2 DEF Marks, Open
  <2>2. Catch(w, ms, "provider_pending")
    BY <1>4, <2>1
  <2> QED BY <1>2, <2>1, <2>2, Caught
<1> QED BY <1>2, <1>3, <1>4 DEF ClaimOver

\* The tick ends without a save.
LEMMA ReturnSteps ==
    ASSUME IInv, NEW w \in Workers,
           \/ LeaseBusy(w) \/ ClaimLost(w) \/ RecordNothing(w) \/ Crash(w)
           \/ RecordLost(w) /\ tries[w] = 2
    PROVE  IInv'
<1>1. Return(w) /\ (UNCHANGED budget \/ Fault \/ Denial) /\ UNCHANGED provider
  BY DEF LeaseBusy, ClaimLost, RecordNothing, Crash, RecordLost, Quiet
<1> QED BY <1>1, Returns

---------------------------------------------------------------------------
(* The steps that touch the provider                                       *)

\* A call fails: its attempt is reopened only if it was not made and will not be.
LEMMA CallFails ==
    ASSUME IInv, NEW w \in Workers, NEW ms \in Marks, Catch(w, ms, "provider_pending"),
           Fault \/ Denial, UNCHANGED <<made, shown, ready>>, Spent(snap[w].phase),
           snap[w].phase \in Mutations,
           inbound' = inbound \/ inbound' = inbound \ {Call(w)},
           vault' \in BOOLEAN, vault' => made["credential"] > 0,
           AfterError(snap[w], ms) = "none" => snap[w].attempt = "none" \/ ~Spent(snap[w].phase)'
    PROVE  IInv'
<1>1. /\ TypeOK /\ Sound(order) /\ SnapFits(w) /\ snap[w] \in Orders
      /\ "number" \in snap[w].receipts => made["number"] > 0
  BY Ticking
<1>2. faults' \in 0..MaxFaults /\ denials' \in 0..MaxDenials
  BY <1>1, Bounds
<1>3. PICK a \in Attempts : a = AfterError(snap[w], ms)
  BY <1>1, OrderFields DEF AfterError, Attempts
<1>4. PICK d : d = Order(snap[w].phase, a, "provider_pending", TRUE, snap[w].receipts)
  OBVIOUS
<1>5. /\ d \in Orders
      /\ d.phase = snap[w].phase /\ d.attempt = a /\ d.receipts = snap[w].receipts
  BY <1>1, <1>4 DEF Order, Orders, Statuses
<1>6. Plan(w, "save", d) /\ marks' = [marks EXCEPT ![w] = ms]
  BY <1>3, <1>4 DEF Catch
<1>7. marks' \in [Workers -> Marks] /\ \A v \in Workers \ {w} : marks'[v] = marks[v]
  BY <1>1, <1>6, Marked
<1>8. /\ inbound' \subseteq inbound
      /\ \A v \in Workers \ {w}, k \in Mutations : <<v, k>> \in inbound => <<v, k>> \in inbound'
  BY DEF Call
<1>9. \A k \in Mutations : Spent(k)' => Spent(k)
  BY <1>8 DEF Spent
<1>10. "save" \in Steps \ {"calling", "unclaiming", "recording"} /\ Place("save", snap[w])
  BY DEF Steps, Place
<1>11. ASSUME "snap" \in current[w] PROVE Follows(w, d)'
  <2>1. /\ d.phase = order.phase /\ d.receipts = order.receipts /\ order.status # "cancelled"
        /\ (snap[w].attempt = "none") <=> (order.attempt = "none")
    BY <1>1, <1>5, <1>11 DEF SnapFits
  <2>2. PICK k \in Mutations : k = snap[w].phase
    OBVIOUS
  <2>8. /\ order' = order /\ snap' = snap
        /\ \A v \in Workers \ {w} : step'[v] = step[v]
    BY <1>1, <1>5, <1>6, Planned DEF Steps
  <2>3. d.attempt = "none" => order.attempt = "none" \/ ~Spent(k)'
    BY <1>3, <1>5, <2>1, <2>2, <2>8
  <2>4. /\ d.phase = "identity" => ~Spent("number")' /\ ~Spent("credential")'
        /\ d.phase = "number" => ~Spent("credential")'
        /\ "number" \in d.receipts => made'["number"] > 0
    BY <1>1, <1>9, <2>1 DEF Sound, Mutations
  <2>5. d.attempt = "none" /\ Spent(k)' => k = "number" /\ "number" \in d.receipts
    BY <1>1, <1>5, <1>9, <2>1, <2>2, <2>3 DEF Sound
  <2>6. Sound(d)'
    BY <1>5, <2>2, <2>4, <2>5 DEF Sound
  <2>7. \A v \in Workers \ {w} : ~Holds(v)
    BY <2>1, <1>5 DEF IInv, ClaimFits
  <2>9. \A v \in Workers \ {w} : ~Holds(v)'
    BY <2>7, <2>8 DEF Holds
  <2> QED BY <2>1, <2>6, <2>8, <2>9 DEF Follows
<1>12. "number" \in d.receipts => made["number"] > 0
  BY <1>1, <1>5
<1> QED BY <1>2, <1>5, <1>6, <1>7, <1>8, <1>10, <1>11, <1>12, Plans

\* A tick that calls has spent its call; without it on its way, it was made,
\* and on its way it was not.
LEMMA Calling ==
    ASSUME IInv, NEW w \in Workers, step[w] = "calling"
    PROVE  /\ snap[w].phase \in Mutations /\ Spent(snap[w].phase)
           /\ Call(w) \in inbound => made[snap[w].phase] = 0
           /\ Call(w) \in inbound => \A c \in inbound : c[2] = snap[w].phase => c = Call(w)
<1>1. TypeOK /\ CallsOnce /\ Shape(w)
  BY Ticking
<1>2. snap[w].phase \in Mutations /\ (Call(w) \in inbound \/ made[snap[w].phase] > 0)
  BY <1>1 DEF Shape, Place
<1>3. PICK k \in Mutations : k = snap[w].phase
  BY <1>2
<1>a. PICK c : c = <<w, k>>
  OBVIOUS
<1>4. c = Call(w) /\ c[2] = k
  BY <1>3, <1>a DEF Call
<1>5. made[k] \in Nat
  BY <1>1 DEF TypeOK
<1>6. Spent(k)
  BY <1>2, <1>3, <1>4 DEF Spent
<1>7. c \in inbound => made[k] = 0 /\ \A e \in inbound : e[2] = k => e = c
  BY <1>1, <1>4, <1>5 DEF CallsOnce
<1> QED BY <1>2, <1>3, <1>4, <1>6, <1>7

\* The steps in which a call fails.
LEMMA CallFailsSteps ==
    ASSUME IInv, NEW w \in Workers, CallRejected(w) \/ CallUnsent(w) \/ CallUnknown(w)
    PROVE  IInv'
<1>1. /\ TypeOK /\ CallsOnce /\ snap[w] \in Orders /\ marks[w] \in Marks
      /\ step[w] \notin {"save", "record", "recording"} => Open(marks[w])
  BY Ticking
<1>2. /\ step[w] = "calling" /\ UNCHANGED <<made, shown, ready, vault>>
      /\ Fault \/ Denial
      /\ inbound' = inbound \/ inbound' = inbound \ {Call(w)}
  BY DEF CallRejected, CallUnsent, CallUnknown
<1>3. Open(marks[w])
  BY <1>1, <1>2
<1>4. vault' \in BOOLEAN /\ (vault' => made["credential"] > 0)
  BY <1>1, <1>2 DEF TypeOK, CallsOnce
<1>5. /\ snap[w].phase \in Mutations /\ Spent(snap[w].phase)
      /\ Call(w) \in inbound => made[snap[w].phase] = 0
      /\ Call(w) \in inbound => \A c \in inbound : c[2] = snap[w].phase => c = Call(w)
  BY <1>2, Calling
<1>6. ASSUME Call(w) \in inbound, inbound' = inbound \ {Call(w)}
      PROVE  ~Spent(snap[w].phase)'
  <2>1. PICK k \in Mutations : k = snap[w].phase
    BY <1>5
  <2>2. ~Spent(k)'
    BY <1>2, <1>5, <1>6, <2>1 DEF Spent
  <2>3. snap' = snap
    BY DEF CallRejected, CallUnsent, CallUnknown, Catch, Plan, FromSnap
  <2> QED BY <2>1, <2>2, <2>3
<1>7. CASE CallRejected(w)
  <2>1. PICK ms \in Marks : ms = Settled(w) \cup {"refused"} /\ "unsent" \notin ms
    BY <1>1, <1>3 DEF Marks, Settled, Open
  <2>2. Catch(w, ms, "provider_pending") /\ inbound' = inbound \ {Call(w)}
    BY <1>7, <2>1 DEF CallRejected
  <2>3. CASE snap[w].phase # "credential"
    <3>1. Call(w) \in inbound
      BY <1>7, <2>3 DEF CallRejected
    <3> QED BY <1>2, <1>4, <1>5, <1>6, <2>2, <3>1, CallFails
  <2>4. CASE snap[w].phase = "credential"
    <3>1. AfterError(snap[w], ms) = "none" => snap[w].attempt = "none"
      BY <2>1, <2>4 DEF AfterError
    <3> QED BY <1>2, <1>4, <1>5, <2>2, <3>1, CallFails
  <2> QED BY <2>3, <2>4
<1>8. CASE CallUnsent(w)
  <2>1. PICK ms \in Marks : ms = Settled(w) \cup {"refused", "unsent"}
    BY <1>1 DEF Marks, Settled
  <2>2. Catch(w, ms, "provider_pending") /\ inbound' = inbound \ {Call(w)} /\ Call(w) \in inbound
    BY <1>8, <2>1 DEF CallUnsent
  <2> QED BY <1>2, <1>4, <1>5, <1>6, <2>2, CallFails
<1>9. CASE CallUnknown(w)
  <2>1. PICK ms \in Marks : ms = Settled(w) /\ "refused" \notin ms
    BY <1>1, <1>3 DEF Marks, Settled, Open
  <2>2. Catch(w, ms, "provider_pending")
    BY <1>9, <2>1 DEF CallUnknown
  <2>3. AfterError(snap[w], ms) = "none" => snap[w].attempt = "none"
    BY <2>1 DEF AfterError
  <2> QED BY <1>2, <1>4, <1>5, <2>2, <2>3, CallFails
<1> QED BY <1>7, <1>8, <1>9

\* The key is stored, or its storing fails.
LEMMA KeepSteps ==
    ASSUME IInv, NEW w \in Workers, KeepCredential(w) \/ KeepThrows(w)
    PROVE  IInv'
<1>1. /\ TypeOK /\ CallsOnce /\ snap[w] \in Orders /\ marks[w] \in Marks
      /\ Place(step[w], snap[w])
      /\ step[w] \notin {"save", "record", "recording"} => Open(marks[w])
      /\ draft[w] \in Orders
      /\ "number" \in draft[w].receipts => made["number"] > 0
  BY Ticking
<1>2. /\ step[w] = "keep" /\ UNCHANGED <<made, shown, ready, inbound>>
      /\ vault' \in {vault, TRUE}
  BY DEF KeepCredential, KeepThrows
<1>3. snap[w].phase = "credential" /\ made["credential"] > 0
  BY <1>1, <1>2 DEF Place
<1>4. vault' \in BOOLEAN
  BY <1>1, <1>2 DEF TypeOK
<1>5. Open(marks[w])
  BY <1>1, <1>2
<1>6. CASE KeepCredential(w)
  <2>1. PICK d \in Orders : d = draft[w]
    BY <1>1
  <2>2. /\ Plan(w, "verify", d) /\ UNCHANGED marks /\ UNCHANGED budget
    BY <1>6, <2>1 DEF KeepCredential, To, Quiet
  <2>3. marks' \in [Workers -> Marks] /\ \A v \in Workers : marks'[v] = marks[v]
    BY <1>1, <2>2, Unmarked
  <2>4. Place("verify", snap[w]) /\ "verify" \in Steps \ {"calling", "unclaiming", "recording"}
    BY <1>3 DEF Place, Steps
  <2>5. faults' \in 0..MaxFaults /\ denials' \in 0..MaxDenials
    BY <1>1, <2>2, Bounds
  <2> QED BY <1>1, <1>2, <1>3, <1>4, <1>5, <2>1, <2>2, <2>3, <2>4, <2>5, Plans
<1>7. CASE KeepThrows(w)
  <2>1. Fault /\ Catch(w, marks[w], "provider_pending")
    BY <1>7 DEF KeepThrows
  <2>2. AfterError(snap[w], marks[w]) = "none" => snap[w].attempt = "none"
    BY <1>5 DEF AfterError, Open
  <2>3. Spent(snap[w].phase) /\ snap[w].phase \in Mutations
    BY <1>3 DEF Spent, Mutations
  <2> QED BY <1>1, <1>2, <1>3, <1>4, <2>1, <2>2, <2>3, CallFails
<1> QED BY <1>6, <1>7

\* The last look at the order: the call goes out, or the connection is bound.
LEMMA AuthorizeRecheckedStep ==
    ASSUME IInv, NEW w \in Workers, AuthorizeRechecked(w)
    PROVE  IInv'
<1>1. /\ TypeOK /\ CallsOnce /\ Sound(order) /\ SnapFits(w) /\ ClaimFits(w) /\ snap[w] \in Orders
      /\ Place(step[w], snap[w]) /\ draft[w] \in Orders
      /\ step[w] \notin {"save", "record", "recording"} => Open(marks[w])
      /\ "number" \in snap[w].receipts => made["number"] > 0
      /\ "number" \in draft[w].receipts => made["number"] > 0
  BY Ticking
<1>2. /\ step[w] = "recheck" /\ "snap" \in current[w] /\ order.status # "cancelled"
      /\ UNCHANGED <<marks, made, shown, ready, vault>> /\ UNCHANGED budget
  BY DEF AuthorizeRechecked, Quiet
<1>3. Open(marks[w])
  BY <1>1, <1>2
<1>4. CASE snap[w].phase = "connection" /\ To(w, "bind") /\ UNCHANGED inbound
  <2>1. marks' \in [Workers -> Marks] /\ \A v \in Workers : marks'[v] = marks[v]
    BY <1>1, <1>2, Unmarked
  <2>2. UNCHANGED provider /\ Place("bind", snap[w])
    BY <1>2, <1>4 DEF provider, Place
  <2> QED BY <1>2, <1>3, <1>4, <2>1, <2>2, Walks
<1>5. CASE /\ snap[w].phase # "connection" /\ To(w, "calling")
           /\ inbound' = inbound \cup {<<w, snap[w].phase>>}
  <2>1. PICK k \in Mutations : k = snap[w].phase
    BY <1>1, <1>2, <1>5, OrderFields DEF Place, Phases
  <2>2. Holds(w)
    BY <1>2, <2>1 DEF Holds
  <2>3. order.phase = k /\ order.attempt # "none" /\ ~Spent(k)
    BY <1>1, <2>1, <2>2 DEF ClaimFits
  <2>4. PICK d \in Orders : d = draft[w]
    BY <1>1
  <2>5. Plan(w, "calling", d)
    BY <1>5, <2>4 DEF To
  <2>6. /\ step' \in [Workers -> Steps] /\ draft' \in [Workers -> Orders]
        /\ current' \in [Workers -> SUBSET {"snap", "draft"}]
        /\ step'[w] = "calling" /\ draft'[w] = d
        /\ order' = order /\ snap' = snap /\ tries' = tries
        /\ \A v \in Workers \ {w} :
              step'[v] = step[v] /\ draft'[v] = draft[v] /\ current'[v] = current[v]
    BY <1>1, <2>5, Planned DEF Steps
  <2>7. inbound' = inbound \cup {<<w, k>>}
    BY <1>5, <2>1
  <2>8. faults' = faults /\ denials' = denials
    BY <1>2 DEF budget
  <2>9. TypeOK'
    BY <1>1, <1>2, <2>6, <2>7, <2>8 DEF TypeOK
  <2>10. made[k] \in Nat /\ ~(made[k] > 0) /\ \A c \in inbound : c[2] # k
    BY <1>1, <2>3 DEF TypeOK, Spent
  <2>11. CallsOnce'
    <3>1. \A j \in Mutations : made'[j] > 0 => made'[j] = 1 /\ \A c \in inbound' : c[2] # j
      BY <1>1, <1>2, <2>7, <2>10 DEF CallsOnce
    <3>2. \A c, e \in inbound' : c[2] = e[2] => c = e
      BY <1>1, <2>7, <2>10 DEF CallsOnce
    <3> QED BY <1>1, <1>2, <3>1, <3>2 DEF CallsOnce
  <2>12. \A j \in Mutations : j # k /\ Spent(j)' => Spent(j)
    BY <1>2, <2>7 DEF Spent
  <2>13. Sound(order)'
    BY <1>1, <1>2, <2>3, <2>6, <2>12 DEF Sound, Mutations
  <2>14. ~Holds(w)'
    BY <2>6 DEF Holds
  <2>15. SnapFits(w)'
    <3>1. snap'[w] = snap[w] /\ order' = order
      BY <2>6
    <3> QED BY <1>1, <1>2, <3>1 DEF SnapFits
  <2>16. DraftFits(w)'
    BY <2>6 DEF DraftFits, MayStore
  <2>17. Shape(w)'
    <3>1. Place(step[w], snap[w])'
      BY <2>1, <2>6 DEF Place
    <3>2. Call(w)' \in inbound'
      BY <2>1, <2>6, <2>7 DEF Call
    <3>3. "number" \in snap'[w].receipts \cup draft'[w].receipts => made'["number"] > 0
      BY <1>1, <1>2, <2>4, <2>6
    <3>4. Open(marks[w])'
      BY <1>2, <1>3
    <3> QED BY <3>1, <3>2, <3>3, <3>4 DEF Shape
  <2>18. \A v \in Workers \ {w} : marks'[v] = marks[v] /\ snap'[v] = snap[v]
    BY <1>2, <2>6
  <2>19. \A j \in Mutations : Spent(j)' => Spent(j) \/ (Holds(w) /\ ~Holds(w)')
    BY <2>2, <2>14
  <2>20. \A v \in Workers \ {w}, j \in Mutations :
             <<v, j>> \in inbound => <<v, j>> \in inbound' \/ made'[j] > 0
    BY <2>7
  <2> QED BY <1>2, <2>6, <2>9, <2>11, <2>13, <2>14, <2>15, <2>16, <2>17, <2>18, <2>19, <2>20,
             TickMoves
<1> QED BY <1>4, <1>5 DEF AuthorizeRechecked

---------------------------------------------------------------------------
(* The steps that read and write the order                                 *)

\* A tick moves that calls nothing and leaves the order alone.
LEMMA TickMovesQuietly ==
    ASSUME IInv, TypeOK', NEW w \in Workers, order' = order, UNCHANGED provider,
           \A v \in Workers \ {w} :
               /\ step'[v] = step[v] /\ snap'[v] = snap[v] /\ draft'[v] = draft[v]
               /\ current'[v] = current[v] /\ marks'[v] = marks[v],
           ~Holds(w)', SnapFits(w)', DraftFits(w)', Shape(w)'
    PROVE  IInv'
<1>1. CallsOnce /\ Sound(order)
  BY DEF IInv
<1>2. inbound' = inbound /\ made' = made /\ shown' = shown /\ vault' = vault
  BY DEF provider
<1>3. \A k : Spent(k)' <=> Spent(k)
  BY <1>2 DEF Spent
<1>4. CallsOnce' /\ Sound(order)'
  BY <1>1, <1>2, <1>3 DEF CallsOnce, Sound
<1>5. \A k \in Mutations : Spent(k)' => Spent(k)
  BY <1>3
<1> QED BY <1>2, <1>4, <1>5, TickMoves

\* A tick starts on the stored order.
LEMMA StartStep ==
    ASSUME IInv, NEW w \in Workers, Start(w)
    PROVE  IInv'
<1>1. TypeOK /\ Sound(order) /\ order \in Orders
  BY Ticking
<1>2. /\ order' = order /\ order.status # "cancelled" /\ UNCHANGED provider /\ UNCHANGED budget
      /\ step' = [step EXCEPT ![w] = "look"] /\ draft' = [draft EXCEPT ![w] = order]
      /\ snap' = [snap EXCEPT ![w] = order]
      /\ current' = [current EXCEPT ![w] = {"snap", "draft"}]
      /\ marks' = [marks EXCEPT ![w] = {}] /\ tries' = [tries EXCEPT ![w] = 0]
  BY DEF Start, Go, Quiet
<1>3. PICK o \in Orders : o = order
  BY <1>1
<1>4. /\ inbound' = inbound /\ made' = made /\ shown' = shown /\ ready' = ready
      /\ vault' = vault /\ faults' = faults /\ denials' = denials
  BY <1>2 DEF provider, budget
<1>5. /\ step' \in [Workers -> Steps] /\ draft' \in [Workers -> Orders]
      /\ snap' \in [Workers -> Orders] /\ tries' \in [Workers -> 0..2]
      /\ current' \in [Workers -> SUBSET {"snap", "draft"}]
      /\ marks' \in [Workers -> SUBSET {"refused", "unsent", "settled", "threw"}]
      /\ step'[w] = "look" /\ draft'[w] = o /\ snap'[w] = o /\ marks'[w] = {}
  BY <1>1, <1>2, <1>3 DEF TypeOK, Steps
<1>6. TypeOK'
  BY <1>1, <1>2, <1>4, <1>5 DEF TypeOK
<1>7. \A v \in Workers \ {w} :
          /\ step'[v] = step[v] /\ snap'[v] = snap[v] /\ draft'[v] = draft[v]
          /\ current'[v] = current[v] /\ marks'[v] = marks[v]
  BY <1>1, <1>2 DEF TypeOK
<1>8. SnapFits(w)' /\ DraftFits(w)' /\ ~Holds(w)'
  BY <1>2, <1>3, <1>5 DEF SnapFits, DraftFits, MayStore, Holds
<1>9. Shape(w)'
  <2>1. "number" \in o.receipts => made'["number"] > 0
    BY <1>1, <1>3, <1>4 DEF Sound
  <2> QED BY <1>5, <2>1 DEF Shape, Place, Open
<1> QED BY <1>2, <1>6, <1>7, <1>8, <1>9, TickMovesQuietly

\* A row made of the order that was just read is planned.
LEMMA Reads ==
    ASSUME IInv, NEW w \in Workers, NEW s \in {"unclaiming", "recording", "record"},
           NEW d \in Orders, Go(w, s, d),
           NEW cs \in SUBSET {"snap", "draft"}, current' = [current EXCEPT ![w] = cs],
           ("snap" \in cs) => ("snap" \in current[w]),
           NEW n \in 0..2, tries' = [tries EXCEPT ![w] = n],
           UNCHANGED <<order, snap, marks, provider>>, UNCHANGED budget,
           s = "unclaiming" => Open(marks[w]) /\ d.status # "cancelled",
           "number" \in d.receipts => made["number"] > 0,
           s # "record" => Follows(w, d)
    PROVE  IInv'
<1>2. /\ step' \in [Workers -> Steps] /\ draft' \in [Workers -> Orders]
      /\ current' \in [Workers -> SUBSET {"snap", "draft"}] /\ tries' \in [Workers -> 0..2]
      /\ step'[w] = s /\ draft'[w] = d /\ current'[w] = cs
      /\ \A v \in Workers \ {w} :
            step'[v] = step[v] /\ draft'[v] = draft[v] /\ current'[v] = current[v]
  BY DEF IInv, TypeOK, Go, Steps
<1>3. /\ inbound' = inbound /\ made' = made /\ shown' = shown /\ ready' = ready
      /\ vault' = vault /\ faults' = faults /\ denials' = denials
  BY DEF provider, budget
<1>4. TypeOK'
  BY <1>2, <1>3 DEF IInv, TypeOK
<1>5. SnapFits(w)' /\ ~Holds(w)'
  BY <1>2 DEF IInv, SnapFits, Holds
<1>6. DraftFits(w)'
  <2> SUFFICES ASSUME s # "record" PROVE DraftFits(w)'
    BY <1>2 DEF DraftFits, MayStore
  <2>1. Sound(d)'
    BY <1>3, SoundKept DEF Follows, Spent
  <2>2. \A v \in Workers \ {w} : Holds(v)' <=> Holds(v)
    BY <1>2 DEF Holds
  <2>3. d.attempt = "none" => \A v \in Workers \ {w} : ~Holds(v)'
    BY <2>2 DEF Follows
  <2>4. Follows(w, d)'
    BY <2>1, <2>3 DEF Follows
  <2> QED BY <1>2, <2>4 DEF DraftFits
<1>7. Shape(w)'
  <2>1. "number" \in snap[w].receipts => made["number"] > 0
    BY Ticking
  <2> QED BY <1>2, <1>3, <2>1 DEF Shape, Place
<1> QED BY <1>2, <1>4, <1>5, <1>6, <1>7, TickMovesQuietly

\* releaseClaim drafts the stored order without its attempt.
LEMMA UnclaimReadStep ==
    ASSUME IInv, NEW w \in Workers, UnclaimRead(w)
    PROVE  IInv'
<1>1. /\ TypeOK /\ Sound(order) /\ order \in Orders /\ ClaimFits(w) /\ Place(step[w], snap[w])
      /\ current[w] \subseteq {"snap", "draft"}
      /\ step[w] \notin {"save", "record", "recording"} => Open(marks[w])
  BY Ticking DEF TypeOK
<1>2. /\ step[w] = "unclaim" /\ order.status # "cancelled" /\ UNCHANGED budget
      /\ UNCHANGED <<order, snap, marks, provider>> /\ tries' = tries
      /\ current' = [current EXCEPT ![w] = current[w] \cup {"draft"}]
  BY DEF UnclaimRead, Quiet
<1>3. PICK d : d = Order(order.phase, "none", order.status, order.waiting, order.receipts)
  OBVIOUS
<1>4. /\ d \in Orders /\ d.phase = order.phase /\ d.attempt = "none"
      /\ d.status = order.status /\ d.receipts = order.receipts
  BY <1>1, <1>3 DEF Order, Orders, Attempts
<1>5. Go(w, "unclaiming", d)
  BY <1>3 DEF UnclaimRead
<1>6. PICK cs \in SUBSET {"snap", "draft"} : cs = current[w] \cup {"draft"}
  BY <1>1
<1>7. Holds(w)
  BY <1>1, <1>2 DEF Holds, Place
<1>8. ~Spent(order.phase) /\ \A v \in Workers \ {w} : ~Holds(v)
  BY <1>1, <1>7 DEF ClaimFits
<1>9. Follows(w, d)
  <2>1. Sound(d)
    BY <1>1, <1>4, <1>8 DEF Sound
  <2> QED BY <1>4, <1>8, <2>1 DEF Follows
<1>10. PICK n \in 0..2 : n = tries[w] /\ tries' = [tries EXCEPT ![w] = n]
  BY <1>1, <1>2 DEF TypeOK
<1>11. "number" \in d.receipts => made["number"] > 0
  BY <1>1, <1>4 DEF Sound
<1>12. Open(marks[w])
  BY <1>1, <1>2
<1> QED BY <1>2, <1>4, <1>5, <1>6, <1>9, <1>10, <1>11, <1>12, Reads

\* recordReceipt adds what the tick drafted to the receipts of the stored order.
LEMMA RecordReadStep ==
    ASSUME IInv, NEW w \in Workers, RecordRead(w)
    PROVE  IInv'
<1>1. /\ TypeOK /\ Sound(order) /\ order \in Orders /\ draft[w] \in Orders
      /\ "number" \in draft[w].receipts => made["number"] > 0
  BY Ticking
<1>2. /\ UNCHANGED budget
      /\ UNCHANGED <<order, snap, marks, provider>> /\ tries' = tries
      /\ current' = [current EXCEPT ![w] = {"draft"}]
  BY DEF RecordRead, Quiet
<1>3. PICK d : d = Order(order.phase, order.attempt, order.status, order.waiting,
                         order.receipts \cup draft[w].receipts)
  OBVIOUS
<1>4. /\ d \in Orders /\ d.phase = order.phase /\ d.attempt = order.attempt
      /\ d.status = order.status /\ d.receipts = order.receipts \cup draft[w].receipts
  BY <1>1, <1>3 DEF Order, Orders
<1>5. Go(w, "recording", d)
  BY <1>3 DEF RecordRead
<1>6. "number" \in d.receipts => made["number"] > 0
  BY <1>1, <1>4 DEF Sound
<1>7. d.attempt = "none" => \A v \in Workers : ~Holds(v)
  BY <1>4 DEF IInv, ClaimFits
<1>8. Follows(w, d)
  <2>1. Sound(d)
    BY <1>1, <1>4, <1>6 DEF Sound
  <2> QED BY <1>4, <1>7, <2>1 DEF Follows
<1>9. PICK n \in 0..2 : n = tries[w] /\ tries' = [tries EXCEPT ![w] = n]
  BY <1>1, <1>2 DEF TypeOK
<1> QED BY <1>2, <1>4, <1>5, <1>6, <1>8, <1>9, Reads

\* recordReceipt lost and reads again, or gives up.
LEMMA RecordLostStep ==
    ASSUME IInv, NEW w \in Workers, RecordLost(w)
    PROVE  IInv'
<1>1. CASE tries[w] = 2
  BY <1>1, ReturnSteps
<1>2. CASE tries[w] # 2
  <2>1. /\ TypeOK /\ draft[w] \in Orders
        /\ "number" \in draft[w].receipts => made["number"] > 0
    BY Ticking
  <2>2. /\ UNCHANGED budget /\ UNCHANGED provider
        /\ UNCHANGED <<order, snap, marks, current>>
        /\ tries[w] < 2 /\ tries' = [tries EXCEPT ![w] = @ + 1]
        /\ Go(w, "record", draft[w])
    BY <1>2 DEF RecordLost, Quiet
  <2>3. PICK d \in Orders : d = draft[w]
    BY <2>1
  <2>4. PICK cs \in SUBSET {"snap", "draft"} : cs = current[w]
    BY <2>1 DEF TypeOK
  <2>5. current' = [current EXCEPT ![w] = cs]
    BY <2>1, <2>2, <2>4 DEF TypeOK
  <2>6. tries[w] \in 0..2
    BY <2>1 DEF TypeOK
  <2>7. PICK n \in 0..2 : n = tries[w] + 1
    BY <2>2, <2>6
  <2>8. tries' = [tries EXCEPT ![w] = n]
    BY <2>2, <2>7
  <2>9. Go(w, "record", d)
    BY <2>2, <2>3
  <2> QED BY <2>1, <2>2, <2>3, <2>4, <2>5, <2>7, <2>8, <2>9, Reads
<1> QED BY <1>1, <1>2

\* What saveIfVersion changes.
LEMMA Storing ==
    ASSUME TypeOK, NEW w \in Workers, NEW cs \in SUBSET {"snap", "draft"}, Store(w, cs)
    PROVE  /\ "draft" \in current[w] /\ order' = draft[w] /\ order' \in Orders
           /\ current' \in [Workers -> SUBSET {"snap", "draft"}]
           /\ current'[w] = cs /\ \A v \in Workers \ {w} : current'[v] = {}
BY DEF TypeOK, Store

\* A tick saves and returns.
LEMMA SavesAndReturns ==
    ASSUME IInv, NEW w \in Workers, Store(w, {}), Forget(w), UNCHANGED provider,
           UNCHANGED budget,
           step[w] \in {"deny", "save", "unclaiming", "recording"}
    PROVE  IInv'
<1>1. TypeOK
  BY DEF IInv
<1>2. PICK cs \in SUBSET {"snap", "draft"} : cs = {}
  OBVIOUS
<1>3. Store(w, cs)
  BY <1>2
<1>4. /\ "draft" \in current[w] /\ order' = draft[w] /\ order' \in Orders
      /\ current' \in [Workers -> SUBSET {"snap", "draft"}]
      /\ current'[w] = cs /\ \A v \in Workers \ {w} : current'[v] = {}
  BY <1>1, <1>3, Storing
<1>5. /\ NewOrder \in Orders /\ NewOrder.receipts = {} /\ NewOrder.phase = "identity"
  BY NewOrderMade
<1>6. /\ step' \in [Workers -> Steps] /\ draft' \in [Workers -> Orders]
      /\ snap' \in [Workers -> Orders] /\ tries' \in [Workers -> 0..2]
      /\ marks' \in [Workers -> Marks]
      /\ step'[w] = "idle" /\ draft'[w] = NewOrder /\ snap'[w] = NewOrder /\ marks'[w] = {}
  BY <1>1, <1>5 DEF TypeOK, Forget, Go, Steps, Marks
<1>7. \A v \in Workers \ {w} :
          /\ step'[v] = step[v] /\ snap'[v] = snap[v] /\ draft'[v] = draft[v]
          /\ marks'[v] = marks[v]
  BY <1>1 DEF TypeOK, Forget, Go
<1>8. /\ inbound' = inbound /\ made' = made /\ shown' = shown /\ ready' = ready
      /\ vault' = vault /\ faults' = faults /\ denials' = denials
  BY DEF provider, budget
<1>9. TypeOK'
  BY <1>1, <1>4, <1>6, <1>8 DEF TypeOK, Marks
<1>10. MayStore(w)
  BY <1>4 DEF MayStore
<1>11. SnapFits(w)' /\ DraftFits(w)' /\ Shape(w)' /\ ~Holds(w)'
  BY <1>2, <1>4, <1>5, <1>6 DEF SnapFits, DraftFits, MayStore, Shape, Place, Open, Holds
<1> QED BY <1>4, <1>7, <1>8, <1>9, <1>10, <1>11, SaveMoves

\* A tick saves and goes on with what it saved.
LEMMA SavesAndGoesOn ==
    ASSUME IInv, NEW w \in Workers, NEW o \in Orders, o = draft[w], Stored(w),
           NEW s \in {"authorize", "unclaim", "save"}, NEW d \in Orders, Go(w, s, d),
           snap' = [snap EXCEPT ![w] = draft[w]], tries' = tries,
           marks' \in [Workers -> Marks], \A v \in Workers \ {w} : marks'[v] = marks[v],
           UNCHANGED provider, UNCHANGED budget,
           step[w] \in {"claim", "deny", "unclaiming"},
           s # "save" =>
               /\ o.phase \in Mutations /\ o.attempt # "none" /\ ~Spent(o.phase)
               /\ Open(marks'[w]) /\ \A v \in Workers \ {w} : ~Holds(v),
           s = "save" => d.phase = o.phase /\ d.attempt = o.attempt,
           d.receipts = o.receipts
    PROVE  IInv'
<1>1. /\ TypeOK /\ DraftFits(w)
      /\ "number" \in draft[w].receipts => made["number"] > 0
  BY Ticking
<1>2. PICK cs \in SUBSET {"snap", "draft"} : cs = {"snap", "draft"}
  OBVIOUS
<1>3. Store(w, cs)
  BY <1>2 DEF Stored
<1>4. /\ "draft" \in current[w] /\ order' = o
      /\ current' \in [Workers -> SUBSET {"snap", "draft"}]
      /\ current'[w] = cs /\ \A v \in Workers \ {w} : current'[v] = {}
  BY <1>1, <1>3, Storing
<1>5. /\ step' \in [Workers -> Steps] /\ draft' \in [Workers -> Orders]
      /\ snap' \in [Workers -> Orders]
      /\ step'[w] = s /\ draft'[w] = d /\ snap'[w] = o
  BY <1>1 DEF TypeOK, Go, Steps
<1>6. \A v \in Workers \ {w} :
          /\ step'[v] = step[v] /\ snap'[v] = snap[v] /\ draft'[v] = draft[v]
          /\ marks'[v] = marks[v]
  BY <1>1 DEF TypeOK, Go
<1>7. /\ inbound' = inbound /\ made' = made /\ shown' = shown /\ ready' = ready
      /\ vault' = vault /\ faults' = faults /\ denials' = denials
  BY DEF provider, budget
<1>8. TypeOK'
  BY <1>1, <1>4, <1>5, <1>7 DEF TypeOK, Marks
<1>9. MayStore(w) /\ Follows(w, o) /\ o.status # "cancelled"
  BY <1>1, <1>4 DEF MayStore, DraftFits
<1>10. SnapFits(w)'
  BY <1>4, <1>5, <1>9 DEF SnapFits
<1>11. DraftFits(w)'
  <2> SUFFICES ASSUME s = "save" PROVE DraftFits(w)'
    BY <1>5 DEF DraftFits, MayStore
  <2>1. Sound(o)'
    BY <1>7, <1>9, SoundKept DEF Follows, Spent
  <2>2. Sound(d)'
    BY <2>1 DEF Sound
  <2>3. \A v \in Workers \ {w} : Holds(v)' <=> Holds(v)
    BY <1>6 DEF Holds
  <2>4. d.attempt = "none" => \A v \in Workers \ {w} : ~Holds(v)'
    BY <1>9, <2>3 DEF Follows
  <2>5. Follows(w, d)'
    BY <1>4, <1>9, <2>2, <2>4 DEF Follows
  <2> QED BY <1>5, <2>5 DEF DraftFits
<1>12. Shape(w)'
  <2>1. "number" \in o.receipts => made["number"] > 0
    BY <1>1
  <2>2. Place(step[w], snap[w])'
    BY <1>5 DEF Place, Mutations
  <2>3. step'[w] \notin {"save", "record", "recording"} => Open(marks'[w])
    BY <1>5
  <2> QED BY <1>5, <1>7, <2>1, <2>2, <2>3 DEF Shape
<1>13. Holds(w)' => s # "save"
  BY <1>5 DEF Holds
<1> QED BY <1>4, <1>5, <1>6, <1>7, <1>8, <1>9, <1>10, <1>11, <1>12, <1>13, SaveMoves

\* The journal entry is written, and is the only one.
LEMMA ClaimSavedStep ==
    ASSUME IInv, NEW w \in Workers, ClaimSaved(w)
    PROVE  IInv'
<1>1. /\ TypeOK /\ DraftFits(w) /\ draft[w] \in Orders
      /\ step[w] \notin {"save", "record", "recording"} => Open(marks[w])
  BY Ticking
<1>2. /\ step[w] = "claim" /\ Stored(w) /\ Go(w, "authorize", draft[w]) /\ UNCHANGED budget
      /\ snap' = [snap EXCEPT ![w] = draft[w]] /\ tries' = tries /\ UNCHANGED provider
      /\ UNCHANGED marks
  BY DEF ClaimSaved, Quiet
<1>3. PICK o \in Orders : o = draft[w]
  BY <1>1
<1>4. MayStore(w)
  BY <1>2 DEF MayStore, Stored, Store
<1>5. /\ order.attempt = "none" /\ o.attempt # "none" /\ o.phase \in Mutations /\ ~Spent(o.phase)
  BY <1>1, <1>2, <1>3, <1>4 DEF DraftFits
<1>6. \A v \in Workers : ~Holds(v)
  BY <1>5 DEF IInv, ClaimFits
<1>7. marks' \in [Workers -> Marks] /\ \A v \in Workers : marks'[v] = marks[v]
  BY <1>1, <1>2, Unmarked
<1>8. Open(marks'[w])
  BY <1>1, <1>2
<1> QED BY <1>2, <1>3, <1>5, <1>6, <1>7, <1>8, SavesAndGoesOn

\* The denial is saved; the entry is still to be given back.
LEMMA DenySavedStep ==
    ASSUME IInv, NEW w \in Workers, DenySaved(w)
    PROVE  IInv'
<1>1. /\ TypeOK /\ DraftFits(w) /\ ClaimFits(w) /\ draft[w] \in Orders /\ snap[w] \in Orders
      /\ Place(step[w], snap[w])
      /\ step[w] \notin {"save", "record", "recording"} => Open(marks[w])
  BY Ticking
<1>2. step[w] = "deny" /\ UNCHANGED provider /\ UNCHANGED budget
  BY DEF DenySaved, Quiet
<1>3. CASE Store(w, {}) /\ Forget(w)
  BY <1>2, <1>3, SavesAndReturns
<1>4. CASE /\ snap[w].phase # "connection" /\ Stored(w) /\ Go(w, "unclaim", draft[w])
           /\ snap' = [snap EXCEPT ![w] = draft[w]] /\ UNCHANGED <<marks, tries>>
  <2>1. PICK o \in Orders : o = draft[w]
    BY <1>1
  <2>2. MayStore(w)
    BY <1>2, <1>4 DEF MayStore, Stored, Store
  <2>3. o.attempt # "none" /\ o.phase = order.phase
    BY <1>1, <1>2, <1>4, <2>1, <2>2 DEF DraftFits, Follows
  <2>4. Holds(w)
    BY <1>1, <1>2, <1>4, OrderFields DEF Holds, Place, Phases
  <2>5. /\ o.phase \in Mutations /\ ~Spent(o.phase) /\ \A v \in Workers \ {w} : ~Holds(v)
    BY <1>1, <2>3, <2>4 DEF ClaimFits, Holds
  <2>6. marks' \in [Workers -> Marks] /\ \A v \in Workers : marks'[v] = marks[v]
    BY <1>1, <1>4, Unmarked
  <2>7. Open(marks'[w])
    BY <1>1, <1>2, <1>4
  <2> QED BY <1>2, <1>4, <2>1, <2>3, <2>5, <2>6, <2>7, SavesAndGoesOn
<1> QED BY <1>3, <1>4 DEF DenySaved

\* The entry is given back.
LEMMA UnclaimSavedStep ==
    ASSUME IInv, NEW w \in Workers, UnclaimSaved(w)
    PROVE  IInv'
<1>1. /\ TypeOK /\ draft[w] \in Orders /\ marks[w] \in Marks
  BY Ticking
<1>2. step[w] = "unclaiming" /\ UNCHANGED provider /\ UNCHANGED budget
  BY DEF UnclaimSaved, Quiet
<1>3. CASE Store(w, {}) /\ Forget(w)
  BY <1>2, <1>3, SavesAndReturns
<1>4. CASE /\ Stored(w) /\ Go(w, "save", Pending(draft[w])) /\ UNCHANGED tries
           /\ snap' = [snap EXCEPT ![w] = draft[w]]
           /\ marks' = [marks EXCEPT ![w] = marks[w] \ {"threw"}]
  <2>1. PICK o \in Orders : o = draft[w]
    BY <1>1
  <2>2. PICK d \in Orders : d = Pending(o) /\ d.phase = o.phase /\ d.attempt = o.attempt
                            /\ d.receipts = o.receipts
    BY Rows
  <2>3. Go(w, "save", d)
    BY <1>4, <2>1, <2>2
  <2>4. PICK ms \in Marks : ms = marks[w] \ {"threw"}
    BY <1>1 DEF Marks
  <2>5. marks' \in [Workers -> Marks] /\ \A v \in Workers \ {w} : marks'[v] = marks[v]
    BY <1>1, <1>4, <2>4, Marked
  <2> QED BY <1>2, <1>4, <2>1, <2>2, <2>3, <2>5, SavesAndGoesOn
<1> QED BY <1>3, <1>4 DEF UnclaimSaved

\* The row is saved, or its receipts are added.
LEMMA SavedSteps ==
    ASSUME IInv, NEW w \in Workers, Saved(w) \/ Recorded(w)
    PROVE  IInv'
<1>1. /\ Store(w, {}) /\ Forget(w) /\ UNCHANGED provider /\ UNCHANGED budget
      /\ step[w] \in {"save", "recording"}
  BY DEF Saved, Recorded, Quiet
<1> QED BY <1>1, SavesAndReturns

---------------------------------------------------------------------------
(* The environment                                                         *)

\* The provider executes a call: once, since it is on its way once.
LEMMA ExecuteStep ==
    ASSUME IInv, NEW c \in inbound, Execute(c)
    PROVE  IInv'
<1>1. TypeOK /\ CallsOnce
  BY DEF IInv
<1>2. PICK k \in Mutations : k = c[2] /\ c \in Workers \X Mutations
  BY <1>1 DEF TypeOK
<1>3. /\ inbound' = inbound \ {c} /\ made' = [made EXCEPT ![k] = @ + 1]
      /\ shown' = shown \/ (shown' = shown \cup {k} /\ k \in Receipts)
      /\ UNCHANGED <<order, ticks, ready, vault>> /\ UNCHANGED budget
  BY <1>2 DEF Execute, Quiet, Receipts
<1>4. made[k] = 0
  BY <1>1, <1>2 DEF TypeOK, CallsOnce
<1>5. /\ made' \in [Mutations -> Nat] /\ made'[k] = 1
      /\ \A j \in Mutations : j # k => made'[j] = made[j]
  BY <1>1, <1>3, <1>4 DEF TypeOK
<1>6. /\ order' = order /\ step' = step /\ snap' = snap /\ draft' = draft /\ tries' = tries
      /\ current' = current /\ marks' = marks /\ faults' = faults /\ denials' = denials
  BY <1>3 DEF ticks, budget
<1>7. TypeOK'
  BY <1>1, <1>3, <1>5, <1>6 DEF TypeOK
<1>8. CallsOnce'
  <2>1. \A e \in inbound' : e \in inbound /\ e[2] # k
    BY <1>1, <1>2, <1>3 DEF CallsOnce
  <2>2. \A j \in Mutations : made'[j] > 0 => made'[j] = 1 /\ \A e \in inbound' : e[2] # j
    BY <1>1, <1>5, <2>1 DEF CallsOnce
  <2>3. \A j \in shown' : made'[j] > 0
    <3>1. shown \subseteq Mutations
      BY <1>1 DEF TypeOK, Receipts, Mutations
    <3> QED BY <1>1, <1>3, <1>5, <3>1 DEF CallsOnce
  <2>4. vault' => made'["credential"] > 0
    BY <1>1, <1>3, <1>5 DEF CallsOnce, Mutations
  <2> QED BY <1>1, <2>1, <2>2, <2>3, <2>4 DEF CallsOnce
<1>9. \A j \in Mutations : made[j] > 0 => made'[j] > 0
  BY <1>5
<1>10. \A j \in Mutations : Spent(j)' => Spent(j)
  BY <1>2, <1>3, <1>5 DEF Spent
<1>11. \A v \in Workers, j \in Mutations :
           <<v, j>> \in inbound => <<v, j>> \in inbound' \/ made'[j] > 0
  BY <1>2, <1>3, <1>5
<1> QED BY <1>3, <1>7, <1>8, <1>9, <1>10, <1>11, ProviderMoves

\* What the provider shows changes; a line it attaches was claimed.
LEMMA ShowSteps ==
    ASSUME IInv, LineAppears \/ \E r \in Receipts : Vanish(r)
    PROVE  IInv'
<1>1. TypeOK /\ CallsOnce
  BY DEF IInv
<1>2. /\ UNCHANGED <<order, ticks, vault>> /\ inbound' = inbound /\ made' = made
      /\ ready' \in BOOLEAN /\ shown' \subseteq Receipts
      /\ \A k \in shown' : made[k] > 0
      /\ UNCHANGED budget \/ Fault
  <2>1. CASE LineAppears
    BY <1>1, <2>1 DEF LineAppears, Quiet, TypeOK, CallsOnce, Receipts
  <2>2. CASE \E r \in Receipts : Vanish(r)
    BY <1>1, <2>2 DEF Vanish, TypeOK, CallsOnce
  <2> QED BY <2>1, <2>2
<1>3. faults' \in 0..MaxFaults /\ denials' \in 0..MaxDenials
  BY <1>1, <1>2, Bounds
<1>4. /\ order' = order /\ step' = step /\ snap' = snap /\ draft' = draft /\ tries' = tries
      /\ current' = current /\ marks' = marks /\ vault' = vault
  BY <1>2 DEF ticks
<1>5. TypeOK'
  BY <1>1, <1>2, <1>3, <1>4 DEF TypeOK
<1>6. CallsOnce'
  BY <1>1, <1>2, <1>4 DEF CallsOnce
<1>7. \A k \in Mutations : Spent(k)' => Spent(k)
  BY <1>2 DEF Spent
<1> QED BY <1>2, <1>5, <1>6, <1>7, ProviderMoves

\* The clock moves.
LEMMA ClockSteps ==
    ASSUME IInv, Due \/ Overdue \/ Stall
    PROVE  IInv'
<1>1. TypeOK /\ order \in Orders
  BY DEF IInv, TypeOK
<1>2. /\ UNCHANGED <<ticks, provider>>
      /\ UNCHANGED budget \/ Fault
  BY DEF Due, Overdue, Stall, Clock, Quiet
<1>3. /\ order' \in Orders /\ order'.phase = order.phase /\ order'.receipts = order.receipts
      /\ order'.status = order.status
      /\ (order'.attempt = "none") <=> (order.attempt = "none")
  <2>1. CASE Due
    BY <1>1, <2>1 DEF Due, Clock, Order, Orders
  <2>2. CASE Overdue \/ Stall
    BY <1>1, <2>2 DEF Overdue, Stall, Clock, Order, Orders, Attempts
  <2> QED BY <2>1, <2>2
<1>4. faults' \in 0..MaxFaults /\ denials' \in 0..MaxDenials
  BY <1>1, <1>2, Bounds
<1>5. /\ step' = step /\ snap' = snap /\ draft' = draft /\ tries' = tries
      /\ current' = current /\ marks' = marks /\ vault' = vault /\ ready' = ready
      /\ inbound' = inbound /\ made' = made /\ shown' = shown
  BY <1>2 DEF ticks, provider
<1>6. TypeOK'
  BY <1>1, <1>3, <1>4, <1>5 DEF TypeOK
<1> QED BY <1>3, <1>5, <1>6, OrderMoves

\* The host cancels the order: every copy of it is outdated.
LEMMA CancelStep ==
    ASSUME IInv, Cancel
    PROVE  IInv'
<1>1. TypeOK /\ order \in Orders
  BY DEF IInv, TypeOK
<1>2. /\ UNCHANGED <<step, snap, draft, marks, tries, provider>> /\ UNCHANGED budget
      /\ current' = [w \in Workers |-> {}]
  BY DEF Cancel, Quiet
<1>3. /\ order' \in Orders /\ order'.phase = order.phase /\ order'.receipts = order.receipts
      /\ order'.attempt = order.attempt
  BY <1>1 DEF Cancel, Order, Orders, Statuses
<1>4. /\ vault' = vault /\ ready' = ready /\ inbound' = inbound /\ made' = made
      /\ shown' = shown /\ faults' = faults /\ denials' = denials
  BY <1>2 DEF provider, budget
<1>5. TypeOK'
  BY <1>1, <1>2, <1>3, <1>4 DEF TypeOK
<1> QED BY <1>2, <1>3, <1>4, <1>5, OrderMoves

---------------------------------------------------------------------------
(* The invariant                                                           *)

\* Nothing happens.
LEMMA NothingHappens ==
    ASSUME IInv, UNCHANGED vars
    PROVE  IInv'
<1>1. /\ order' = order /\ UNCHANGED ticks /\ UNCHANGED provider /\ UNCHANGED budget
  BY DEF vars
<1>2. /\ TypeOK /\ CallsOnce /\ order \in Orders
  BY DEF IInv, TypeOK
<1>3. /\ step' = step /\ snap' = snap /\ draft' = draft /\ tries' = tries
      /\ current' = current /\ marks' = marks /\ vault' = vault /\ ready' = ready
      /\ inbound' = inbound /\ made' = made /\ shown' = shown
      /\ faults' = faults /\ denials' = denials
  BY <1>1 DEF ticks, provider, budget
<1>4. TypeOK'
  BY <1>1, <1>2, <1>3 DEF TypeOK
<1> QED BY <1>1, <1>3, <1>4, OrderMoves

\* A step of a tick.
LEMMA TickStep ==
    ASSUME IInv, NEW w \in Workers, Tick(w) \/ Trouble(w)
    PROVE  IInv'
<1>1. CASE \/ Start(w) \/ LeaseBusy(w) \/ LeaseBurned(w) \/ LeaseClaim(w)
           \/ IdentityForeign(w) \/ IdentityFound(w) \/ SomethingMissing(w)
           \/ LinePending(w) \/ NumberFound(w) \/ LineConfirmed(w) \/ VaultRead(w)
  BY <1>1, StartStep, ReturnSteps, ReviewSteps, LeaseClaimStep, IdentityFoundStep,
     NumberFoundStep, WalkSteps
<1>2. CASE \/ ClaimSaved(w) \/ ClaimLost(w)
           \/ AuthorizeStale(w) \/ AuthorizeGranted(w) \/ AuthorizeRechecked(w)
           \/ DenySaved(w) \/ DenyLost(w)
           \/ UnclaimNothing(w) \/ UnclaimRead(w) \/ UnclaimSaved(w) \/ UnclaimLost(w)
  BY <1>2, ClaimSavedStep, ReturnSteps, NotGrantedStep, WalkSteps, AuthorizeRecheckedStep,
     DenySavedStep, ClaimOverStep, UnclaimReadStep, UnclaimSavedStep
<1>3. CASE \/ CallReturns(w) \/ ReceiptRead(w) \/ KeepCredential(w) \/ Verified(w)
           \/ Bound(w)
           \/ Saved(w) \/ SaveLost(w) \/ RecordNothing(w) \/ RecordRead(w)
           \/ Recorded(w) \/ RecordLost(w)
  BY <1>3, CallReturnsStep, NumberFoundStep, KeepSteps, PhaseEnds, SavedSteps, WalkSteps,
     ReturnSteps, RecordReadStep, RecordLostStep
<1>4. CASE Trouble(w)
  BY <1>4, AuthorizeDeniedStep, AuthorizeThrowsStep, ReadThrowsStep, CallFailsSteps, KeepSteps,
     ReturnSteps DEF Trouble
<1> QED BY <1>1, <1>2, <1>3, <1>4 DEF Tick

\* Every step keeps the invariant.
LEMMA InvariantStep == IInv /\ [Next]_vars => IInv'
<1> SUFFICES ASSUME IInv, [Next]_vars PROVE IInv'
  OBVIOUS
<1>1. CASE \E w \in Workers : Tick(w) \/ Trouble(w)
  BY <1>1, TickStep
<1>2. CASE \E c \in inbound : Execute(c)
  BY <1>2, ExecuteStep
<1>3. CASE LineAppears \/ \E r \in Receipts : Vanish(r)
  BY <1>3, ShowSteps
<1>4. CASE Due \/ Overdue \/ Stall
  BY <1>4, ClockSteps
<1>5. CASE Cancel
  BY <1>5, CancelStep
<1>6. CASE UNCHANGED vars
  BY <1>6, NothingHappens
<1> QED BY <1>1, <1>2, <1>3, <1>4, <1>5, <1>6 DEF Next

\* The invariant always holds.
LEMMA Invariant == Spec => []IInv
BY InitEstablishes, InvariantStep, PTL DEF Spec

\* The stored order, the ticks and the provider keep their shapes.
THEOREM NumberTypeCorrect == Spec => []TypeOK
<1>1. IInv => TypeOK
  BY DEF IInv
<1> QED BY <1>1, Invariant, PTL

\* advanceManagedNumber never has the provider execute the call of a phase
\* twice: no second identity, number or key, for any number of ticks, lost
\* answers, late executions, refusals, crashes and stalls.
THEOREM BoughtOnce == Spec => []NothingBoughtTwice
<1>1. IInv => NothingBoughtTwice
  BY DEF IInv, TypeOK, CallsOnce, NothingBoughtTwice
<1> QED BY <1>1, Invariant, PTL

\* The order says that its call was attempted for as long as it may still be
\* executed: releaseClaim and the catch block never take back such an entry.
THEOREM SentCallsAreJournaled == Spec => []CallsAreJournaled
<1>1. ASSUME IInv PROVE CallsAreJournaled
  <2> SUFFICES ASSUME NEW c \in inbound, order.phase = c[2], order.attempt = "none"
               PROVE  FALSE
    BY DEF CallsAreJournaled
  <2>1. CallsOnce /\ Sound(order) /\ c[2] \in Mutations
    BY <1>1 DEF IInv, TypeOK
  <2>2. Spent(order.phase) /\ order.phase \in Mutations
    BY <2>1 DEF Spent
  <2>3. order.phase = "number" /\ made["number"] > 0
    BY <2>1, <2>2 DEF Sound
  <2> QED BY <2>1, <2>2, <2>3 DEF CallsOnce
<1> QED BY <1>1, Invariant, PTL

---------------------------------------------------------------------------
(* What the stored order never loses                                       *)

\* A tick leaves the order alone or replaces it by what it has drafted, and
\* moves no other tick.
LEMMA TickTouches ==
    ASSUME IInv, NEW w \in Workers, Tick(w) \/ Trouble(w)
    PROVE  /\ order' = order \/ (MayStore(w) /\ order' = draft[w])
           /\ \A v \in Workers \ {w} : step'[v] = step[v]
<1>1. step \in [Workers -> Steps]
  BY DEF IInv, TypeOK
<1>2. ASSUME NEW s, NEW d, Go(w, s, d) PROVE \A v \in Workers \ {w} : step'[v] = step[v]
  BY <1>1, <1>2 DEF Go
<1>3. ASSUME NEW s, NEW d, Plan(w, s, d)
      PROVE  order' = order /\ \A v \in Workers \ {w} : step'[v] = step[v]
  BY <1>2, <1>3 DEF Plan, FromSnap
<1>4. Forget(w) => \A v \in Workers \ {w} : step'[v] = step[v]
  BY <1>2 DEF Forget
<1>5. Return(w) => order' = order /\ \A v \in Workers \ {w} : step'[v] = step[v]
  BY <1>4 DEF Return
<1>6. CASE \/ LeaseBurned(w) \/ LeaseClaim(w) \/ IdentityForeign(w) \/ IdentityFound(w)
           \/ SomethingMissing(w) \/ LinePending(w) \/ NumberFound(w)
           \/ AuthorizeDenied(w) \/ ReadThrows(w) \/ KeepThrows(w) \/ Verified(w) \/ Bound(w)
           \/ CallRejected(w) \/ CallUnsent(w) \/ CallUnknown(w)
  BY <1>3, <1>6 DEF LeaseBurned, LeaseClaim, IdentityForeign, IdentityFound, SomethingMissing,
     LinePending, NumberFound, AuthorizeDenied, ReadThrows, KeepThrows, Verified, Bound,
     CallRejected, CallUnsent, CallUnknown, Catch
<1>7. CASE \/ LineConfirmed(w) \/ VaultRead(w) \/ AuthorizeGranted(w) \/ AuthorizeRechecked(w)
           \/ AuthorizeThrows(w) \/ CallReturns(w) \/ ReceiptRead(w) \/ KeepCredential(w)
           \/ SaveLost(w)
  BY <1>3, <1>7 DEF LineConfirmed, VaultRead, AuthorizeGranted, AuthorizeRechecked,
     AuthorizeThrows, CallReturns, ReceiptRead, KeepCredential, SaveLost, Catch, To
<1>8. CASE \/ AuthorizeStale(w) \/ DenyLost(w) \/ UnclaimNothing(w) \/ UnclaimLost(w)
  BY <1>3, <1>5, <1>8 DEF AuthorizeStale, DenyLost, UnclaimNothing, UnclaimLost, NotGranted,
     ClaimOver, Catch, To
<1>9. CASE \/ LeaseBusy(w) \/ ClaimLost(w) \/ RecordNothing(w) \/ Crash(w)
  BY <1>5, <1>9 DEF LeaseBusy, ClaimLost, RecordNothing, Crash
<1>10. CASE Start(w) \/ UnclaimRead(w) \/ RecordRead(w) \/ RecordLost(w)
  BY <1>2, <1>5, <1>10 DEF Start, UnclaimRead, RecordRead, RecordLost
<1>11. CASE ClaimSaved(w) \/ DenySaved(w) \/ UnclaimSaved(w) \/ Saved(w) \/ Recorded(w)
  BY <1>2, <1>4, <1>11 DEF ClaimSaved, DenySaved, UnclaimSaved, Saved, Recorded, Stored, Store,
     MayStore
<1> QED BY <1>6, <1>7, <1>8, <1>9, <1>10, <1>11 DEF Tick, Trouble

\* No step revives a cancelled order or drops a receipt.
LEMMA OrderKeeps ==
    ASSUME IInv, [Next]_vars
    PROVE  /\ order.status = "cancelled" => order'.status = "cancelled"
           /\ order.receipts \subseteq order'.receipts
<1>1. ASSUME NEW w \in Workers, Tick(w) \/ Trouble(w)
      PROVE  /\ order.status = "cancelled" => order'.status = "cancelled"
             /\ order.receipts \subseteq order'.receipts
  <2>1. order' = order \/ (MayStore(w) /\ order' = draft[w])
    BY <1>1, TickTouches
  <2> QED BY <2>1, Ticking DEF DraftFits, Follows
<1>2. CASE \/ \E c \in inbound : Execute(c)
           \/ \E r \in Receipts : Vanish(r)
           \/ LineAppears \/ UNCHANGED vars
  BY <1>2 DEF Execute, Vanish, LineAppears, vars
<1>3. CASE Due \/ Overdue \/ Stall \/ Cancel
  BY <1>3 DEF Due, Overdue, Stall, Cancel, Clock, Order
<1> QED BY <1>1, <1>2, <1>3 DEF Next

\* How a tick that has something to save ends.
LEMMA Endings ==
    ASSUME IInv, NEW w \in Workers, Tick(w) \/ Trouble(w),
           step[w] \in {"save", "record", "recording"}, step'[w] = "idle"
    PROVE  \/ draft[w].receipts \subseteq order'.receipts
           \/ faults' # faults
           \/ tries[w] = 2
<1>1. TypeOK
  BY DEF IInv
<1>2. \/ Saved(w) \/ SaveLost(w) \/ RecordNothing(w) \/ RecordRead(w) \/ Recorded(w)
      \/ RecordLost(w) \/ Crash(w)
  <2>1. ~(\/ Start(w) \/ LeaseBusy(w) \/ LeaseBurned(w) \/ LeaseClaim(w)
          \/ IdentityForeign(w) \/ IdentityFound(w) \/ SomethingMissing(w)
          \/ LinePending(w) \/ NumberFound(w) \/ LineConfirmed(w) \/ VaultRead(w))
    BY DEF Start, LeaseBusy, LeaseBurned, LeaseClaim, IdentityForeign, IdentityFound,
       SomethingMissing, LinePending, NumberFound, LineConfirmed, VaultRead, ReceiptMissing, At
  <2>2. ~(\/ ClaimSaved(w) \/ ClaimLost(w)
          \/ AuthorizeStale(w) \/ AuthorizeGranted(w) \/ AuthorizeRechecked(w)
          \/ DenySaved(w) \/ DenyLost(w)
          \/ UnclaimNothing(w) \/ UnclaimRead(w) \/ UnclaimSaved(w) \/ UnclaimLost(w))
    BY DEF ClaimSaved, ClaimLost, AuthorizeStale, AuthorizeGranted, AuthorizeRechecked,
       DenySaved, DenyLost, UnclaimNothing, UnclaimRead, UnclaimSaved, UnclaimLost
  <2>3. ~(\/ CallReturns(w) \/ ReceiptRead(w) \/ KeepCredential(w) \/ Verified(w)
          \/ Bound(w) \/ AuthorizeDenied(w) \/ AuthorizeThrows(w) \/ ReadThrows(w)
          \/ CallRejected(w) \/ CallUnsent(w) \/ CallUnknown(w) \/ KeepThrows(w))
    BY DEF CallReturns, ReceiptRead, KeepCredential, Verified, Bound, AuthorizeDenied,
       AuthorizeThrows, ReadThrows, CallRejected, CallUnsent, CallUnknown, KeepThrows
  <2> QED BY <2>1, <2>2, <2>3 DEF Tick, Trouble
<1>3. CASE Saved(w) \/ Recorded(w)
  BY <1>3 DEF Saved, Recorded, Store
<1>4. CASE RecordNothing(w)
  BY <1>4 DEF RecordNothing, Return
<1>5. CASE Crash(w)
  BY <1>1, <1>5, NumberAssumption DEF Crash, Fault, TypeOK, NumberAssumption
<1>6. CASE SaveLost(w) \/ RecordRead(w) \/ RecordLost(w)
  BY <1>1, <1>6 DEF SaveLost, RecordRead, RecordLost, To, Plan, Go, TypeOK
<1> QED BY <1>2, <1>3, <1>4, <1>5, <1>6

\* No tick that was already running when the host cancelled the order revives
\* it: its save compares versions, and a claim given back leaves the status.
THEOREM CancelledStaysCancelled == Spec => CancellationSticks
<1>1. IInv /\ [Next]_vars => [order.status = "cancelled" => order'.status = "cancelled"]_vars
  BY OrderKeeps
<1> QED BY <1>1, Invariant, PTL DEF Spec, CancellationSticks

\* recordReceipt rescues what a lost save knew: a tick that ends with a receipt
\* leaves it in the order, unless it crashed or lost the version three times more.
THEOREM ReceiptsSurvive == Spec => ReceiptsAreKept
<1> DEFINE Kept ==
      /\ order.receipts \subseteq order'.receipts
      /\ \A w \in Workers :
           step[w] \in {"save", "record", "recording"} /\ step'[w] = "idle" =>
               \/ draft[w].receipts \subseteq order'.receipts
               \/ faults' # faults
               \/ tries[w] = 2
<1>1. ASSUME IInv, [Next]_vars PROVE [Kept]_vars
  <2> SUFFICES ASSUME NEW w \in Workers, Next,
                      step[w] \in {"save", "record", "recording"}, step'[w] = "idle"
               PROVE  \/ draft[w].receipts \subseteq order'.receipts
                      \/ faults' # faults
                      \/ tries[w] = 2
    BY <1>1, OrderKeeps
  <2>1. ASSUME NEW v \in Workers, Tick(v) \/ Trouble(v) PROVE v = w
    BY <1>1, <2>1, TickTouches
  <2>2. CASE Tick(w) \/ Trouble(w)
    BY <1>1, <2>2, Endings
  <2>3. step' # step
    OBVIOUS
  <2>4. ~(\/ \E c \in inbound : Execute(c)
          \/ \E r \in Receipts : Vanish(r)
          \/ LineAppears \/ Due \/ Overdue \/ Stall \/ Cancel)
    BY <2>3 DEF Execute, Vanish, LineAppears, Due, Overdue, Stall, Cancel, Clock, ticks
  <2> QED BY <2>1, <2>2, <2>4 DEF Next
<1> QED BY <1>1, Invariant, PTL DEF Spec, ReceiptsAreKept
=============================================================================
