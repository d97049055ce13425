----------------------------- MODULE RsaProofs ------------------------------
(***************************************************************************)
(* For every number of slots, every key and every set of messages: one     *)
(* slot of rsa.c calculates at a time, and so the numbers that the slots   *)
(* share never mix two calculations; and every slot ends with the          *)
(* decryption of its own message, as DecryptSlots promises.  So do the     *)
(* slots of rsa-slow.c, for every message, exponent and modulus.           *)
(***************************************************************************)
EXTENDS RsaSlots, RsaSlow, BasicProofs

-----------------------------------------------------------------------------
(***************************************************************************)
(* The numbers stay natural numbers                                        *)
(***************************************************************************)
LEMMA RemainderIsNat ==
  ASSUME NEW a \in Int, NEW n \in Nat, n # 0
  PROVE  a % n \in Nat
  OBVIOUS

LEMMA PassTypes ==
  ASSUME NEW x \in Power, NEW n \in Nat, n # 0
  PROVE  Pass(x, n) \in Power
<1>1. x.m \in Nat /\ x.e \in Nat /\ x.r \in Nat
  BY DEF Power
<1>2. x.r * x.m \in Int /\ x.m * x.m \in Int
  BY <1>1
<1>3. (x.r * x.m) % n \in Nat /\ (x.m * x.m) % n \in Nat
  BY <1>2, RemainderIsNat
<1>4. x.e \div 2 \in Nat
  BY <1>1
<1> QED
  BY <1>1, <1>3, <1>4 DEF Pass, Power

LEMMA PowerStartTypes ==
  ASSUME NEW c \in Messages
  PROVE  PowerStart(c, DP, P) \in Power /\ PowerStart(c, DQ, Q) \in Power
<1>1. c \in Int /\ P \in Nat /\ P # 0 /\ Q \in Nat /\ Q # 0 /\ DP \in Nat /\ DQ \in Nat
  BY RsaAssumption
<1>2. c % P \in Nat /\ c % Q \in Nat
  BY <1>1, RemainderIsNat
<1> QED
  BY <1>1, <1>2 DEF PowerStart, Power

LEMMA DifferenceIsNat ==
  ASSUME NEW r1 \in Nat, NEW r2 \in Nat
  PROVE  Difference(r1, r2) \in Nat
<1>1. Base \in Nat /\ Base # 0 /\ P \in Nat
  BY RsaAssumption
<1>2. (r1 + P) % Base \in Nat
  BY <1>1, RemainderIsNat
<1> DEFINE acc == IF r1 < r2 THEN (r1 + P) % Base ELSE r1
<1>3. acc - r2 \in Int
  BY <1>2
<1>4. (acc - r2) % Base \in Nat
  BY <1>1, <1>3, RemainderIsNat
<1> QED
  BY <1>4 DEF Difference

LEMMA HbisIsNat ==
  ASSUME NEW z \in SlotRecord
  PROVE  HbisOf(z) \in Nat
<1>1. z.x1.r \in Nat /\ z.x2.r \in Nat
  BY DEF SlotRecord, Power
<1>2. Difference(z.x1.r, z.x2.r) \in Nat
  BY <1>1, DifferenceIsNat
<1> QED
  BY <1>2, RsaAssumption DEF HbisOf

-----------------------------------------------------------------------------
(***************************************************************************)
(* Type correctness                                                        *)
(***************************************************************************)
\* A step changes the status of a slot and at most one of its numbers.
LEMMA SlotUpdates ==
  ASSUME NEW z \in SlotRecord, NEW status \in NONE .. CALCULATE_R,
         NEW x \in Power, NEW r \in Nat
  PROVE  /\ [z EXCEPT !.x1 = x, !.status = status] \in SlotRecord
         /\ [z EXCEPT !.x2 = x, !.status = status] \in SlotRecord
         /\ [z EXCEPT !.r = r, !.status = status] \in SlotRecord
  BY DEF SlotRecord

LEMMA TypeInit == RsaInit => RsaTypeOK
  BY DEF RsaInit, RsaTypeOK, SlotRecord, Power, Cleared, Nothing, NONE, CALCULATE_R

LEMMA StartTypes ==
  ASSUME RsaTypeOK, NEW c \in Messages, RsaStart(c)
  PROVE  RsaTypeOK'
<1>1. PICK s \in Slot : /\ slots' = [slots EXCEPT ![s] = Started(@, c)]
                        /\ rsaAsked' = [rsaAsked EXCEPT ![s] = c]
  BY DEF RsaStart
<1>2. Started(slots[s], c) \in SlotRecord
  BY PowerStartTypes DEF RsaTypeOK, Started, SlotRecord, NONE, STARTED, CALCULATE_R
<1> QED
  BY <1>1, <1>2 DEF RsaStart, RsaTypeOK

LEMMA ClearTypes ==
  ASSUME RsaTypeOK, NEW s \in Slot, RsaClear(s)
  PROVE  RsaTypeOK'
<1>1. Cleared \in SlotRecord
  BY DEF Cleared, SlotRecord, Power, NONE, CALCULATE_R
<1> QED
  BY <1>1 DEF RsaClear, RsaTypeOK

LEMMA IterateTypes ==
  ASSUME RsaTypeOK, NEW s \in Slot, IterateSlot(s), UNCHANGED rsaAsked
  PROVE  RsaTypeOK'
<1> USE DEF NONE, FINISHED, STARTED, CALCULATE_M1, CALCULATE_M2, CALCULATE_HBIS,
            CALCULATE_H, CALCULATE_R
<1> DEFINE z == slots[s]
<1>1. z \in SlotRecord /\ z.x1 \in Power /\ z.x2 \in Power /\ z.x2.r \in Nat
  BY DEF RsaTypeOK, SlotRecord, Power
<1>2. P \in Nat /\ P # 0 /\ Q \in Nat /\ Q # 0
  BY RsaAssumption
<1>3. CASE BeginSlot(s)
  BY <1>1, <1>3 DEF BeginSlot, RsaTypeOK, SlotRecord
<1>4. CASE CalculateM1(s)
  <2> DEFINE x == Pass(z.x1, P)
  <2>1. x \in Power
    BY <1>1, <1>2, PassTypes
  <2> HIDE DEF x
  <2>2. [z EXCEPT !.x1 = x,
                  !.status = IF x.e = 0 THEN CALCULATE_M2 ELSE @] \in SlotRecord
    <3> DEFINE status == IF x.e = 0 THEN CALCULATE_M2 ELSE z.status
    <3>1. status \in NONE .. CALCULATE_R
      BY <1>1 DEF SlotRecord
    <3> HIDE DEF status
    <3>2. [z EXCEPT !.x1 = x, !.status = status] \in SlotRecord
      BY <1>1, <2>1, <3>1, SlotUpdates
    <3> QED
      BY <3>2 DEF status
  <2> QED
    BY <1>4, <2>2 DEF CalculateM1, RsaTypeOK, x
<1>5. CASE CalculateM2(s)
  <2> DEFINE x == Pass(z.x2, Q)
  <2>1. x \in Power
    BY <1>1, <1>2, PassTypes
  <2> HIDE DEF x
  <2>2. [z EXCEPT !.x2 = x,
                  !.status = IF x.e = 0 THEN CALCULATE_HBIS ELSE @] \in SlotRecord
    <3> DEFINE status == IF x.e = 0 THEN CALCULATE_HBIS ELSE z.status
    <3>1. status \in NONE .. CALCULATE_R
      BY <1>1 DEF SlotRecord
    <3> HIDE DEF status
    <3>2. [z EXCEPT !.x2 = x, !.status = status] \in SlotRecord
      BY <1>1, <2>1, <3>1, SlotUpdates
    <3> QED
      BY <3>2 DEF status
  <2> QED
    BY <1>5, <2>2 DEF CalculateM2, RsaTypeOK, x
<1>6. CASE CalculateHbis(s)
  <2>1. HbisOf(z) \in Nat
    BY <1>1, HbisIsNat
  <2>2. [z EXCEPT !.status = CALCULATE_H] \in SlotRecord
    BY <1>1 DEF SlotRecord
  <2> QED
    BY <1>6, <2>1, <2>2 DEF CalculateHbis, RsaTypeOK
<1>7. CASE CalculateH(s)
  <2>1. hbis % P \in Nat
    BY <1>2, RemainderIsNat DEF RsaTypeOK
  <2>2. [z EXCEPT !.status = CALCULATE_R] \in SlotRecord
    BY <1>1 DEF SlotRecord
  <2> QED
    BY <1>7, <2>1, <2>2 DEF CalculateH, RsaTypeOK
<1>8. CASE CalculateR(s)
  <2>1. PICK r \in Nat : r = z.x2.r + h * Q
    BY <1>1, <1>2 DEF RsaTypeOK
  <2>2. FINISHED \in NONE .. CALCULATE_R
    OBVIOUS
  <2>3. [z EXCEPT !.r = r, !.status = FINISHED] \in SlotRecord
    BY <1>1, <2>2, SlotUpdates
  <2> QED
    BY <1>8, <2>1, <2>3 DEF CalculateR, RsaTypeOK
<1> QED
  BY <1>3, <1>4, <1>5, <1>6, <1>7, <1>8 DEF IterateSlot

LEMMA TypeStep == RsaTypeOK /\ [RsaNext]_rsaVars => RsaTypeOK'
<1> SUFFICES ASSUME RsaTypeOK, [RsaNext]_rsaVars
             PROVE  RsaTypeOK'
  OBVIOUS
<1>1. CASE \E c \in Messages : RsaStart(c)
  BY <1>1, StartTypes
<1>2. CASE \E s \in Slot : RsaClear(s)
  BY <1>2, ClearTypes
<1>3. CASE RsaMain
  BY <1>3, IterateTypes DEF RsaMain
<1>4. CASE UNCHANGED rsaVars
  BY <1>4 DEF rsaVars, RsaTypeOK
<1> QED
  BY <1>1, <1>2, <1>3, <1>4 DEF RsaNext

\* Every variable of the engine keeps its type, whatever the key and however
\* callers and main loop interleave.
THEOREM TypeCorrect == RsaSpec => []RsaTypeOK
  BY TypeInit, TypeStep, PTL DEF RsaSpec

-----------------------------------------------------------------------------
(***************************************************************************)
(* One calculation at a time                                               *)
(*                                                                         *)
(* OneCalculation is inductive with the type invariant: RsaMain begins a   *)
(* slot only when that slot's status, STARTED, is the highest there is.    *)
(* With it the two facts about the shared numbers are inductive too: the   *)
(* slot that writes hbis and h is the only one that would use them.        *)
(***************************************************************************)
IInv == RsaTypeOK /\ OneCalculation /\ ScratchIsOwn /\ ResultIsOwn

LEMMA InvInit == RsaInit => IInv
<1>1. RsaInit => \A s \in Slot : slots[s].status = NONE
  BY DEF RsaInit, Cleared
<1>2. RsaInit => OneCalculation /\ ScratchIsOwn /\ ResultIsOwn
  BY <1>1 DEF OneCalculation, ScratchIsOwn, ResultIsOwn,
              NONE, FINISHED, STARTED, CALCULATE_H, CALCULATE_R
<1> QED
  BY <1>2, TypeInit DEF IInv

\* Starting or clearing a slot concerns no slot at work and no shared number.
LEMMA CallerStep ==
  ASSUME IInv, NEW s \in Slot, NEW z, slots' = [slots EXCEPT ![s] = z],
         z.status \in {NONE, STARTED}, UNCHANGED <<hbis, h>>
  PROVE  OneCalculation' /\ ScratchIsOwn' /\ ResultIsOwn'
<1> USE DEF NONE, FINISHED, STARTED, CALCULATE_H, CALCULATE_R
<1>1. slots'[s] = z /\ \A t \in Slot \ {s} : slots'[t] = slots[t]
  BY DEF IInv, RsaTypeOK
<1>2. OneCalculation'
  BY <1>1 DEF IInv, OneCalculation
<1>3. ScratchIsOwn'
  BY <1>1 DEF IInv, ScratchIsOwn, HOf, HbisOf
<1>4. ResultIsOwn'
  BY <1>1 DEF IInv, ResultIsOwn, ROf, HOf, HbisOf
<1> QED
  BY <1>2, <1>3, <1>4

LEMMA IterateStep ==
  ASSUME IInv, NEW s \in Slot, IsChosen(s), IterateSlot(s)
  PROVE  OneCalculation' /\ ScratchIsOwn' /\ ResultIsOwn'
<1> USE DEF NONE, FINISHED, STARTED, CALCULATE_M1, CALCULATE_M2, CALCULATE_HBIS,
            CALCULATE_H, CALCULATE_R
<1>1. /\ \A t \in Slot : slots[t] \in SlotRecord /\ slots[t].status \in Int
      /\ slots'[s].status \in Int
      /\ \A t \in Slot \ {s} : slots'[t] = slots[t]
  BY DEF IInv, RsaTypeOK, SlotRecord, IterateSlot, BeginSlot, CalculateM1, CalculateM2,
         CalculateHbis, CalculateH, CalculateR
\* The others have not begun: they are NONE, FINISHED or STARTED.
<1>2. \A t \in Slot \ {s} : slots[t].status <= STARTED
  BY <1>1 DEF IsChosen, IInv, OneCalculation
<1>3. OneCalculation'
  BY <1>1, <1>2 DEF OneCalculation
<1>4. ScratchIsOwn' /\ ResultIsOwn'
  <2>1. \A t \in Slot \ {s} :
          /\ slots'[t].status = CALCULATE_H => hbis' = HbisOf(slots'[t])
          /\ slots'[t].status = CALCULATE_R => h' = HOf(slots'[t])
          /\ slots'[t].status = FINISHED => slots'[t].r = ROf(slots'[t])
    BY <1>1, <1>2 DEF IInv, ResultIsOwn, ROf, HOf, HbisOf
  <2>2. /\ slots'[s].status = CALCULATE_H => hbis' = HbisOf(slots'[s])
        /\ slots'[s].status = CALCULATE_R => h' = HOf(slots'[s])
        /\ slots'[s].status = FINISHED => slots'[s].r = ROf(slots'[s])
    <3>1. CASE BeginSlot(s) \/ CalculateM1(s) \/ CalculateM2(s)
      <4>1. BeginSlot(s) => slots'[s].status = CALCULATE_M1
        BY <1>1 DEF BeginSlot, IInv, RsaTypeOK, SlotRecord
      <4>2. CalculateM1(s) => slots'[s].status \in {CALCULATE_M1, CALCULATE_M2}
        BY <1>1 DEF CalculateM1, IInv, RsaTypeOK, SlotRecord
      <4>3. CalculateM2(s) => slots'[s].status \in {CALCULATE_M2, CALCULATE_HBIS}
        BY <1>1 DEF CalculateM2, IInv, RsaTypeOK, SlotRecord
      <4> QED
        BY <3>1, <4>1, <4>2, <4>3
    <3>2. CASE CalculateHbis(s)
      BY <1>1, <3>2 DEF CalculateHbis, HbisOf, IInv, RsaTypeOK, SlotRecord
    <3>3. CASE CalculateH(s)
      <4>1. /\ slots'[s].status = CALCULATE_R
            /\ slots'[s].x1 = slots[s].x1 /\ slots'[s].x2 = slots[s].x2
        BY <1>1, <3>3 DEF CalculateH, IInv, RsaTypeOK, SlotRecord
      <4>2. h' = HbisOf(slots[s]) % P
        BY <3>3 DEF CalculateH, IInv, ScratchIsOwn
      <4> QED
        BY <4>1, <4>2 DEF HOf, HbisOf
    <3>4. CASE CalculateR(s)
      <4>1. /\ slots'[s].status = FINISHED
            /\ slots'[s].x1 = slots[s].x1 /\ slots'[s].x2 = slots[s].x2
            /\ slots'[s].r = slots[s].x2.r + h * Q
        BY <1>1, <3>4 DEF CalculateR, IInv, RsaTypeOK, SlotRecord
      <4>2. h = HOf(slots[s])
        BY <3>4 DEF CalculateR, IInv, ScratchIsOwn
      <4> QED
        BY <4>1, <4>2 DEF ROf, HOf, HbisOf
    <3> QED
      BY <3>1, <3>2, <3>3, <3>4 DEF IterateSlot
  <2> QED
    BY <2>1, <2>2 DEF ScratchIsOwn, ResultIsOwn
<1> QED
  BY <1>3, <1>4

LEMMA InvStep == IInv /\ [RsaNext]_rsaVars => IInv'
<1> SUFFICES ASSUME IInv, [RsaNext]_rsaVars
             PROVE  IInv'
  OBVIOUS
<1>1. RsaTypeOK'
  BY TypeStep DEF IInv
<1>2. CASE \E c \in Messages : RsaStart(c)
  <2>1. PICK c \in Messages, s \in Slot :
          slots' = [slots EXCEPT ![s] = Started(slots[s], c)] /\ UNCHANGED <<hbis, h>>
    BY <1>2 DEF RsaStart
  <2>2. Started(slots[s], c).status = STARTED
    BY DEF Started
  <2> QED
    BY <1>1, <2>1, <2>2, CallerStep DEF IInv
<1>3. CASE \E s \in Slot : RsaClear(s)
  <2>1. PICK s \in Slot : slots' = [slots EXCEPT ![s] = Cleared] /\ UNCHANGED <<hbis, h>>
    BY <1>3 DEF RsaClear
  <2>2. Cleared.status = NONE
    BY DEF Cleared
  <2> QED
    BY <1>1, <2>1, <2>2, CallerStep DEF IInv
<1>4. CASE RsaMain
  BY <1>1, <1>4, IterateStep DEF RsaMain, IInv
<1>5. CASE UNCHANGED rsaVars
  BY <1>1, <1>5 DEF rsaVars, IInv, OneCalculation, ScratchIsOwn, ResultIsOwn, ROf, HOf, HbisOf
<1> QED
  BY <1>2, <1>3, <1>4, <1>5 DEF RsaNext

LEMMA InvHolds == RsaSpec => []IInv
  BY InvInit, InvStep, PTL DEF RsaSpec

\* At most one slot is past STARTED, however callers start and clear slots.
THEOREM OneAtATime == RsaSpec => []OneCalculation
  BY InvHolds, PTL DEF IInv

\* The result of a finished slot was put together from that slot's own halves,
\* although hbis and h are shared by all the slots.
THEOREM NoMixedResult == RsaSpec => []ResultIsOwn
  BY InvHolds, PTL DEF IInv

-----------------------------------------------------------------------------
(***************************************************************************)
(* What the halves of a slot come to                                       *)
(*                                                                         *)
(* A half that is on its way has r times the power of m to what is left of *)
(* e: square and multiply keeps that, and with no e left it is r.          *)
(***************************************************************************)
OnItsWay(x, y, n) == x.e # 0 /\ (x.r * PowerMod(x.m, x.e, n)) % n = y

M1Of(c) == PowerMod(c, DP, P)
M2Of(c) == PowerMod(c, DQ, Q)

Carries(z, c) ==
  /\ z.status # NONE => c \in Messages
  /\ z.status \in {STARTED, CALCULATE_M1} => OnItsWay(z.x1, M1Of(c), P)
  /\ z.status \in {STARTED, CALCULATE_M1, CALCULATE_M2} => OnItsWay(z.x2, M2Of(c), Q)
  /\ z.status \in {CALCULATE_M2, CALCULATE_HBIS, CALCULATE_H, CALCULATE_R, FINISHED} =>
       z.x1.r = M1Of(c)
  /\ z.status \in {CALCULATE_HBIS, CALCULATE_H, CALCULATE_R, FINISHED} =>
       z.x2.r = M2Of(c)

ServiceInv == IInv /\ \A s \in Slot : Carries(slots[s], rsaAsked[s])

LEMMA KeyTypes ==
  /\ P \in Nat \ {0} /\ Q \in Nat \ {0} /\ DP \in Nat /\ DQ \in Nat /\ QInv \in Nat
  /\ P \in Int /\ Q \in Int /\ QInv \in Int
  /\ Base \in Nat \ {0} /\ P < Base /\ Q < Base
  /\ Messages \subseteq Nat
  BY RsaAssumption

LEMMA HalfBegins ==
  ASSUME NEW c \in Nat, NEW d \in Nat, d # 0, NEW n \in Nat \ {0}
  PROVE  OnItsWay(PowerStart(c, d, n), PowerMod(c, d, n), n)
<1>1. (1 * PowerMod(c % n, d, n)) % n = PowerMod(c, d, n)
  BY AllLeft
<1> QED
  BY <1>1 DEF OnItsWay, PowerStart

LEMMA HalfGoesOn ==
  ASSUME NEW n \in Nat \ {0}, NEW x \in Power, NEW y, OnItsWay(x, y, n)
  PROVE  /\ Pass(x, n).e # 0 => OnItsWay(Pass(x, n), y, n)
         /\ Pass(x, n).e = 0 => Pass(x, n).r = y
<1> DEFINE m == x.m
           e == x.e
           r == x.r
           m1 == (m * m) % n
           r1 == IF e % 2 = 1 THEN (r * m) % n ELSE r
           e1 == e \div 2
<1>1. m \in Nat /\ e \in Nat /\ r \in Nat /\ e # 0 /\ (r * PowerMod(m, e, n)) % n = y
  BY DEF OnItsWay, Power
<1>2. Pass(x, n) = [m |-> m1, e |-> e1, r |-> r1]
  BY DEF Pass
<1> HIDE DEF m, e, r
<1>3. (r1 * PowerMod(m1, e1, n)) % n = y
  <2>1. m \in Nat
    BY <1>1
  <2>2. e \in Nat
    BY <1>1
  <2>3. r \in Nat
    BY <1>1
  <2>4. (r1 * PowerMod(m1, e1, n)) % n = (r * PowerMod(m, e, n)) % n
    BY <2>1, <2>2, <2>3, SquareAndMultiply, Zenon
  <2> HIDE DEF m1, r1, e1
  <2> QED
    BY <1>1, <2>4
<1>4. CASE e1 # 0
  BY <1>2, <1>3, <1>4 DEF OnItsWay
<1>5. CASE e1 = 0
  <2>1. e % 2 = 1
    BY <1>1, <1>5
  <2>2. r * m \in Int
    BY <1>1
  <2>3. r1 \in 0 .. n - 1
    BY <2>1, <2>2, Division, Zenon
  <2>4. (r1 * PowerMod(m1, 0, n)) % n = r1
    BY <2>3, NothingLeft
  <2>5. r1 = y
    BY <1>3, <1>5, <2>4
  <2> QED
    BY <1>2, <1>5, <2>5
<1> QED
  BY <1>4, <1>5

LEMMA InitCarries == RsaInit => ServiceInv
<1>1. ASSUME RsaInit PROVE \A s \in Slot : Carries(slots[s], rsaAsked[s])
  BY <1>1 DEF RsaInit, Cleared, Carries, NONE, FINISHED, STARTED, CALCULATE_M1, CALCULATE_M2,
              CALCULATE_HBIS, CALCULATE_H, CALCULATE_R
<1> QED
  BY <1>1, InvInit DEF ServiceInv

LEMMA StartCarries ==
  ASSUME NEW z, NEW c \in Messages, DP # 0, DQ # 0
  PROVE  Carries(Started(z, c), c)
<1>1. c \in Nat
  BY KeyTypes
<1>2. /\ OnItsWay(PowerStart(c, DP, P), M1Of(c), P)
      /\ OnItsWay(PowerStart(c, DQ, Q), M2Of(c), Q)
  BY <1>1, KeyTypes, HalfBegins DEF M1Of, M2Of
<1> HIDE DEF PowerStart
<1> QED
  BY <1>2 DEF Carries, Started, NONE, FINISHED, STARTED, CALCULATE_M1, CALCULATE_M2,
              CALCULATE_HBIS, CALCULATE_H, CALCULATE_R

\* One step of the engine takes the work of the slot on.
LEMMA IterateCarries ==
  ASSUME RsaTypeOK, NEW s \in Slot, IterateSlot(s), NEW c, Carries(slots[s], c)
  PROVE  Carries(slots'[s], c)
<1> USE DEF NONE, FINISHED, STARTED, CALCULATE_M1, CALCULATE_M2, CALCULATE_HBIS,
            CALCULATE_H, CALCULATE_R
<1> DEFINE z == slots[s]
           y == slots'[s]
<1>1. z \in SlotRecord /\ z.x1 \in Power /\ z.x2 \in Power
  BY DEF RsaTypeOK, SlotRecord
<1>2. CASE CalculateM1(s)
  <2> DEFINE x == Pass(z.x1, P)
  <2>1. /\ x.e # 0 => OnItsWay(x, M1Of(c), P)
        /\ x.e = 0 => x.r = M1Of(c)
    <3>1. OnItsWay(z.x1, M1Of(c), P)
      BY <1>2 DEF CalculateM1, Carries
    <3> QED
      BY <1>1, <3>1, KeyTypes, HalfGoesOn
  <2>2. /\ y.x1 = x /\ y.x2 = z.x2
        /\ y.status = IF x.e = 0 THEN CALCULATE_M2 ELSE CALCULATE_M1
    <3> HIDE DEF x
    <3>1. /\ slots' = [slots EXCEPT ![s].x1 = x,
                            ![s].status = IF x.e = 0 THEN CALCULATE_M2 ELSE z.status]
          /\ z.status = CALCULATE_M1
      BY <1>2 DEF CalculateM1, x
    <3> QED
      BY <1>1, <3>1 DEF RsaTypeOK, SlotRecord
  <2>3. c \in Messages /\ OnItsWay(z.x2, M2Of(c), Q)
    BY <1>2 DEF CalculateM1, Carries
  <2> HIDE DEF x, y, z
  <2>4. Carries(y, c)
    BY <2>1, <2>2, <2>3 DEF Carries
  <2> QED
    BY <2>4 DEF y
<1>3. CASE CalculateM2(s)
  <2> DEFINE x == Pass(z.x2, Q)
  <2>1. /\ x.e # 0 => OnItsWay(x, M2Of(c), Q)
        /\ x.e = 0 => x.r = M2Of(c)
    <3>1. OnItsWay(z.x2, M2Of(c), Q)
      BY <1>3 DEF CalculateM2, Carries
    <3> QED
      BY <1>1, <3>1, KeyTypes, HalfGoesOn
  <2>2. /\ y.x2 = x /\ y.x1 = z.x1
        /\ y.status = IF x.e = 0 THEN CALCULATE_HBIS ELSE CALCULATE_M2
    <3> HIDE DEF x
    <3>1. /\ slots' = [slots EXCEPT ![s].x2 = x,
                            ![s].status = IF x.e = 0 THEN CALCULATE_HBIS ELSE z.status]
          /\ z.status = CALCULATE_M2
      BY <1>3 DEF CalculateM2, x
    <3> QED
      BY <1>1, <3>1 DEF RsaTypeOK, SlotRecord
  <2>3. c \in Messages /\ z.x1.r = M1Of(c)
    BY <1>3 DEF CalculateM2, Carries
  <2> HIDE DEF x, y, z
  <2>4. Carries(y, c)
    BY <2>1, <2>2, <2>3 DEF Carries
  <2> QED
    BY <2>4 DEF y
\* The other steps leave both halves alone.
<1>4. CASE BeginSlot(s) \/ CalculateHbis(s) \/ CalculateH(s) \/ CalculateR(s)
  <2>1. /\ y.x1 = z.x1 /\ y.x2 = z.x2
        /\ \/ z.status = STARTED /\ y.status = CALCULATE_M1
           \/ z.status = CALCULATE_HBIS /\ y.status = CALCULATE_H
           \/ z.status = CALCULATE_H /\ y.status = CALCULATE_R
           \/ z.status = CALCULATE_R /\ y.status = FINISHED
    BY <1>1, <1>4 DEF BeginSlot, CalculateHbis, CalculateH, CalculateR, RsaTypeOK, SlotRecord
  <2>2. Carries(z, c)
    OBVIOUS
  <2> HIDE DEF y, z
  <2>3. Carries(y, c)
    BY <2>1, <2>2 DEF Carries
  <2> QED
    BY <2>3 DEF y
<1> QED
  BY <1>2, <1>3, <1>4 DEF IterateSlot

LEMMA StepCarries == ServiceInv /\ [RsaNext]_rsaVars => ServiceInv'
<1> SUFFICES ASSUME ServiceInv, [RsaNext]_rsaVars
             PROVE  ServiceInv'
  OBVIOUS
<1>1. IInv' /\ RsaTypeOK
  BY InvStep DEF ServiceInv, IInv
<1>2. CASE \E c \in Messages : RsaStart(c)
  <2>1. PICK c \in Messages, s \in Slot :
          /\ DP # 0 /\ DQ # 0
          /\ slots' = [slots EXCEPT ![s] = Started(slots[s], c)]
          /\ rsaAsked' = [rsaAsked EXCEPT ![s] = c]
    BY <1>2 DEF RsaStart, StartsIn
  <2>2. Carries(Started(slots[s], c), c)
    BY <2>1, StartCarries
  <2>3. \A t \in Slot : Carries(slots'[t], rsaAsked'[t])
    BY <1>1, <2>1, <2>2 DEF ServiceInv, RsaTypeOK
  <2> QED
    BY <1>1, <2>3 DEF ServiceInv
<1>3. CASE \E s \in Slot : RsaClear(s)
  <2>1. PICK s \in Slot : /\ slots' = [slots EXCEPT ![s] = Cleared]
                          /\ rsaAsked' = [rsaAsked EXCEPT ![s] = Nothing]
    BY <1>3 DEF RsaClear
  <2>2. Carries(Cleared, Nothing)
    BY DEF Carries, Cleared, NONE, FINISHED, STARTED, CALCULATE_M1, CALCULATE_M2,
           CALCULATE_HBIS, CALCULATE_H, CALCULATE_R
  <2>3. \A t \in Slot : Carries(slots'[t], rsaAsked'[t])
    BY <1>1, <2>1, <2>2 DEF ServiceInv, RsaTypeOK
  <2> QED
    BY <1>1, <2>3 DEF ServiceInv
<1>4. CASE RsaMain
  <2>1. PICK s \in Slot : IterateSlot(s) /\ rsaAsked' = rsaAsked
    BY <1>4 DEF RsaMain
  <2>2. Carries(slots'[s], rsaAsked'[s])
    BY <1>1, <2>1, IterateCarries DEF ServiceInv
  <2>3. \A t \in Slot \ {s} : slots'[t] = slots[t]
    BY <1>1, <2>1 DEF RsaTypeOK, SlotRecord, IterateSlot, BeginSlot, CalculateM1, CalculateM2,
           CalculateHbis, CalculateH, CalculateR
  <2>4. \A t \in Slot : Carries(slots'[t], rsaAsked'[t])
    BY <2>1, <2>2, <2>3 DEF ServiceInv
  <2> QED
    BY <1>1, <2>4 DEF ServiceInv
<1>5. CASE UNCHANGED rsaVars
  BY <1>1, <1>5 DEF rsaVars, ServiceInv
<1> QED
  BY <1>2, <1>3, <1>4, <1>5 DEF RsaNext

LEMMA CarriesHolds == RsaSpec => []ServiceInv
  BY InitCarries, StepCarries, PTL DEF RsaSpec

-----------------------------------------------------------------------------
(***************************************************************************)
(* Putting the halves together                                             *)
(***************************************************************************)

\* With p added once at most, the difference of the halves is right modulo p,
\* although the sum may have passed 512 bits: the comment on rsa.c line 85.
LEMMA DifferenceIsRight ==
  ASSUME Q <= P + 1, NEW r1 \in 0 .. P - 1, NEW r2 \in 0 .. Q - 1
  PROVE  \E k \in {0, 1} : Difference(r1, r2) = (r1 - r2) + P * k
<1>1. P \in Nat \ {0} /\ Q \in Nat \ {0} /\ Base \in Nat \ {0} /\ P < Base /\ Q < Base
  BY KeyTypes
<1>2. CASE r1 >= r2
  <2>1. PICK a \in 0 .. Base - 1 : a = r1 - r2
    BY <1>1, <1>2
  <2>2. a \in Int /\ a = Base * 0 + a
    BY <1>1
  <2>3. a % Base = a
    BY <1>1, <2>2, RemainderIs
  <2>4. Difference(r1, r2) = a
    BY <1>2, <2>1, <2>3 DEF Difference
  <2> QED
    BY <1>1, <2>1, <2>4
<1>3. CASE r1 < r2
  <2>1. PICK a \in 0 .. Base - 1 : a = (r1 - r2) + P
    BY <1>1, <1>3
  <2>2. PICK q \in Int, acc \in 0 .. Base - 1 : r1 + P = Base * q + acc /\ (r1 + P) % Base = acc
    <3>1. r1 + P \in Int
      BY <1>1
    <3> QED
      BY <1>1, <3>1, Division
  <2>3. acc - r2 = Base * (0 - q) + a /\ acc - r2 \in Int /\ 0 - q \in Int
    BY <1>1, <2>1, <2>2, Z3
  <2>4. (acc - r2) % Base = a
    BY <1>1, <2>3, RemainderIs
  <2>5. Difference(r1, r2) = a
    BY <1>3, <2>2, <2>4 DEF Difference
  <2> QED
    BY <1>1, <2>1, <2>5
<1> QED
  BY <1>2, <1>3

LEMMA ResultIsDecryption ==
  ASSUME Q <= P + 1, NEW c \in Messages, NEW z, z.x1.r = M1Of(c), z.x2.r = M2Of(c)
  PROVE  ROf(z) = Decryption(c)
<1>1. c \in Nat
  BY KeyTypes
<1>2. PICK r1 \in 0 .. P - 1 : r1 = M1Of(c)
  BY <1>1, KeyTypes, PowerModType DEF M1Of
<1>3. PICK r2 \in 0 .. Q - 1 : r2 = M2Of(c)
  BY <1>1, KeyTypes, PowerModType DEF M2Of
<1>4. PICK k \in {0, 1} : Difference(r1, r2) = (r1 - r2) + P * k
  BY DifferenceIsRight
<1>5. PICK a \in Int : a = QInv * (r1 - r2)
  BY KeyTypes
<1>6. QInv * Difference(r1, r2) = a + P * (QInv * k) /\ QInv * k \in Int
  BY <1>4, <1>5, KeyTypes, Z3
<1>7. (QInv * Difference(r1, r2)) % P = a % P
  BY <1>6, KeyTypes, RemainderOfSum
<1>8. HOf(z) = a % P
  BY <1>2, <1>3, <1>7 DEF HOf, HbisOf
<1>9. Decryption(c) = r2 + (a % P) * Q
  BY <1>2, <1>3, <1>5 DEF Decryption, M1Of, M2Of
<1> QED
  BY <1>3, <1>8, <1>9 DEF ROf

-----------------------------------------------------------------------------
(***************************************************************************)
(* The promise                                                             *)
(***************************************************************************)
Serving == [s \in Slot |-> JobOf(s)]

LEMMA JobsAre ==
  ASSUME RsaTypeOK
  PROVE  \A s \in Slot :
           /\ slots[s].status = NONE <=> JobOf(s).state = "free"
           /\ slots[s].status = FINISHED <=> JobOf(s).state = "done"
           /\ slots[s].status > FINISHED <=> JobOf(s).state = "busy"
           /\ slots[s].status > FINISHED =>
                JobOf(s) = [state |-> "busy", message |-> rsaAsked[s]]
<1> USE DEF NONE, FINISHED
<1> SUFFICES ASSUME NEW s \in Slot
             PROVE  /\ slots[s].status = NONE <=> JobOf(s).state = "free"
                    /\ slots[s].status = FINISHED <=> JobOf(s).state = "done"
                    /\ slots[s].status > FINISHED <=> JobOf(s).state = "busy"
                    /\ slots[s].status > FINISHED =>
                         JobOf(s) = [state |-> "busy", message |-> rsaAsked[s]]
  OBVIOUS
<1>1. slots[s].status \in 0 .. 7
  BY DEF RsaTypeOK, SlotRecord, CALCULATE_R
<1>2. CASE slots[s].status = NONE
  BY <1>2 DEF JobOf
<1>3. CASE slots[s].status = FINISHED
  BY <1>3 DEF JobOf
<1>4. CASE slots[s].status > FINISHED
  BY <1>4 DEF JobOf
<1> QED
  BY <1>1, <1>2, <1>3, <1>4

\* A step that leaves the other slots alone changes one job.
LEMMA OneJobChanges ==
  ASSUME NEW s \in Slot,
         \A t \in Slot \ {s} : slots'[t] = slots[t] /\ rsaAsked'[t] = rsaAsked[t]
  PROVE  Serving' = [Serving EXCEPT ![s] = JobOf(s)']
<1>1. \A t \in Slot \ {s} : JobOf(t)' = JobOf(t)
  BY DEF JobOf
<1> QED
  BY <1>1 DEF Serving

LEMMA ServesInit == RsaInit => Service!Init
<1>1. ASSUME RsaInit, NEW s \in Slot PROVE JobOf(s) = [state |-> "free"]
  <2>1. slots[s].status = NONE
    BY <1>1 DEF RsaInit, Cleared
  <2> QED
    BY <2>1 DEF JobOf, NONE, FINISHED
<1> QED
  BY <1>1 DEF Service!Init, Service!Slot, Slot, Service!Free

LEMMA ServesStart ==
  ASSUME RsaTypeOK, NEW c \in Messages, RsaStart(c)
  PROVE  Service!Start(c)
<1> USE DEF NONE, FINISHED, STARTED
<1>1. PICK s \in Slot : /\ StartsIn(s)
                        /\ slots' = [slots EXCEPT ![s] = Started(slots[s], c)]
                        /\ rsaAsked' = [rsaAsked EXCEPT ![s] = c]
  BY DEF RsaStart
<1>2. \A t \in Slot : Serving[t] = JobOf(t)
  BY DEF Serving
<1>3. /\ Having(NONE) = Service!InState(Serving, "free")
      /\ Having(FINISHED) = Service!InState(Serving, "done")
  BY <1>2, JobsAre DEF Having, Service!InState, Service!Slot, Slot
<1>4. Service!Takes(Serving, s)
  BY <1>1, <1>3 DEF StartsIn, Service!Takes, Service!IsFirst, IsFirst
<1>5. slots'[s].status = STARTED /\ rsaAsked'[s] = c
  BY <1>1 DEF RsaTypeOK, Started
<1>6. JobOf(s)' = [state |-> "busy", message |-> c]
  BY <1>5 DEF JobOf
<1>7. \A t \in Slot \ {s} : slots'[t] = slots[t] /\ rsaAsked'[t] = rsaAsked[t]
  BY <1>1 DEF RsaTypeOK
<1>8. Serving' = [Serving EXCEPT ![s] = Service!Busy(c)]
  BY <1>6, <1>7, OneJobChanges DEF Service!Busy
<1> QED
  BY <1>4, <1>8 DEF Service!Start, Service!Slot, Slot, Serving

LEMMA ServesClear ==
  ASSUME RsaTypeOK, NEW s \in Slot, RsaClear(s)
  PROVE  Service!Clear(s)
<1> USE DEF NONE, FINISHED
<1>1. JobOf(s)' = [state |-> "free"]
  BY DEF RsaClear, RsaTypeOK, JobOf, Cleared
<1>2. \A t \in Slot \ {s} : slots'[t] = slots[t] /\ rsaAsked'[t] = rsaAsked[t]
  BY DEF RsaClear, RsaTypeOK
<1>3. Serving[s].state = "done"
  BY JobsAre DEF RsaClear, Serving
<1> QED
  BY <1>1, <1>2, <1>3, OneJobChanges DEF Service!Clear, Service!Free, Serving

\* A step of the engine is a stutter, or the end of the slot's work.
LEMMA ServesIterate ==
  ASSUME Q <= P + 1, ServiceInv, ServiceInv', NEW s \in Slot, IterateSlot(s), rsaAsked' = rsaAsked
  PROVE  Service!Finish(s) \/ Serving' = Serving
<1> USE DEF NONE, FINISHED, STARTED, CALCULATE_M1, CALCULATE_M2, CALCULATE_HBIS,
            CALCULATE_H, CALCULATE_R
<1>1. /\ RsaTypeOK /\ slots[s] \in SlotRecord
      /\ Carries(slots'[s], rsaAsked[s])
      /\ slots'[s].status = FINISHED => slots'[s].r = ROf(slots'[s])
  BY DEF ServiceInv, IInv, RsaTypeOK, ResultIsOwn
<1>2. slots[s].status > FINISHED /\ slots'[s].status \in FINISHED .. CALCULATE_R
  BY <1>1 DEF RsaTypeOK, SlotRecord, IterateSlot, BeginSlot, CalculateM1, CalculateM2, CalculateHbis,
              CalculateH, CalculateR
<1>3. \A t \in Slot \ {s} : slots'[t] = slots[t] /\ rsaAsked'[t] = rsaAsked[t]
  BY <1>1 DEF RsaTypeOK, IterateSlot, BeginSlot, CalculateM1, CalculateM2, CalculateHbis,
              CalculateH, CalculateR
<1>4. Serving' = [Serving EXCEPT ![s] = JobOf(s)']
  BY <1>3, OneJobChanges
<1>5. Serving[s] = [state |-> "busy", message |-> rsaAsked[s]]
  BY <1>1, <1>2, JobsAre DEF Serving
<1>6. CASE slots'[s].status # FINISHED
  <2>1. slots'[s].status # NONE /\ slots'[s].status # FINISHED
    BY <1>2, <1>6
  <2>2. JobOf(s)' = [state |-> "busy", message |-> rsaAsked[s]]
    BY <2>1 DEF JobOf
  <2>3. Serving' = Serving
    BY <1>4, <1>5, <2>2 DEF Serving
  <2> QED
    BY <2>3
<1>7. CASE slots'[s].status = FINISHED
  <2> DEFINE c == rsaAsked[s]
             z == slots'[s]
  <2>1. JobOf(s)' = [state |-> "done", message |-> c, result |-> z.r]
    BY <1>7 DEF JobOf
  <2>2. c \in Messages /\ z.x1.r = M1Of(c) /\ z.x2.r = M2Of(c)
    BY <1>1, <1>7 DEF Carries
  <2>3. z.r = ROf(z)
    BY <1>1, <1>7
  <2> HIDE DEF c, z
  <2>4. z.r = Decryption(c)
    BY <2>2, <2>3, ResultIsDecryption
  <2>5. Serving[s].state = "busy" /\ Serving[s].message = c
    BY <1>5 DEF c
  <2>6. [d \in Messages |-> Decryption(d)][Serving[s].message] = Decryption(c)
    BY <2>2, <2>5
  <2>7. Serving' = [Serving EXCEPT ![s] =
          [state |-> "done", message |-> Serving[s].message,
           result |-> [d \in Messages |-> Decryption(d)][Serving[s].message]]]
    BY <1>4, <2>1, <2>4, <2>5, <2>6, Zenon
  <2>8. Service!Finish(s)
    BY <2>5, <2>7 DEF Service!Finish, Service!Done, Serving
  <2> QED
    BY <2>8
<1> QED
  BY <1>6, <1>7

LEMMA ServesStep ==
  ASSUME Q <= P + 1
  PROVE  ServiceInv /\ ServiceInv' /\ [RsaNext]_rsaVars => [Service!Next]_Serving
<1> SUFFICES ASSUME ServiceInv, ServiceInv', [RsaNext]_rsaVars
             PROVE  [Service!Next]_Serving
  OBVIOUS
<1>0. RsaTypeOK /\ Service!Slot = Slot
  BY DEF ServiceInv, IInv, Service!Slot, Slot
<1>1. CASE \E c \in Messages : RsaStart(c)
  BY <1>0, <1>1, ServesStart DEF Service!Next
<1>2. CASE \E s \in Slot : RsaClear(s)
  BY <1>0, <1>2, ServesClear DEF Service!Next
<1>3. CASE RsaMain
  BY <1>0, <1>3, ServesIterate DEF RsaMain, Service!Next
<1>4. CASE UNCHANGED rsaVars
  <2>1. Serving' = Serving
    BY <1>4 DEF rsaVars, Serving, JobOf
  <2> QED
    BY <2>1
<1> QED
  BY <1>1, <1>2, <1>3, <1>4 DEF RsaNext

\* The engine keeps the promise of DecryptSlots: every slot, however the work
\* of several is interleaved, ends with the decryption of its own message, and
\* a start never takes a slot at work.  Adding p once, as the code does, makes
\* the difference of the halves positive only if q is at most p + 1.
THEOREM KeepsService ==
  ASSUME Q <= P + 1
  PROVE  RsaSpec => ImplementsService
<1>1. RsaInit => Service!Init
  BY ServesInit
<1>2. ServiceInv /\ ServiceInv' /\ [RsaNext]_rsaVars
        => [Service!Next]_([s \in Slot |-> JobOf(s)])
  BY ServesStep DEF Serving
<1> QED
  BY <1>1, <1>2, CarriesHolds, PTL DEF RsaSpec, ImplementsService, Service!Spec

-----------------------------------------------------------------------------
(***************************************************************************)
(* What the promise is worth: with the key's qInv, the decryption is the   *)
(* one number below p.q that is c^dP modulo p and c^dQ modulo q.           *)
(***************************************************************************)

\* m2 + h.q, as rsa.c puts it together, is below p.q and has the remainders m1
\* and m2: the number the Chinese remainder theorem promises.
THEOREM ChineseRemainder ==
  ASSUME (QInv * Q) % P = 1 % P, NEW c \in Messages
  PROVE  /\ Decryption(c) \in 0 .. P * Q - 1
         /\ Decryption(c) % P = PowerMod(c, DP, P)
         /\ Decryption(c) % Q = PowerMod(c, DQ, Q)
<1>1. /\ P \in Nat \ {0} /\ Q \in Nat \ {0} /\ QInv \in Nat /\ c \in Nat
      /\ P \in Int /\ Q \in Int /\ QInv \in Int
  BY KeyTypes
<1>2. PICK m1 \in 0 .. P - 1 : m1 = M1Of(c)
  BY <1>1, KeyTypes, PowerModType DEF M1Of
<1>3. PICK m2 \in 0 .. Q - 1 : m2 = M2Of(c)
  BY <1>1, KeyTypes, PowerModType DEF M2Of
<1>4. PICK a \in Int : a = QInv * (m1 - m2)
  BY <1>1
<1>5. PICK k \in Int, x \in 0 .. P - 1 : a = P * k + x /\ a % P = x
  BY <1>1, Division
<1>6. PICK d \in Int : d = m2 + x * Q
  BY <1>1
<1>7. Decryption(c) = d
  BY <1>2, <1>3, <1>4, <1>5, <1>6 DEF Decryption, M1Of, M2Of
<1>8. d \in 0 .. P * Q - 1
  <2>1. x * Q <= (P - 1) * Q /\ 0 <= x * Q
    BY <1>1, <1>5, Z3
  <2>2. (P - 1) * Q = P * Q - Q
    BY <1>1, Z3
  <2>3. PICK u \in Int, v \in Int : u = x * Q /\ v = P * Q
    BY <1>1
  <2> QED
    BY <1>1, <1>6, <2>1, <2>2, <2>3
<1>9. d % Q = m2
  <2>1. d = Q * x + m2
    BY <1>1, <1>6, Z3
  <2> QED
    BY <1>1, <2>1, RemainderIs
<1>10. d % P = m1
  <2>1. PICK b \in Int : b = QInv * Q
    BY <1>1
  <2>2. PICK i \in Int, j \in Int, one \in Int :
          b = P * i + one /\ 1 = P * j + one
    <3>1. PICK i \in Int, e \in 0 .. P - 1 : b = P * i + e /\ b % P = e
      BY <1>1, Division
    <3>2. PICK j \in Int, f \in 0 .. P - 1 : 1 = P * j + f /\ 1 % P = f
      <4>1. PICK o \in Int : o = 1
        OBVIOUS
      <4>2. PICK j \in Int, f \in 0 .. P - 1 : o = P * j + f /\ o % P = f
        BY <1>1, Division
      <4> QED
        BY <4>1, <4>2
    <3>3. b % P = 1 % P
      BY <2>1
    <3> QED
      BY <3>1, <3>2, <3>3
  <2>3. PICK l \in Int : b = 1 + P * l
    <3>1. b = 1 + P * (i - j)
      BY <1>1, <2>2, Z3
    <3> QED
      BY <3>1
  <2>4. a * Q = b * (m1 - m2)
    BY <1>1, <1>4, <2>1, Z3
  <2>5. a * Q = (m1 - m2) + P * (l * (m1 - m2))
    BY <1>1, <2>3, <2>4, Z3
  <2>6. a * Q = P * (k * Q) + x * Q
    BY <1>1, <1>5, Z3
  <2>7. PICK t \in Int : t = l * (m1 - m2) - k * Q
    BY <1>1
  <2>8. d = P * t + m1
    BY <1>1, <1>6, <2>5, <2>6, <2>7, Z3
  <2> QED
    BY <1>1, <2>8, RemainderIs
<1> QED
  BY <1>2, <1>3, <1>7, <1>8, <1>9, <1>10 DEF M1Of, M2Of

-----------------------------------------------------------------------------
(***************************************************************************)
(* The slow engine                                                         *)
(***************************************************************************)

SlowRecord ==
  [status : {"none", "started", "finished"}, m : Nat, e : Nat, n : Nat, r : Nat]

SlowTypes ==
  /\ slowSlots \in [SlowSlot -> SlowRecord]
  /\ slowAsked \in [SlowSlot -> SlowCalls \cup {NoCall}]

Answer(call) == PowerMod(call[1], call[2], call[3])

\* What is left of slot x's work for the call: r times the power of m to what is
\* left of e; nothing when it is finished.
IsOnItsWay(x, call) ==
  /\ x.status = "started" =>
       /\ call \in SlowCalls
       /\ x.n = call[3] /\ x.e # 0
       /\ (x.r * PowerMod(x.m, x.e, x.n)) % x.n = Answer(call)
  /\ x.status = "finished" => call \in SlowCalls /\ x.r = Answer(call)

SlowInv == SlowTypes /\ \A s \in SlowSlot : IsOnItsWay(slowSlots[s], slowAsked[s])

LEMMA CallTypes ==
  ASSUME NEW call \in SlowCalls
  PROVE  call[1] \in Nat /\ call[2] \in Nat /\ call[3] \in Nat \ {0}
  BY RsaSlowAssumption

LEMMA InitSlow == RsaSlowInit => SlowInv
  BY DEF RsaSlowInit, SlowInv, SlowTypes, SlowRecord, SlowCleared, IsOnItsWay

\* A new slot has all of its work before it.
LEMMA Begun ==
  ASSUME NEW call \in SlowCalls, call[2] # 0, NEW x,
         x = [status |-> "started", m |-> call[1] % call[3], e |-> call[2], n |-> call[3], r |-> 1]
  PROVE  x \in SlowRecord /\ IsOnItsWay(x, call)
<1> DEFINE b == call[1]
           e == call[2]
           n == call[3]
<1>1. b \in Nat /\ e \in Nat /\ n \in Nat \ {0} /\ b \in Int
  BY CallTypes
<1> HIDE DEF b, e, n
<1>2. b % n \in Nat
  BY <1>1, Division
<1>3. (1 * PowerMod(b % n, e, n)) % n = PowerMod(b, e, n)
  BY <1>1, AllLeft
<1>6. x = [status |-> "started", m |-> b % n, e |-> e, n |-> n, r |-> 1]
  BY DEF b, e, n
<1>7. x \in SlowRecord
  BY <1>1, <1>2, <1>6 DEF SlowRecord
<1>8. IsOnItsWay(x, call)
  BY <1>1, <1>3, <1>6 DEF IsOnItsWay, Answer, b, e, n
<1> QED
  BY <1>7, <1>8

\* A pass takes a slot on, or to its end with the answer.
LEMMA PassKeeps ==
  ASSUME NEW x \in SlowRecord, NEW call, x.status = "started", IsOnItsWay(x, call)
  PROVE  SlowIterate(x) \in SlowRecord /\ IsOnItsWay(SlowIterate(x), call)
<1> DEFINE m == x.m
           e == x.e
           n == x.n
           r == x.r
           m1 == (m * m) % n
           r1 == IF e % 2 = 1 THEN (r * m) % n ELSE r
           e1 == e \div 2
<1>1. /\ call \in SlowCalls /\ n = call[3] /\ e # 0
      /\ (r * PowerMod(m, e, n)) % n = Answer(call)
      /\ m \in Nat /\ e \in Nat /\ r \in Nat
  BY DEF IsOnItsWay, SlowRecord
<1>2. n \in Nat \ {0}
  BY <1>1, CallTypes
<1> HIDE DEF m, e, n, r
<1>3. m * m \in Int /\ r * m \in Int /\ e1 \in Nat
  BY <1>1
<1>4. m1 \in 0 .. n - 1 /\ (r * m) % n \in 0 .. n - 1
  BY <1>2, <1>3, Division, Zenon
<1>5. r1 \in Nat
  BY <1>1, <1>2, <1>4
<1>6. (r1 * PowerMod(m1, e1, n)) % n = Answer(call)
  <2>1. ((IF e % 2 = 1 THEN (r * m) % n ELSE r) * PowerMod((m * m) % n, e \div 2, n)) % n
          = (r * PowerMod(m, e, n)) % n
    <3>1. m \in Nat
      BY <1>1
    <3>2. e \in Nat
      BY <1>1
    <3>3. r \in Nat
      BY <1>1
    <3> QED
      BY <1>2, <3>1, <3>2, <3>3, SquareAndMultiply, Zenon
  <2>2. (r1 * PowerMod(m1, e1, n)) % n = (r * PowerMod(m, e, n)) % n
    BY <2>1
  <2> HIDE DEF m1, r1, e1
  <2> QED
    BY <1>1, <2>2
<1>7. e1 = 0 => e % 2 = 1
  BY <1>1
<1> DEFINE y == SlowIterate(x)
<1>8. /\ y = [x EXCEPT !.r = r1, !.m = m1, !.e = e1,
                       !.status = IF e1 = 0 THEN "finished" ELSE x.status]
  BY DEF SlowIterate, m, e, n, r
<1> HIDE DEF m1, r1, e1
<1>9. y = [status |-> IF e1 = 0 THEN "finished" ELSE "started", m |-> m1, e |-> e1, n |-> n, r |-> r1]
  BY <1>8 DEF SlowRecord, n
<1> HIDE DEF y
<1>10. y \in SlowRecord
  BY <1>2, <1>3, <1>4, <1>5, <1>9 DEF SlowRecord, m1, e1
<1>11. CASE e1 # 0
  BY <1>1, <1>6, <1>9, <1>10, <1>11 DEF IsOnItsWay, y
<1>12. CASE e1 = 0
  <2>1. r1 \in 0 .. n - 1
    BY <1>4, <1>7, <1>12 DEF r1
  <2>2. (r1 * PowerMod(m1, 0, n)) % n = r1
    BY <1>2, <2>1, NothingLeft
  <2>4. r1 = Answer(call)
    BY <1>6, <1>12, <2>2
  <2> QED
    BY <1>1, <1>9, <1>10, <1>12, <2>4 DEF IsOnItsWay, y
<1> QED
  BY <1>11, <1>12

-----------------------------------------------------------------------------
(* The steps *)

LEMMA StartStep ==
  ASSUME SlowInv, NEW call \in SlowCalls, RsaSlowStart(call)
  PROVE  SlowInv'
<1>1. PICK s \in SlowSlot :
        /\ slowSlots' = [slowSlots EXCEPT ![s] =
             [status |-> "started", m |-> call[1] % call[3], e |-> call[2], n |-> call[3], r |-> 1]]
        /\ slowAsked' = [slowAsked EXCEPT ![s] = call]
  BY DEF RsaSlowStart
<1>2. PICK x : x = [status |-> "started", m |-> call[1] % call[3], e |-> call[2],
                    n |-> call[3], r |-> 1]
  OBVIOUS
<1>3. x \in SlowRecord /\ IsOnItsWay(x, call)
  BY <1>2, Begun DEF RsaSlowStart
<1>4. /\ slowSlots' = [slowSlots EXCEPT ![s] = x]
      /\ slowAsked' = [slowAsked EXCEPT ![s] = call]
  BY <1>1, <1>2
<1>5. \A t \in SlowSlot : /\ slowSlots'[t] = IF t = s THEN x ELSE slowSlots[t]
                          /\ slowAsked'[t] = IF t = s THEN call ELSE slowAsked[t]
  BY <1>4 DEF SlowInv, SlowTypes
<1>6. SlowTypes'
  BY <1>3, <1>4 DEF SlowInv, SlowTypes
<1> QED
  BY <1>3, <1>5, <1>6 DEF SlowInv

LEMMA MainStep ==
  ASSUME SlowInv, RsaSlowMain
  PROVE  SlowInv'
<1>1. PICK s \in SlowSlot : /\ slowSlots[s].status = "started"
                            /\ slowSlots' = [slowSlots EXCEPT ![s] = SlowIterate(slowSlots[s])]
                            /\ slowAsked' = slowAsked
  BY DEF RsaSlowMain, IsLowest, SlowHaving
<1>2. PICK x : x = SlowIterate(slowSlots[s])
  OBVIOUS
<1>3. x \in SlowRecord /\ IsOnItsWay(x, slowAsked[s])
  BY <1>1, <1>2, PassKeeps DEF SlowInv, SlowTypes
<1>4. \A t \in SlowSlot : slowSlots'[t] = IF t = s THEN x ELSE slowSlots[t]
  BY <1>1, <1>2 DEF SlowInv, SlowTypes
<1>5. SlowTypes'
  BY <1>1, <1>2, <1>3 DEF SlowInv, SlowTypes
<1> QED
  BY <1>1, <1>3, <1>4, <1>5 DEF SlowInv

LEMMA ClearStep ==
  ASSUME SlowInv, NEW s \in SlowSlot, RsaSlowClear(s)
  PROVE  SlowInv'
<1>1. SlowCleared \in SlowRecord /\ IsOnItsWay(SlowCleared, NoCall)
  BY DEF SlowCleared, SlowRecord, IsOnItsWay
<1>2. \A t \in SlowSlot : /\ slowSlots'[t] = IF t = s THEN SlowCleared ELSE slowSlots[t]
                          /\ slowAsked'[t] = IF t = s THEN NoCall ELSE slowAsked[t]
  BY DEF RsaSlowClear, SlowInv, SlowTypes
<1>3. SlowTypes'
  BY <1>1 DEF RsaSlowClear, SlowInv, SlowTypes
<1> QED
  BY <1>1, <1>2, <1>3 DEF SlowInv

LEMMA StepSlow == SlowInv /\ [RsaSlowNext]_slowVars => SlowInv'
<1> SUFFICES ASSUME SlowInv, [RsaSlowNext]_slowVars PROVE SlowInv'
  OBVIOUS
<1>1. CASE UNCHANGED slowVars
  BY <1>1 DEF slowVars, SlowInv, SlowTypes
<1> QED
  BY <1>1, StartStep, MainStep, ClearStep DEF RsaSlowNext

LEMMA SlowHolds == SlowSpec => []SlowInv
  BY InitSlow, StepSlow, PTL DEF SlowSpec

-----------------------------------------------------------------------------
(* The promise *)

Promised == [s \in SlowSlot |-> SlowJob(s)]

LEMMA Jobs ==
  ASSUME SlowInv
  PROVE  \A s \in SlowSlot :
           /\ slowSlots[s].status = "none" <=> SlowJob(s).state = "free"
           /\ slowSlots[s].status = "started" <=> SlowJob(s).state = "busy"
           /\ slowSlots[s].status = "finished" <=> SlowJob(s).state = "done"
           /\ slowSlots[s].status = "none" => SlowJob(s) = [state |-> "free"]
           /\ slowSlots[s].status = "started" =>
                SlowJob(s) = [state |-> "busy", message |-> slowAsked[s]]
           /\ slowSlots[s].status = "finished" =>
                SlowJob(s) = [state |-> "done", message |-> slowAsked[s],
                              result |-> slowSlots[s].r]
<1> SUFFICES ASSUME NEW s \in SlowSlot
             PROVE  /\ slowSlots[s].status = "none" <=> SlowJob(s).state = "free"
                    /\ slowSlots[s].status = "started" <=> SlowJob(s).state = "busy"
                    /\ slowSlots[s].status = "finished" <=> SlowJob(s).state = "done"
                    /\ slowSlots[s].status = "none" => SlowJob(s) = [state |-> "free"]
                    /\ slowSlots[s].status = "started" =>
                         SlowJob(s) = [state |-> "busy", message |-> slowAsked[s]]
                    /\ slowSlots[s].status = "finished" =>
                         SlowJob(s) = [state |-> "done", message |-> slowAsked[s],
                                       result |-> slowSlots[s].r]
  OBVIOUS
<1>1. slowSlots[s].status \in {"none", "started", "finished"}
  BY DEF SlowInv, SlowTypes, SlowRecord
<1>2. CASE slowSlots[s].status = "none"
  BY <1>2 DEF SlowJob
<1>3. CASE slowSlots[s].status = "started"
  BY <1>3 DEF SlowJob
<1>4. CASE slowSlots[s].status = "finished"
  BY <1>4 DEF SlowJob
<1> QED
  BY <1>1, <1>2, <1>3, <1>4

\* A step that leaves the other slots alone changes one job.
LEMMA OneJob ==
  ASSUME NEW s \in SlowSlot,
         \A t \in SlowSlot \ {s} : slowSlots'[t] = slowSlots[t] /\ slowAsked'[t] = slowAsked[t]
  PROVE  Promised' = [Promised EXCEPT ![s] = SlowJob(s)']
<1>1. \A t \in SlowSlot \ {s} : SlowJob(t)' = SlowJob(t)
  BY DEF SlowJob
<1> QED
  BY <1>1 DEF Promised

LEMMA KeepsStep == SlowInv /\ SlowInv' /\ [RsaSlowNext]_slowVars => [SlowPromise!Next]_Promised
<1> SUFFICES ASSUME SlowInv, SlowInv', [RsaSlowNext]_slowVars
             PROVE  [SlowPromise!Next]_Promised
  OBVIOUS
<1>0. \A s \in SlowSlot : Promised[s] = SlowJob(s)
  BY DEF Promised
<1>1. CASE \E call \in SlowCalls : RsaSlowStart(call)
  <2>1. PICK call \in SlowCalls, s \in SlowSlot :
          /\ \/ IsLowest(s, SlowHaving("none"))
             \/ SlowHaving("none") = {} /\ IsLowest(s, SlowHaving("finished"))
          /\ slowSlots' = [slowSlots EXCEPT ![s] =
               [status |-> "started", m |-> call[1] % call[3], e |-> call[2], n |-> call[3], r |-> 1]]
          /\ slowAsked' = [slowAsked EXCEPT ![s] = call]
    BY <1>1 DEF RsaSlowStart
  <2>2. /\ SlowHaving("none") = SlowPromise!InState(Promised, "free")
        /\ SlowHaving("finished") = SlowPromise!InState(Promised, "done")
    BY <1>0, Jobs DEF SlowHaving, SlowPromise!InState, SlowPromise!Slot, SlowSlot
  <2>3. SlowPromise!Takes(Promised, s)
    BY <2>1, <2>2 DEF SlowPromise!Takes, SlowPromise!IsFirst, IsLowest
  <2>4. SlowJob(s)' = [state |-> "busy", message |-> call]
    BY <2>1 DEF SlowJob, SlowInv, SlowTypes
  <2>5. Promised' = [Promised EXCEPT ![s] = SlowPromise!Busy(call)]
    <3>1. \A t \in SlowSlot \ {s} : slowSlots'[t] = slowSlots[t] /\ slowAsked'[t] = slowAsked[t]
      BY <2>1 DEF SlowInv, SlowTypes
    <3> QED
      BY <2>4, <3>1, OneJob DEF SlowPromise!Busy
  <2>6. SlowPromise!Start(call)
    BY <2>3, <2>5 DEF SlowPromise!Start, SlowPromise!Slot, SlowSlot, Promised
  <2> QED
    BY <2>6 DEF SlowPromise!Next
<1>2. CASE RsaSlowMain
  <2>1. PICK s \in SlowSlot : /\ slowSlots[s].status = "started"
                              /\ slowSlots' = [slowSlots EXCEPT ![s] = SlowIterate(slowSlots[s])]
                              /\ slowAsked' = slowAsked
    BY <1>2 DEF RsaSlowMain, IsLowest, SlowHaving
  <2>2. slowSlots'[s] \in SlowRecord /\ slowSlots'[s].status \in {"started", "finished"}
    <3>1. slowSlots'[s] = SlowIterate(slowSlots[s]) /\ slowSlots[s] \in SlowRecord
      BY <2>1 DEF SlowInv, SlowTypes
    <3> QED
      BY <2>1, <3>1 DEF SlowIterate, SlowInv, SlowTypes, SlowRecord
  <2>3. Promised' = [Promised EXCEPT ![s] = SlowJob(s)']
    BY <2>1, OneJob DEF SlowInv, SlowTypes
  <2>4. Promised[s] = [state |-> "busy", message |-> slowAsked[s]]
    BY <1>0, <2>1, Jobs
  <2>5. CASE slowSlots'[s].status = "started"
    <3>1. SlowJob(s)' = [state |-> "busy", message |-> slowAsked[s]]
      BY <2>1, <2>5 DEF SlowJob
    <3>2. Promised' = Promised
      BY <2>3, <2>4, <3>1 DEF Promised
    <3> QED
      BY <3>2
  <2>6. CASE slowSlots'[s].status = "finished"
    <3>1. SlowJob(s)' = [state |-> "done", message |-> slowAsked[s], result |-> slowSlots'[s].r]
      BY <2>1, <2>6 DEF SlowJob
    <3>2. slowAsked[s] \in SlowCalls /\ slowSlots'[s].r = Answer(slowAsked[s])
      BY <2>1, <2>6 DEF SlowInv, IsOnItsWay
    <3>3. Promised[s].state = "busy" /\ Promised[s].message = slowAsked[s]
      BY <2>4
    <3>4. [call \in SlowCalls |-> Answer(call)][Promised[s].message] = Answer(slowAsked[s])
      BY <3>2, <3>3
    <3>5. Promised' = [Promised EXCEPT ![s] =
            [state |-> "done", message |-> Promised[s].message,
             result |-> [call \in SlowCalls |-> Answer(call)][Promised[s].message]]]
      BY <2>3, <3>1, <3>2, <3>3, <3>4, Zenon
    <3>6. SlowPromise!Finish(s)
      BY <3>3, <3>5 DEF SlowPromise!Finish, SlowPromise!Done, Answer, Promised
    <3> QED
      BY <3>6 DEF SlowPromise!Next, SlowPromise!Slot, SlowSlot
  <2> QED
    BY <2>2, <2>5, <2>6
<1>3. CASE \E s \in SlowSlot : RsaSlowClear(s)
  <2>1. PICK s \in SlowSlot : RsaSlowClear(s)
    BY <1>3
  <2>2. SlowJob(s)' = [state |-> "free"]
    BY <2>1 DEF RsaSlowClear, SlowJob, SlowCleared, SlowInv, SlowTypes
  <2>3. \A t \in SlowSlot \ {s} : slowSlots'[t] = slowSlots[t] /\ slowAsked'[t] = slowAsked[t]
    BY <2>1 DEF RsaSlowClear, SlowInv, SlowTypes
  <2>4. Promised[s].state = "done"
    BY <1>0, <2>1, Jobs DEF RsaSlowClear
  <2>5. SlowPromise!Clear(s)
    BY <2>2, <2>3, <2>4, OneJob DEF SlowPromise!Clear, SlowPromise!Free, Promised
  <2> QED
    BY <2>5 DEF SlowPromise!Next, SlowPromise!Slot, SlowSlot
<1>4. CASE UNCHANGED slowVars
  <2>1. Promised' = Promised
    BY <1>4 DEF slowVars, Promised, SlowJob
  <2> QED
    BY <2>1
<1> QED
  BY <1>1, <1>2, <1>3, <1>4 DEF RsaSlowNext

\* The slots of rsa-slow.c keep the promise of those of rsa.c: a slot that is
\* finished holds the message to its own exponent and modulus, whatever the
\* others did meanwhile, and no slot at work is taken.
THEOREM SlowKeepsPromise == SlowSpec => SlowImplementsDecryptSlots
<1>1. RsaSlowInit => SlowPromise!Init
  BY DEF RsaSlowInit, SlowPromise!Init, SlowPromise!Slot, SlowSlot, SlowPromise!Free,
         SlowJob, SlowCleared
<1>2. SlowInv /\ SlowInv' /\ [RsaSlowNext]_slowVars
        => [SlowPromise!Next]_([s \in SlowSlot |-> SlowJob(s)])
  BY KeepsStep DEF Promised
<1> QED
  BY <1>1, <1>2, SlowHolds, PTL DEF SlowSpec, SlowImplementsDecryptSlots, SlowPromise!Spec

=============================================================================
