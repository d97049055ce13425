------------------------------ MODULE RsaSlots ------------------------------
(***************************************************************************)
(* The asynchronous RSA engine (crypto/rsa/rsa.c).  RsaStart gives a       *)
(* message to one of MAX_COUNT slots; RsaMain, called once per pass of the *)
(* main loop, does one small piece of the work of one slot; the caller     *)
(* polls RsaFinished, reads RsaResult and calls RsaClear.                  *)
(*                                                                         *)
(* The work of a slot is the Chinese remainder form of RSA:                *)
(*      m1 = c^dP mod p           by square and multiply, a bit at a time  *)
(*      m2 = c^dQ mod q                                                    *)
(*      h  = qInv.(m1 - m2) mod p                                          *)
(*      m  = m2 + h.q                                                      *)
(* and the scratch numbers hbis and h are shared by all the slots.         *)
(* Numbers are TLA+ integers; the one place where the fixed width of a     *)
(* 512 bit number shows is written with % Base (Base is 2^512 there).      *)
(***************************************************************************)
EXTENDS Powers

CONSTANTS
  RsaCount,            \* MAX_COUNT, rsa.c line 34
  Base,                \* 2^512: one more than the largest 512 bit number
  P, Q, DP, DQ, QInv,  \* the private key
  Messages             \* the cipher texts callers may hand in

(***************************************************************************)
(* A key as pri-key.c loads it: both primes fit 512 bits.                  *)
(***************************************************************************)
ASSUME RsaAssumption ==
  /\ RsaCount \in Nat \ {0}
  /\ Base \in Nat /\ P \in Nat \ {0} /\ Q \in Nat \ {0} /\ P < Base /\ Q < Base
  /\ DP \in Nat /\ DQ \in Nat /\ QInv \in Nat
  /\ Messages \subseteq Nat

VARIABLES
  slots,    \* slots[]
  hbis,     \* hbis[32]: qInv.(m1 - m2), shared by the slots
  h,        \* h[16]: hbis mod p, shared by the slots
  rsaAsked  \* history: the message each slot was started with, or Nothing

rsaVars == <<slots, hbis, h, rsaAsked>>

Slot == 0 .. RsaCount - 1
Nothing == -1

\* status_t, in the order RsaMain compares.
NONE == 0
FINISHED == 1
STARTED == 2
CALCULATE_M1 == 3
CALCULATE_M2 == 4
CALCULATE_HBIS == 5
CALCULATE_H == 6
CALCULATE_R == 7

\* A modular exponentiation under way: BnModExpStart512's m, e and r.
Power == [m : Nat, e : Nat, r : Nat]

\* x1 is (m1, e1, r1), modulo p; x2 is (m2, e2, r2), modulo q.
SlotRecord == [status : NONE .. CALCULATE_R, x1 : Power, x2 : Power, r : Nat]

Cleared ==
  LET zero == [m |-> 0, e |-> 0, r |-> 0]
  IN [status |-> NONE, x1 |-> zero, x2 |-> zero, r |-> 0]

RsaInit ==
  /\ slots = [s \in Slot |-> Cleared]
  /\ hbis = 0
  /\ h = 0
  /\ rsaAsked = [s \in Slot |-> Nothing]

-----------------------------------------------------------------------------
(***************************************************************************)
(* The callers: crypto/pki/pri-key.c                                       *)
(***************************************************************************)
Having(status) == {s \in Slot : slots[s].status = status}
IsFirst(s, S) == s \in S /\ \A t \in S : s <= t

\* Mutant: a start that finds every slot at work takes slot 0.
StartsInSlotAtWork(s) ==
  \/ IsFirst(s, Having(NONE))
  \/ Having(NONE) = {} /\ s = 0

\* The slot RsaStart takes: the first that is NONE, or else the first that is
\* FINISHED ("used and not cleared").  No slot for an empty key, or when every
\* slot is at work: RsaStart then returns -1 and changes nothing.
StartsIn(s) ==
  /\ DP # 0 /\ DQ # 0
  /\ \/ IsFirst(s, Having(NONE))
     \/ Having(NONE) = {} /\ IsFirst(s, Having(FINISHED))

PowerStart(c, exponent, modulus) ==
  [m |-> c % modulus, e |-> exponent, r |-> 1]

\* start: r is not reset, an old result stays there until the new one is ready.
Started(old, c) ==
  [status |-> STARTED,
   x1 |-> PowerStart(c, DP, P), x2 |-> PowerStart(c, DQ, Q), r |-> old.r]

RsaStart(c) ==
  /\ \E s \in Slot :
       /\ StartsIn(s)
       /\ slots' = [slots EXCEPT ![s] = Started(@, c)]
       /\ rsaAsked' = [rsaAsked EXCEPT ![s] = c]
  /\ UNCHANGED <<hbis, h>>

\* Called by a caller that has seen RsaFinished(s) and has read the result.
RsaClear(s) ==
  /\ slots[s].status = FINISHED
  /\ slots' = [slots EXCEPT ![s] = Cleared]
  /\ rsaAsked' = [rsaAsked EXCEPT ![s] = Nothing]
  /\ UNCHANGED <<hbis, h>>

-----------------------------------------------------------------------------
(***************************************************************************)
(* The engine: RsaMain picks one slot and iterate() does one step of it.   *)
(***************************************************************************)

\* Mutants: the first busy slot whatever its status; the highest status, but no
\* choice between equals.
IsChosenFirstBusy(s) == IsFirst(s, {t \in Slot : slots[t].status > FINISHED})
IsChosenStrictly(s) ==
  /\ slots[s].status > FINISHED
  /\ \A t \in Slot \ {s} : slots[t].status < slots[s].status

\* "Always complete existing calculations first": the highest status that is
\* above FINISHED; the first of equals.
IsChosen(s) ==
  /\ slots[s].status > FINISHED
  /\ \A t \in Slot : \/ slots[t].status < slots[s].status
                     \/ slots[t].status = slots[s].status /\ s <= t

\* One pass of BnModExpIterate512; it is finished when no exponent is left.
Pass(x, n) ==
  [m |-> (x.m * x.m) % n,
   e |-> x.e \div 2,
   r |-> IF x.e % 2 = 1 THEN (x.r * x.m) % n ELSE x.r]

BeginSlot(s) ==
  /\ slots[s].status = STARTED
  /\ slots' = [slots EXCEPT ![s].status = CALCULATE_M1]
  /\ UNCHANGED <<hbis, h>>

CalculateM1(s) ==
  LET x == Pass(slots[s].x1, P) IN
  /\ slots[s].status = CALCULATE_M1
  /\ slots' = [slots EXCEPT ![s].x1 = x,
                            ![s].status = IF x.e = 0 THEN CALCULATE_M2 ELSE @]
  /\ UNCHANGED <<hbis, h>>

CalculateM2(s) ==
  LET x == Pass(slots[s].x2, Q) IN
  /\ slots[s].status = CALCULATE_M2
  /\ slots' = [slots EXCEPT ![s].x2 = x,
                            ![s].status = IF x.e = 0 THEN CALCULATE_HBIS ELSE @]
  /\ UNCHANGED <<hbis, h>>

\* Mutants: p is not added when m1 < m2; the accumulator is not 512 bits wide.
DifferenceNoAdd(r1, r2) == (r1 - r2) % Base
DifferenceSigned(r1, r2) == r1 - r2

\* m1 - m2 in a 512 bit accumulator, with p added first when it is negative:
\* the sum may not fit 512 bits, the subtraction then borrows the bit back.
Difference(r1, r2) ==
  LET acc == IF r1 < r2 THEN (r1 + P) % Base ELSE r1 IN (acc - r2) % Base

HbisOf(z) == QInv * Difference(z.x1.r, z.x2.r)
HOf(z) == HbisOf(z) % P
ROf(z) == z.x2.r + HOf(z) * Q

CalculateHbis(s) ==
  /\ slots[s].status = CALCULATE_HBIS
  /\ hbis' = HbisOf(slots[s])
  /\ slots' = [slots EXCEPT ![s].status = CALCULATE_H]
  /\ UNCHANGED h

CalculateH(s) ==
  /\ slots[s].status = CALCULATE_H
  /\ h' = hbis % P
  /\ slots' = [slots EXCEPT ![s].status = CALCULATE_R]
  /\ UNCHANGED hbis

CalculateR(s) ==
  /\ slots[s].status = CALCULATE_R
  /\ slots' = [slots EXCEPT ![s].r = slots[s].x2.r + h * Q,
                            ![s].status = FINISHED]
  /\ UNCHANGED <<hbis, h>>

IterateSlot(s) ==
  \/ BeginSlot(s)
  \/ CalculateM1(s)
  \/ CalculateM2(s)
  \/ CalculateHbis(s)
  \/ CalculateH(s)
  \/ CalculateR(s)

RsaMain ==
  /\ \E s \in Slot : IsChosen(s) /\ IterateSlot(s)
  /\ UNCHANGED rsaAsked

RsaNext ==
  \/ \E c \in Messages : RsaStart(c)
  \/ \E s \in Slot : RsaClear(s)
  \/ RsaMain

RsaSpec == RsaInit /\ [][RsaNext]_rsaVars

\* The main loop calls CryptoMain, hence RsaMain, on every pass.
RsaFairness == WF_rsaVars(RsaMain)

-----------------------------------------------------------------------------
(***************************************************************************)
(* Properties                                                              *)
(***************************************************************************)

\* Every variable keeps its type; -1 stands for "no message".
RsaTypeOK ==
  /\ slots \in [Slot -> SlotRecord]
  /\ hbis \in Nat
  /\ h \in Nat
  /\ rsaAsked \in [Slot -> Messages \cup {Nothing}]

\* A calculation that has begun is the only one that has: RsaMain completes it
\* before it begins another ("Always complete existing calculations first",
\* rsa.c line 174).
OneCalculation ==
  \A s, t \in Slot :
    slots[s].status > STARTED /\ slots[t].status > STARTED => s = t

\* The shared scratch numbers are those of the slot that is about to use them:
\* hbis and h were calculated from its own m1 and m2.
ScratchIsOwn ==
  \A s \in Slot :
    /\ slots[s].status = CALCULATE_H => hbis = HbisOf(slots[s])
    /\ slots[s].status = CALCULATE_R => h = HOf(slots[s])

\* A finished slot's result is put together from the m1 and m2 of that slot,
\* not from what another slot left in the shared numbers.
ResultIsOwn ==
  \A s \in Slot : slots[s].status = FINISHED => slots[s].r = ROf(slots[s])

\* What a message decrypts to: m2 + h.q, without the width of the numbers.
Decryption(c) ==
  LET m1 == PowerMod(c, DP, P)
      m2 == PowerMod(c, DQ, Q)
  IN  m2 + ((QInv * (m1 - m2)) % P) * Q

\* How a slot looks to its caller.
JobOf(s) ==
  CASE slots[s].status = NONE -> [state |-> "free"]
    [] slots[s].status = FINISHED ->
         [state |-> "done", message |-> rsaAsked[s], result |-> slots[s].r]
    [] OTHER -> [state |-> "busy", message |-> rsaAsked[s]]

Service == INSTANCE DecryptSlots
             WITH MaxCount <- RsaCount,
                  Plain <- [c \in Messages |-> Decryption(c)],
                  job <- [s \in Slot |-> JobOf(s)]

\* The engine keeps the promise of DecryptSlots: every slot, however the work
\* of several is interleaved, ends with the plain text of its own message.
ImplementsService == Service!Spec

\* A calculation that has begun is carried through to its result.
BegunFinishes ==
  \A s \in Slot : slots[s].status > STARTED ~> slots[s].status = FINISHED

\* When callers stop starting new work, every started slot finishes.  (While
\* they do not, slot 0 may be restarted for ever ahead of the others.)
AllFinishWhenQuiet ==
  <>[][\A c \in Messages : ~ RsaStart(c)]_rsaVars =>
    \A s \in Slot : slots[s].status > FINISHED ~> slots[s].status = FINISHED

=============================================================================
