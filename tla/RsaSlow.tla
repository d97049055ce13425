------------------------------- MODULE RsaSlow -------------------------------
(***************************************************************************)
(* crypto/rsa/rsa-slow.c: a modular exponentiation of 1024 bit numbers in  *)
(* one of MAX_COUNT slots, a bit of the exponent per pass of the main      *)
(* loop.  It is rsa.c without the private key: a caller - only a test on   *)
(* the system page, commented out - gives it the exponent and the modulus. *)
(* Numbers are integers; BigNumbers shows the code's own to be that.       *)
(***************************************************************************)
EXTENDS Powers

CONSTANTS
  SlowCount,   \* MAX_COUNT
  SlowCalls    \* the arguments of RsaSlowStart: <<message, exponent, modulus>>

ASSUME RsaSlowAssumption ==
  /\ SlowCount \in Nat \ {0}
  /\ SlowCalls \subseteq Nat \X Nat \X (Nat \ {0})

VARIABLES
  slowSlots,   \* status, m, e, n and r of each slot
  slowAsked    \* history: the call each slot was started by, or NoCall

slowVars == <<slowSlots, slowAsked>>

SlowSlot == 0 .. SlowCount - 1
NoCall == <<0, 0, 0>>

SlowCleared == [status |-> "none", m |-> 0, e |-> 0, n |-> 0, r |-> 0]

RsaSlowInit ==
  /\ slowSlots = [s \in SlowSlot |-> SlowCleared]
  /\ slowAsked = [s \in SlowSlot |-> NoCall]

SlowHaving(status) == {s \in SlowSlot : slowSlots[s].status = status}
IsLowest(s, S) == s \in S /\ \A t \in S : s <= t

-----------------------------------------------------------------------------
\* No exponent or no slot: RsaSlowStart returns -1 and changes nothing.
RsaSlowStart(call) ==
  /\ call[2] # 0
  /\ \E s \in SlowSlot :
       /\ \/ IsLowest(s, SlowHaving("none"))
          \/ SlowHaving("none") = {} /\ IsLowest(s, SlowHaving("finished"))
       /\ slowSlots' = [slowSlots EXCEPT ![s] =
            [status |-> "started", m |-> call[1] % call[3], e |-> call[2], n |-> call[3], r |-> 1]]
       /\ slowAsked' = [slowAsked EXCEPT ![s] = call]

\* Mutant: the result is taken one bit before the end.
SlowIterateShort(x) ==
  [x EXCEPT !.r = IF x.e % 2 = 1 THEN (x.r * x.m) % x.n ELSE @,
            !.m = (x.m * x.m) % x.n,
            !.e = x.e \div 2,
            !.status = IF x.e \div 4 = 0 THEN "finished" ELSE @]

\* BnModExpIterate1024, and the slot's status after it.
SlowIterate(x) ==
  [x EXCEPT !.r = IF x.e % 2 = 1 THEN (x.r * x.m) % x.n ELSE @,
            !.m = (x.m * x.m) % x.n,
            !.e = x.e \div 2,
            !.status = IF x.e \div 2 = 0 THEN "finished" ELSE @]

RsaSlowMain ==
  /\ \E s \in SlowSlot :
       /\ IsLowest(s, SlowHaving("started"))
       /\ slowSlots' = [slowSlots EXCEPT ![s] = SlowIterate(@)]
  /\ UNCHANGED slowAsked

\* Called by a caller that has seen RsaSlowFinished and read RsaSlowResult.
RsaSlowClear(s) ==
  /\ slowSlots[s].status = "finished"
  /\ slowSlots' = [slowSlots EXCEPT ![s] = SlowCleared]
  /\ slowAsked' = [slowAsked EXCEPT ![s] = NoCall]

RsaSlowNext ==
  \/ \E call \in SlowCalls : RsaSlowStart(call)
  \/ RsaSlowMain
  \/ \E s \in SlowSlot : RsaSlowClear(s)

SlowSpec == RsaSlowInit /\ [][RsaSlowNext]_slowVars

-----------------------------------------------------------------------------
\* What a caller sees of a slot.
SlowJob(s) ==
  CASE slowSlots[s].status = "none"     -> [state |-> "free"]
    [] slowSlots[s].status = "started"  -> [state |-> "busy", message |-> slowAsked[s]]
    [] slowSlots[s].status = "finished" ->
         [state |-> "done", message |-> slowAsked[s], result |-> slowSlots[s].r]

\* The slots of rsa-slow.c keep the promise of those of rsa.c, whatever the others do
\* meanwhile: a finished slot holds the message it was started with to its own
\* exponent and modulus, and a start never takes a slot at work.
SlowPromise ==
  INSTANCE DecryptSlots WITH
    MaxCount <- SlowCount, Messages <- SlowCalls,
    Plain <- [call \in SlowCalls |-> PowerMod(call[1], call[2], call[3])],
    job <- [s \in SlowSlot |-> SlowJob(s)]

SlowImplementsDecryptSlots == SlowPromise!Spec

=============================================================================
