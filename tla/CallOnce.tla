------------------------------ MODULE CallOnce ------------------------------
(***************************************************************************)
(* What the ICP update dispatcher promises to the contract that asked for  *)
(* an update call: the call is issued at most once, takes effect at most   *)
(* once, and the answer kept about it is true.                             *)
(*                                                                         *)
(*   Ok       the call took effect                                         *)
(*   Fail     it did not and never will                                    *)
(*   Unknown  it was issued; whether it took effect is not known           *)
(*   None     nothing is known: not settled yet, or forgotten              *)
(*                                                                         *)
(* Every request goes through this life cycle on its own; a step may move  *)
(* several of them.                                                        *)
(***************************************************************************)
EXTENDS Naturals

CONSTANT Req

VARIABLE life

Answers == {"None", "Ok", "Fail", "Unknown"}

Life == [issued : BOOLEAN, pending : BOOLEAN, effects : 0..1, answer : Answers]

Unborn == [issued |-> FALSE, pending |-> FALSE, effects |-> 0, answer |-> "None"]

Issue(x, y) ==
    /\ ~x.issued
    /\ x.answer = "None"
    /\ y = [issued |-> TRUE, pending |-> TRUE,
            effects |-> x.effects, answer |-> x.answer]

TakeEffect(x, y) ==
    /\ x.pending
    /\ x.answer # "Fail"
    /\ y = [issued |-> x.issued, pending |-> FALSE,
            effects |-> x.effects + 1, answer |-> x.answer]

\* The call is refused before it takes effect; nothing is said about a
\* request that is forgotten.
Refuse(x, y) ==
    /\ x.pending
    /\ \E a \in {"Fail", x.answer} :
          y = [issued |-> x.issued, pending |-> FALSE,
               effects |-> x.effects, answer |-> a]

Confirm(x, y) ==
    /\ x.effects = 1
    /\ y = [x EXCEPT !.answer = "Ok"]

\* Only a request that was never issued may be called off.
CallOff(x, y) ==
    /\ ~x.issued
    /\ y = [x EXCEPT !.answer = "Fail"]

Doubt(x, y) ==
    /\ x.issued
    /\ y = [x EXCEPT !.answer = "Unknown"]

Forget(x, y) == y = [x EXCEPT !.answer = "None"]

Step(x, y) ==
    \/ y = x
    \/ Issue(x, y)
    \/ TakeEffect(x, y)
    \/ Refuse(x, y)
    \/ Confirm(x, y)
    \/ CallOff(x, y)
    \/ Doubt(x, y)
    \/ Forget(x, y)

Init == life = [r \in Req |-> Unborn]

Next ==
    /\ life' \in [Req -> Life]
    /\ \A r \in Req : Step(life[r], life'[r])

Spec == Init /\ [][Next]_life
=============================================================================
