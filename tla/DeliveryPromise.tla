--------------------------- MODULE DeliveryPromise ---------------------------
(***************************************************************************)
(* What ReconfigureManagedDirectDelivery promises to the one who asks for  *)
(* other delivery settings: the settings in force are the ones of before   *)
(* until they are the ones asked for, in one step; the answer "applied" is *)
(* given in the second case and only there; and an answer is given.  A     *)
(* restoration, like a recovery after a crash, brings no new settings.     *)
(***************************************************************************)
CONSTANTS Plans, NoPlan

VARIABLES
  plan,       \* the settings in force
  before,     \* those when the running request was made
  asked,      \* those it asks for, NoPlan when there is none
  answer      \* how the last request was answered

promiseVars == <<plan, before, asked, answer>>

PromiseInit ==
  /\ plan \in Plans /\ before = NoPlan /\ asked = NoPlan /\ answer = "none"

AskFor(p) ==
  /\ asked = NoPlan /\ p # plan
  /\ asked' = p /\ before' = plan /\ answer' = "none"
  /\ UNCHANGED plan

Switch ==
  /\ asked # NoPlan /\ plan = before
  /\ plan' = asked
  /\ UNCHANGED <<before, asked, answer>>

Reply(a) ==
  /\ asked # NoPlan
  /\ plan = IF a = "applied" THEN asked ELSE before
  /\ asked' = NoPlan /\ before' = NoPlan /\ answer' = a
  /\ UNCHANGED plan

Replies == \E a \in {"applied", "restored", "failed"} : Reply(a)

PromiseNext ==
  \/ \E p \in Plans : AskFor(p)
  \/ Switch
  \/ Replies

PromiseSpec == PromiseInit /\ [][PromiseNext]_promiseVars

(* Every request is answered.                                              *)
Answered == asked # NoPlan ~> asked = NoPlan
=============================================================================
