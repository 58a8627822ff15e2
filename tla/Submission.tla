----------------------------- MODULE Submission ------------------------------
(* What whoever submits a signed transaction is promised: one answer, in the *)
(* end, and never one that the ledger contradicts.                          *)
CONSTANTS Txs

Answers == {"settled", "failed", "refused", "unconfirmed"}

VARIABLES
  asked,      \* the transactions submitted
  fate,       \* what the ledger made of each: "none" yet, "applied" or "failed"
  answer,     \* what its submitter was told, or "none"
  doubt       \* the transactions whose sending was once not acknowledged

vars == <<asked, fate, answer, doubt>>

Init ==
  /\ asked = {} /\ doubt = {}
  /\ fate = [t \in Txs |-> "none"]
  /\ answer = [t \in Txs |-> "none"]

Ask(t) ==
  /\ t \notin asked
  /\ asked' = asked \union {t}
  /\ UNCHANGED <<fate, answer, doubt>>

(* A transaction that was refused, and never in doubt, is dead.             *)
Land(t, f) ==
  /\ t \in asked /\ fate[t] = "none"
  /\ answer[t] = "refused" => t \in doubt
  /\ fate' = [fate EXCEPT ![t] = f]
  /\ UNCHANGED <<asked, answer, doubt>>

Truthful(t, a) ==
  /\ a = "settled" => fate[t] = "applied"
  /\ a = "failed" => fate[t] = "failed"
  /\ a = "refused" => fate[t] = "none" \/ t \in doubt

Answer(t, a) ==
  /\ t \in asked /\ answer[t] = "none" /\ Truthful(t, a)
  /\ answer' = [answer EXCEPT ![t] = a]
  /\ UNCHANGED <<asked, fate, doubt>>

Doubt(t) ==
  /\ t \in asked /\ answer[t] = "none"
  /\ doubt' = doubt \union {t}
  /\ UNCHANGED <<asked, fate, answer>>

(* The last attempt that is not acknowledged is itself the answer.          *)
GiveUp(t) ==
  /\ t \in asked /\ answer[t] = "none"
  /\ doubt' = doubt \union {t}
  /\ answer' = [answer EXCEPT ![t] = "unconfirmed"]
  /\ UNCHANGED <<asked, fate>>

Next ==
  \E t \in Txs :
    \/ Ask(t)
    \/ \E f \in {"applied", "failed"} : Land(t, f)
    \/ \E a \in Answers : Answer(t, a)
    \/ Doubt(t)
    \/ GiveUp(t)

Answered(t) == GiveUp(t) \/ \E a \in Answers : Answer(t, a)

Spec == Init /\ [][Next]_vars /\ \A t \in Txs : WF_vars(Answered(t))
=============================================================================
