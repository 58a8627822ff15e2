------------------------- MODULE StellarClientProofs -------------------------
(***************************************************************************)
(* The client implements what a submitter is promised, step by step: for    *)
(* any number of endpoints, transactions, failures and polls.               *)
(***************************************************************************)
EXTENDS StellarClient, TLAPS

Fates == {"none", "applied", "failed"}
ToldOf == {"none", "settled", "failed", "refused", "unconfirmed"}

(* A call, what the ledger made of its transaction, and whether that is     *)
(* still on its way.  What was never in doubt and is not accepted by a node *)
(* is nowhere; what is in a ledger has used its number up.                  *)
CallOK(c, f, s, underway) ==
  /\ c = [at |-> c.at, seq |-> c.seq, left |-> c.left, attempt |-> c.attempt,
          answer |-> c.answer, doubt |-> c.doubt]
  /\ c.at \in {"idle", "signed", "screen", "send", "poll", "done"}
  /\ c.answer \in ToldOf /\ (c.answer = "none" <=> c.at # "done")
  /\ c.seq \in Nat /\ c.doubt \in BOOLEAN
  /\ f # "none" => c.seq <= s
  /\ c.at \in {"idle", "signed", "screen"} => ~underway /\ f = "none" /\ ~c.doubt
  /\ ~c.doubt /\ (c.at = "send" \/ c.answer = "refused") => ~underway /\ f = "none"

Underway(t) == t \in queue \/ t \in late

ClientInv ==
  /\ seq \in Nat
  /\ fate \in [Txs -> Fates]
  /\ call = [t \in Txs |-> call[t]]
  /\ queue \subseteq Txs /\ late \subseteq Txs
  /\ \A t \in Txs : CallOK(call[t], fate[t], seq, Underway(t))

Asked == {t \in Txs : call[t].at \notin {"idle", "signed"}}
Answers == [t \in Txs |-> call[t].answer]
Doubts == {t \in Txs : call[t].doubt}

LEMMA InitKeeps ==
  ASSUME ClientInit
  PROVE  ClientInv /\ Submitted!Init
<1>1. /\ seq = 0 /\ queue = {} /\ late = {} /\ call = [t \in Txs |-> Idle]
      /\ fate = [t \in Txs |-> "none"]
  BY DEF ClientInit
<1>2. \A t \in Txs : CallOK(call[t], fate[t], seq, Underway(t))
  BY <1>1 DEF CallOK, Idle, Underway, ToldOf
<1>3. ClientInv
  BY <1>1, <1>2 DEF ClientInv, Fates
<1>4. Asked = {} /\ Doubts = {} /\ Answers = [t \in Txs |-> "none"]
  BY <1>1 DEF Asked, Doubts, Answers, Idle
<1>5. Submitted!Init
  BY <1>1, <1>4 DEF Submitted!Init, Asked, Doubts, Answers
<1> QED
  BY <1>3, <1>5

(* A step that changes one call, as the submitter sees it.                  *)
LEMMA Seen ==
  ASSUME ClientInv, NEW t \in Txs, NEW c, call' = [call EXCEPT ![t] = c]
  PROVE  /\ call'[t] = c /\ \A u \in Txs : u # t => call'[u] = call[u]
         /\ call' = [u \in Txs |-> call'[u]]
         /\ Asked' = IF c.at \in {"idle", "signed"} THEN Asked \ {t} ELSE Asked \union {t}
         /\ Answers' = [Answers EXCEPT ![t] = c.answer]
         /\ Doubts' = IF c.doubt THEN Doubts \union {t} ELSE Doubts \ {t}
<1>1. call = [u \in Txs |-> call[u]]
  BY DEF ClientInv
<1>2. call'[t] = c /\ (\A u \in Txs : u # t => call'[u] = call[u])
      /\ call' = [u \in Txs |-> call'[u]]
  BY <1>1
<1>3. Asked' = IF c.at \in {"idle", "signed"} THEN Asked \ {t} ELSE Asked \union {t}
  BY <1>2 DEF Asked
<1>4. Answers' = [Answers EXCEPT ![t] = c.answer]
  BY <1>2 DEF Answers
<1>5. Doubts' = IF c.doubt THEN Doubts \union {t} ELSE Doubts \ {t}
  BY <1>2 DEF Doubts
<1> QED
  BY <1>2, <1>3, <1>4, <1>5

(* The steps of a Submission, over what the submitter sees.                 *)
LEMMA Steps ==
  ASSUME NEW t \in Txs
  PROVE  /\ Asked' = Asked /\ Answers' = Answers /\ Doubts' = Doubts /\ fate' = fate
              => UNCHANGED Submitted!vars
         /\ t \notin Asked /\ Asked' = Asked \union {t} /\ Answers' = Answers
              /\ Doubts' = Doubts /\ fate' = fate
              => Submitted!Next
<1>1. Asked' = Asked /\ Answers' = Answers /\ Doubts' = Doubts /\ fate' = fate
        => UNCHANGED Submitted!vars
  BY DEF Asked, Answers, Doubts, Submitted!vars
<1>2. t \notin Asked /\ Asked' = Asked \union {t} /\ Answers' = Answers
        /\ Doubts' = Doubts /\ fate' = fate
        => Submitted!Ask(t)
  BY DEF Asked, Answers, Doubts, Submitted!Ask
<1> QED
  BY <1>1, <1>2 DEF Submitted!Next

LEMMA AnswerStep ==
  ASSUME NEW t \in Txs, NEW a \in ToldOf \ {"none"},
         t \in Asked, Answers[t] = "none",
         a = "settled" => fate[t] = "applied", a = "failed" => fate[t] = "failed",
         a = "refused" => fate[t] = "none" \/ t \in Doubts,
         Asked' = Asked, fate' = fate, Answers' = [Answers EXCEPT ![t] = a],
         \/ Doubts' = Doubts
         \/ a = "unconfirmed" /\ Doubts' = Doubts \union {t}
  PROVE  Submitted!Next
<1>1. CASE Doubts' = Doubts
  <2>1. Submitted!Truthful(t, a)
    BY DEF Submitted!Truthful, Doubts
  <2>2. Submitted!Answer(t, a)
    BY <1>1, <2>1 DEF Submitted!Answer, Asked, Answers, Doubts
  <2>3. a \in Submitted!Answers
    BY DEF Submitted!Answers, ToldOf
  <2> QED
    BY <2>2, <2>3 DEF Submitted!Next
<1>2. CASE a = "unconfirmed" /\ Doubts' = Doubts \union {t}
  <2>1. Submitted!GiveUp(t)
    BY <1>2 DEF Submitted!GiveUp, Asked, Answers, Doubts
  <2> QED
    BY <2>1 DEF Submitted!Next
<1> QED
  BY <1>1, <1>2

(* What is left of the invariant to show when one call changes, and nothing *)
(* on the network but perhaps its own transaction on the way.               *)
LEMMA CallChanges ==
  ASSUME ClientInv, NEW t \in Txs, NEW c, call' = [call EXCEPT ![t] = c],
         UNCHANGED <<seq, fate>>, queue' \subseteq Txs, late' \subseteq Txs,
         \A u \in Txs : u # t => Underway(u)' = Underway(u),
         CallOK(c, fate[t], seq, Underway(t)')
  PROVE  ClientInv'
<1>1. /\ call'[t] = c /\ \A u \in Txs : u # t => call'[u] = call[u]
      /\ call' = [u \in Txs |-> call'[u]]
  BY Seen
<1>2. \A u \in Txs : CallOK(call'[u], fate'[u], seq', Underway(u)')
  <2>1. SUFFICES ASSUME NEW u \in Txs PROVE CallOK(call'[u], fate[u], seq, Underway(u)')
    OBVIOUS
  <2>2. CASE u = t
    BY <1>1, <2>2
  <2>3. CASE u # t
    BY <1>1, <2>3 DEF ClientInv
  <2> QED
    BY <2>2, <2>3
<1>3. seq' \in Nat /\ fate' \in [Txs -> Fates]
  BY DEF ClientInv
<1> QED
  BY <1>1, <1>2, <1>3 DEF ClientInv

(* The node that answers decides between the ledger and nothing: a sending  *)
(* that is not acknowledged as pending is answered once and for all.        *)
LEMMA DoneFields ==
  ASSUME NEW c, NEW f, NEW s, NEW underway, CallOK(c, f, s, underway), NEW a \in ToldOf \ {"none"}
  PROVE  Done(c, a) = [at |-> "done", seq |-> c.seq, left |-> <<>>, attempt |-> c.attempt,
                       answer |-> a, doubt |-> c.doubt]
<1> DEFINE d == Done(c, a)
<1>1. c = [at |-> c.at, seq |-> c.seq, left |-> c.left, attempt |-> c.attempt,
           answer |-> c.answer, doubt |-> c.doubt]
  BY DEF CallOK
<1>2. d = [c EXCEPT !.at = "done", !.left = <<>>, !.answer = a]
  BY DEF Done
<1> HIDE DEF d
<1>3. d = [at |-> "done", seq |-> c.seq, left |-> <<>>, attempt |-> c.attempt,
           answer |-> a, doubt |-> c.doubt]
  BY <1>1, <1>2
<1> QED
  BY <1>3 DEF d

LEMMA RequestingFields ==
  ASSUME NEW c, NEW f, NEW s, NEW underway, CallOK(c, f, s, underway), NEW at
  PROVE  Requesting(c, at) = [at |-> at, seq |-> c.seq, left |-> OrderedEndpoints,
                              attempt |-> c.attempt, answer |-> c.answer, doubt |-> c.doubt]
<1> DEFINE d == Requesting(c, at)
<1>1. c = [at |-> c.at, seq |-> c.seq, left |-> c.left, attempt |-> c.attempt,
           answer |-> c.answer, doubt |-> c.doubt]
  BY DEF CallOK
<1>2. d = [c EXCEPT !.at = at, !.left = OrderedEndpoints]
  BY DEF Requesting
<1> HIDE DEF d
<1>3. d = [at |-> at, seq |-> c.seq, left |-> OrderedEndpoints,
           attempt |-> c.attempt, answer |-> c.answer, doubt |-> c.doubt]
  BY <1>1, <1>2
<1> QED
  BY <1>3 DEF d

(* What a step must do to one call to be seen as nothing, as a request, as  *)
(* an answer or as doubt.                                                   *)
Moves(t, c) ==
  /\ call' = [call EXCEPT ![t] = c]
  /\ UNCHANGED <<seq, fate>>
  /\ queue' \subseteq Txs /\ late' \subseteq Txs
  /\ \A u \in Txs : u # t => Underway(u)' = Underway(u)
  /\ CallOK(c, fate[t], seq, Underway(t)')

LEMMA MoveSeen ==
  ASSUME ClientInv, NEW t \in Txs, NEW c, Moves(t, c),
         \/ /\ c.at \in {"idle", "signed"} <=> call[t].at \in {"idle", "signed"}
            /\ c.answer = call[t].answer /\ (c.doubt <=> call[t].doubt)
         \/ call[t].at = "signed" /\ c.at = "screen" /\ (c.doubt <=> call[t].doubt)
         \/ /\ call[t].at \in {"screen", "send", "poll"} /\ c.at \in {"done", call[t].at}
            /\ \/ c.answer = "none" /\ c.doubt
               \/ c.answer = "unconfirmed"
               \/ (c.doubt <=> call[t].doubt) /\ c.answer = "settled" /\ fate[t] = "applied"
               \/ (c.doubt <=> call[t].doubt) /\ c.answer = "failed" /\ fate[t] = "failed"
               \/ (c.doubt <=> call[t].doubt) /\ c.answer = "refused"
            /\ call[t].doubt => c.doubt
  PROVE  ClientInv' /\ [Submitted!Next]_(Submitted!vars)
<1> DEFINE old == call[t]
<1>1. ClientInv'
  BY CallChanges DEF Moves
<1>2. CallOK(old, fate[t], seq, Underway(t)) /\ CallOK(c, fate[t], seq, Underway(t)')
  BY DEF ClientInv, Moves
<1>3. /\ Asked' = IF c.at \in {"idle", "signed"} THEN Asked \ {t} ELSE Asked \union {t}
      /\ Answers' = [Answers EXCEPT ![t] = c.answer]
      /\ Doubts' = IF c.doubt THEN Doubts \union {t} ELSE Doubts \ {t}
      /\ fate' = fate
  BY Seen DEF Moves
<1>4. /\ t \in Asked <=> old.at \notin {"idle", "signed"}
      /\ t \in Doubts <=> old.doubt
      /\ Answers[t] = old.answer /\ Answers = [u \in Txs |-> Answers[u]]
  BY DEF Asked, Doubts, Answers
<1>5. /\ old.doubt \in BOOLEAN /\ c.doubt \in BOOLEAN /\ old.answer \in ToldOf /\ c.answer \in ToldOf
      /\ (old.answer = "none" <=> old.at # "done") /\ (c.answer = "none" <=> c.at # "done")
  BY <1>2 DEF CallOK
<1> HIDE DEF old
<1>6. CASE /\ c.at \in {"idle", "signed"} <=> old.at \in {"idle", "signed"}
           /\ c.answer = old.answer /\ (c.doubt <=> old.doubt)
  <2>1. Asked' = Asked /\ Doubts' = Doubts /\ Answers' = Answers
    BY <1>3, <1>4, <1>6
  <2> QED
    BY <1>1, <1>3, <2>1, Steps
<1>7. CASE old.at = "signed" /\ c.at = "screen" /\ (c.doubt <=> old.doubt)
  <2>1. c.answer = old.answer
    BY <1>5, <1>7
  <2>2. t \notin Asked /\ Asked' = Asked \union {t} /\ Doubts' = Doubts /\ Answers' = Answers
    BY <1>3, <1>4, <1>7, <2>1
  <2> QED
    BY <1>1, <1>3, <2>2, Steps
<1>8. CASE old.at \in {"screen", "send", "poll"} /\ c.at \in {"done", old.at}
           /\ (old.doubt => c.doubt)
           /\ \/ c.answer = "none" /\ c.doubt
              \/ c.answer = "unconfirmed"
              \/ (c.doubt <=> old.doubt) /\ c.answer = "settled" /\ fate[t] = "applied"
              \/ (c.doubt <=> old.doubt) /\ c.answer = "failed" /\ fate[t] = "failed"
              \/ (c.doubt <=> old.doubt) /\ c.answer = "refused"
  <2>1. t \in Asked /\ Asked' = Asked /\ Answers[t] = "none"
    BY <1>3, <1>4, <1>5, <1>8
  <2>2. Doubts' = IF c.doubt THEN Doubts \union {t} ELSE Doubts
    BY <1>3, <1>4, <1>8
  <2>3. CASE c.answer = "none" /\ c.doubt
    <3>1. Answers' = Answers
      BY <1>3, <1>4, <2>1, <2>3
    <3>2. Submitted!Doubt(t)
      BY <1>3, <2>1, <2>2, <2>3, <3>1 DEF Submitted!Doubt, Asked, Answers, Doubts
    <3> QED
      BY <1>1, <3>2 DEF Submitted!Next
  <2>4. CASE c.answer = "unconfirmed"
    <3>1. c.answer \in ToldOf \ {"none"} /\ (Doubts' = Doubts \/ Doubts' = Doubts \union {t})
      BY <1>5, <2>2, <2>4
    <3> QED
      BY <1>1, <1>3, <2>1, <2>4, <3>1, AnswerStep
  <2>5. CASE /\ c.doubt <=> old.doubt
             /\ \/ c.answer = "settled" /\ fate[t] = "applied"
                \/ c.answer = "failed" /\ fate[t] = "failed"
                \/ c.answer = "refused"
    <3>1. Doubts' = Doubts /\ c.answer \in ToldOf \ {"none"}
      BY <1>4, <1>5, <2>2, <2>5
    <3>2. c.answer = "refused" => fate[t] = "none" \/ t \in Doubts
      BY <1>2, <1>4, <2>5 DEF CallOK
    <3>3. /\ c.answer = "settled" => fate[t] = "applied"
          /\ c.answer = "failed" => fate[t] = "failed"
      BY <2>5
    <3> QED
      BY <1>1, <1>3, <2>1, <3>1, <3>2, <3>3, AnswerStep
  <2> QED
    BY <1>8, <2>3, <2>4, <2>5
<1> QED
  BY <1>6, <1>7, <1>8 DEF old

LEMMA SameUnderway ==
  ASSUME UNCHANGED <<queue, late>>
  PROVE  \A u : Underway(u)' = Underway(u)
  BY DEF Underway

LEMMA OwnerSteps ==
  ASSUME ClientInv, NEW t \in Txs,
         BuildTransaction(t) \/ SwapSubmit(t) \/ \E ok \in BOOLEAN : AssertRelayable(t, ok)
  PROVE  ClientInv' /\ [Submitted!Next]_(Submitted!vars)
<1> DEFINE c == call[t]
<1>1. CallOK(c, fate[t], seq, Underway(t)) /\ seq \in Nat /\ queue \subseteq Txs /\ late \subseteq Txs
  BY DEF ClientInv
<1>2. UNCHANGED network
  BY DEF BuildTransaction, SwapSubmit, AssertRelayable
<1>3. (\A u : Underway(u)' = Underway(u)) /\ UNCHANGED <<seq, fate, queue, late>>
  BY <1>2, SameUnderway DEF network
<1>4. ASSUME NEW d, call' = [call EXCEPT ![t] = d], CallOK(d, fate[t], seq, Underway(t))
      PROVE  Moves(t, d)
  BY <1>1, <1>3, <1>4 DEF Moves
<1>5. CASE BuildTransaction(t)
  <2> DEFINE d == [at |-> "signed", seq |-> seq + 1, left |-> <<>>, attempt |-> 0,
                   answer |-> "none", doubt |-> FALSE]
  <2>1. c.at = "idle" /\ call' = [call EXCEPT ![t] = d]
    <3>1. PICK e : /\ e = [Idle EXCEPT !.at = "signed", !.seq = seq + 1]
                   /\ call' = [call EXCEPT ![t] = e] /\ c.at = "idle"
      BY <1>5 DEF BuildTransaction
    <3>2. e = d
      BY <3>1 DEF Idle
    <3> QED
      BY <3>1, <3>2
  <2>2. c.answer = "none" /\ ~c.doubt /\ ~Underway(t) /\ fate[t] = "none"
    BY <1>1, <2>1 DEF CallOK
  <2>3. CallOK(d, fate[t], seq, Underway(t))
    BY <1>1, <2>2 DEF CallOK, ToldOf
  <2>4. Moves(t, d)
    BY <1>4, <2>1, <2>3
  <2> QED
    BY <2>1, <2>2, <2>4, MoveSeen
<1>6. CASE SwapSubmit(t)
  <2> DEFINE d == [at |-> "screen", seq |-> c.seq, left |-> c.left, attempt |-> c.attempt,
                   answer |-> c.answer, doubt |-> c.doubt]
  <2>1. c.at = "signed" /\ call' = [call EXCEPT ![t].at = "screen"]
    BY <1>6 DEF SwapSubmit
  <2>2. call' = [call EXCEPT ![t] = d]
    <3>1. PICK e : e = [c EXCEPT !.at = "screen"] /\ call' = [call EXCEPT ![t] = e]
      BY <2>1
    <3>2. c = [at |-> c.at, seq |-> c.seq, left |-> c.left, attempt |-> c.attempt,
               answer |-> c.answer, doubt |-> c.doubt]
      BY <1>1 DEF CallOK
    <3>3. e = d
      BY <3>1, <3>2
    <3> QED
      BY <3>1, <3>3
  <2>3. CallOK(d, fate[t], seq, Underway(t))
    BY <1>1, <2>1 DEF CallOK
  <2>4. Moves(t, d) /\ d.at = "screen" /\ d.doubt = c.doubt
    BY <1>4, <2>2, <2>3
  <2> HIDE DEF d
  <2> QED
    BY <2>1, <2>4, MoveSeen
<1>7. CASE AssertRelayable(t, TRUE)
  <2> DEFINE d == [at |-> "send", seq |-> c.seq, left |-> OrderedEndpoints, attempt |-> c.attempt,
                   answer |-> c.answer, doubt |-> c.doubt]
  <2>1. c.at = "screen" /\ call' = [call EXCEPT ![t] = d]
    BY <1>1, <1>7, RequestingFields DEF AssertRelayable
  <2>2. CallOK(d, fate[t], seq, Underway(t))
    BY <1>1, <2>1 DEF CallOK
  <2>3. Moves(t, d) /\ d.at = "send" /\ d.answer = c.answer /\ d.doubt = c.doubt
    BY <1>4, <2>1, <2>2
  <2> HIDE DEF d
  <2> QED
    BY <2>1, <2>3, MoveSeen
<1>8. CASE AssertRelayable(t, FALSE)
  <2> DEFINE d == [at |-> "done", seq |-> c.seq, left |-> <<>>, attempt |-> c.attempt,
                   answer |-> "refused", doubt |-> c.doubt]
  <2>1. c.at = "screen" /\ call' = [call EXCEPT ![t] = d]
    <3>1. "refused" \in ToldOf \ {"none"}
      BY DEF ToldOf
    <3> QED
      BY <1>1, <1>8, <3>1, DoneFields DEF AssertRelayable
  <2>2. CallOK(d, fate[t], seq, Underway(t))
    BY <1>1, <2>1 DEF CallOK, ToldOf
  <2>3. Moves(t, d) /\ d.at = "done" /\ d.answer = "refused" /\ d.doubt = c.doubt
    BY <1>4, <2>1, <2>2
  <2> HIDE DEF d
  <2> QED
    BY <2>1, <2>3, MoveSeen
<1> QED
  BY <1>5, <1>6, <1>7, <1>8

LEMMA SendAnsweredStep ==
  ASSUME ClientInv, NEW t \in Txs, SendAnswered(t)
  PROVE  ClientInv' /\ [Submitted!Next]_(Submitted!vars)
<1> DEFINE c == call[t]
<1>1. CallOK(c, fate[t], seq, Underway(t)) /\ queue \subseteq Txs /\ late \subseteq Txs
  BY DEF ClientInv
<1>2. PICK status :
        /\ call' = [call EXCEPT ![t] = Accepted(t, status)]
        /\ queue' = IF status = "PENDING" THEN queue \union {t} ELSE queue
        /\ c.at = "send" /\ UNCHANGED <<seq, late, fate>>
  BY DEF SendAnswered
<1>3. queue' \subseteq Txs /\ late' \subseteq Txs /\ \A u \in Txs : u # t => Underway(u)' = Underway(u)
  BY <1>1, <1>2 DEF Underway
<1>4. c.answer = "none" /\ c.doubt \in BOOLEAN
  BY <1>1, <1>2 DEF CallOK
<1>5. CASE status = "PENDING"
  <2> DEFINE d == [at |-> "poll", seq |-> c.seq, left |-> OrderedEndpoints, attempt |-> c.attempt,
                   answer |-> c.answer, doubt |-> c.doubt]
  <2>1. call' = [call EXCEPT ![t] = d]
    BY <1>1, <1>2, <1>5, RequestingFields DEF Accepted
  <2>2. CallOK(d, fate[t], seq, Underway(t)')
    BY <1>1, <1>4 DEF CallOK
  <2>3. Moves(t, d) /\ d.at = "poll" /\ d.answer = c.answer /\ d.doubt = c.doubt
    BY <1>2, <1>3, <2>1, <2>2 DEF Moves
  <2> HIDE DEF d
  <2> QED
    BY <1>2, <2>3, MoveSeen
<1>6. CASE status # "PENDING"
  <2> DEFINE d == [at |-> "done", seq |-> c.seq, left |-> <<>>, attempt |-> c.attempt,
                   answer |-> "refused", doubt |-> c.doubt]
  <2>1. call' = [call EXCEPT ![t] = d]
    <3>1. "refused" \in ToldOf \ {"none"}
      BY DEF ToldOf
    <3> QED
      BY <1>1, <1>2, <1>6, <3>1, DoneFields DEF Accepted
  <2>2. Underway(t)' = Underway(t)
    BY <1>2, <1>6 DEF Underway
  <2>3. CallOK(d, fate[t], seq, Underway(t)')
    BY <1>1, <1>2, <2>2 DEF CallOK, ToldOf
  <2>4. Moves(t, d) /\ d.at = "done" /\ d.answer = "refused" /\ d.doubt = c.doubt
    BY <1>2, <1>3, <2>1, <2>3 DEF Moves
  <2> HIDE DEF d
  <2> QED
    BY <1>2, <2>4, MoveSeen
<1> QED
  BY <1>5, <1>6

(* A call that fails is tried elsewhere, or is the answer: unconfirmed.     *)
LEMMA FailsOver ==
  ASSUME ClientInv, NEW t \in Txs, call[t].at \in {"send", "poll"},
         call' = [call EXCEPT ![t] = FailedOver(t)], UNCHANGED <<seq, fate>>,
         queue' \subseteq Txs, late' \subseteq Txs,
         \A u \in Txs : u # t => Underway(u)' = Underway(u)
  PROVE  ClientInv' /\ [Submitted!Next]_(Submitted!vars)
<1> DEFINE c == call[t]
           rest == Tail(c.left)
           doubt == c.doubt \/ c.at = "send"
           on == [at |-> c.at, seq |-> c.seq, left |-> rest, attempt |-> c.attempt,
                  answer |-> c.answer, doubt |-> doubt]
           d == IF rest = <<>> THEN Done(on, "unconfirmed") ELSE on
<1>1. CallOK(c, fate[t], seq, Underway(t))
  BY DEF ClientInv
<1>2. c = [at |-> c.at, seq |-> c.seq, left |-> c.left, attempt |-> c.attempt,
           answer |-> c.answer, doubt |-> c.doubt]
      /\ c.answer = "none" /\ c.doubt \in BOOLEAN
  BY <1>1 DEF CallOK
<1>3. call' = [call EXCEPT ![t] = d]
  <2>1. PICK e : e = [call[t] EXCEPT !.left = Tail(call[t].left),
                                     !.doubt = @ \/ call[t].at = "send"]
    OBVIOUS
  <2>2. call' = [call EXCEPT ![t] = IF rest = <<>> THEN Done(e, "unconfirmed") ELSE e]
    BY <2>1 DEF FailedOver
  <2> HIDE DEF c, rest
  <2>3. e = on
    BY <1>2, <2>1 DEF c, rest
  <2> QED
    BY <2>2, <2>3
<1> HIDE DEF c, rest
<1>4. doubt \in BOOLEAN /\ (c.at = "send" => doubt) /\ (c.at = "poll" => (doubt <=> c.doubt))
      /\ (c.doubt => doubt)
  BY <1>2
<1> HIDE DEF doubt
<1>5. c.at \in {"send", "poll"}
  BY DEF c
<1>6. CallOK(on, fate[t], seq, Underway(t)')
  BY <1>1, <1>2, <1>4, <1>5 DEF CallOK
<1>7. Done(on, "unconfirmed")
        = [at |-> "done", seq |-> c.seq, left |-> <<>>, attempt |-> c.attempt,
           answer |-> "unconfirmed", doubt |-> doubt]
  <2>1. "unconfirmed" \in ToldOf \ {"none"}
    BY DEF ToldOf
  <2> QED
    BY <1>6, <2>1, DoneFields
<1>8. CallOK(Done(on, "unconfirmed"), fate[t], seq, Underway(t)')
  BY <1>1, <1>4, <1>7 DEF CallOK, ToldOf
<1>9. CASE rest = <<>>
  <2>1. d = Done(on, "unconfirmed")
    BY <1>9
  <2> HIDE DEF d
  <2>2. CallOK(d, fate[t], seq, Underway(t)')
    BY <1>8, <2>1
  <2>3. Moves(t, d)
    BY <1>3, <2>2 DEF Moves
  <2>4. Moves(t, d) /\ d.at = "done" /\ d.answer = "unconfirmed" /\ d.doubt = doubt
    BY <1>7, <2>1, <2>3
  <2> QED
    BY <1>4, <1>5, <2>4, MoveSeen DEF c
<1>10. CASE rest # <<>>
  <2>1. Moves(t, d) /\ d.at = c.at /\ d.answer = c.answer /\ d.doubt = doubt
    BY <1>3, <1>6, <1>10 DEF Moves
  <2> HIDE DEF d
  <2>2. CASE c.at = "send"
    BY <1>2, <1>4, <2>1, <2>2, MoveSeen DEF c
  <2>3. CASE c.at = "poll"
    BY <1>2, <1>4, <2>1, <2>3, MoveSeen DEF c
  <2> QED
    BY <1>5, <2>2, <2>3
<1> QED
  BY <1>9, <1>10

LEMMA SendFailsStep ==
  ASSUME ClientInv, NEW t \in Txs, SendFails(t)
  PROVE  ClientInv' /\ [Submitted!Next]_(Submitted!vars)
<1>1. /\ call[t].at = "send" /\ call' = [call EXCEPT ![t] = FailedOver(t)] /\ UNCHANGED <<seq, fate>>
      /\ queue' \in {queue, Arrived(t)} /\ late' \in {late, late \union {t}}
  BY DEF SendFails, TransportFails
<1>2. queue \subseteq Txs /\ late \subseteq Txs /\ Arrived(t) \in {queue, queue \union {t}}
  BY DEF ClientInv, Arrived
<1>3. queue' \subseteq Txs /\ late' \subseteq Txs /\ \A u \in Txs : u # t => Underway(u)' = Underway(u)
  BY <1>1, <1>2 DEF Underway
<1> QED
  BY <1>1, <1>3, FailsOver

LEMMA PollFailsStep ==
  ASSUME ClientInv, NEW t \in Txs, PollFails(t)
  PROVE  ClientInv' /\ [Submitted!Next]_(Submitted!vars)
<1>1. /\ call[t].at = "poll" /\ call' = [call EXCEPT ![t] = FailedOver(t)]
      /\ UNCHANGED <<seq, fate, queue, late>>
  BY DEF PollFails, TransportFails
<1>2. queue' \subseteq Txs /\ late' \subseteq Txs /\ \A u \in Txs : u # t => Underway(u)' = Underway(u)
  BY <1>1, SameUnderway DEF ClientInv
<1> QED
  BY <1>1, <1>2, FailsOver

(* A poll answers with what some endpoint has seen of the ledger: it asks   *)
(* again, or answers, and a ledger once closed does not change its mind.    *)
LEMMA PollAnsweredStep ==
  ASSUME ClientInv, NEW t \in Txs, PollAnswered(t)
  PROVE  ClientInv' /\ [Submitted!Next]_(Submitted!vars)
<1> DEFINE c == call[t]
<1>1. CallOK(c, fate[t], seq, Underway(t)) /\ queue \subseteq Txs /\ late \subseteq Txs
  BY DEF ClientInv
<1>2. PICK status \in {"none", fate[t]} :
        call' = [call EXCEPT ![t] = Polled(t, status)] /\ c.at = "poll" /\ UNCHANGED network
  BY DEF PollAnswered
<1>3. UNCHANGED <<seq, fate, queue, late>> /\ \A u : Underway(u)' = Underway(u)
  BY <1>2, SameUnderway DEF network
<1>4. c.answer = "none" /\ c.doubt \in BOOLEAN
  BY <1>1, <1>2 DEF CallOK
<1>5. ASSUME NEW a \in {"settled", "failed", "unconfirmed"}, Polled(t, status) = Done(c, a),
             a = "settled" => fate[t] = "applied", a = "failed" => fate[t] = "failed"
      PROVE  ClientInv' /\ [Submitted!Next]_(Submitted!vars)
  <2> DEFINE d == [at |-> "done", seq |-> c.seq, left |-> <<>>, attempt |-> c.attempt,
                   answer |-> a, doubt |-> c.doubt]
  <2>1. call' = [call EXCEPT ![t] = d]
    <3>1. a \in ToldOf \ {"none"}
      BY DEF ToldOf
    <3>2. Done(c, a) = d
      BY <1>1, <3>1, DoneFields
    <3> QED
      BY <1>2, <1>5, <3>2
  <2>2. CallOK(d, fate[t], seq, Underway(t)')
    BY <1>1, <1>4 DEF CallOK, ToldOf
  <2>3. Moves(t, d)
    BY <1>1, <1>3, <2>1, <2>2 DEF Moves
  <2>4. d.at = "done" /\ d.answer = a /\ d.doubt = c.doubt
    OBVIOUS
  <2> HIDE DEF d
  <2> QED
    BY <1>2, <1>5, <2>3, <2>4, MoveSeen
<1>6. ASSUME Polled(t, status) = [Requesting(c, "poll") EXCEPT !.attempt = @ + 1]
      PROVE  ClientInv' /\ [Submitted!Next]_(Submitted!vars)
  <2> DEFINE d == [at |-> "poll", seq |-> c.seq, left |-> OrderedEndpoints,
                   attempt |-> c.attempt + 1, answer |-> c.answer, doubt |-> c.doubt]
  <2>1. call' = [call EXCEPT ![t] = d]
    <3>1. PICK e : e = Requesting(c, "poll")
      OBVIOUS
    <3>2. e = [at |-> "poll", seq |-> c.seq, left |-> OrderedEndpoints,
               attempt |-> c.attempt, answer |-> c.answer, doubt |-> c.doubt]
      BY <1>1, <3>1, RequestingFields
    <3>3. PICK g : g = [e EXCEPT !.attempt = @ + 1]
      OBVIOUS
    <3> HIDE DEF c
    <3>4. g = d
      BY <3>2, <3>3
    <3> QED
      BY <1>2, <1>6, <3>1, <3>3, <3>4
  <2>2. CallOK(d, fate[t], seq, Underway(t)')
    BY <1>1, <1>4 DEF CallOK
  <2>3. Moves(t, d)
    BY <1>1, <1>3, <2>1, <2>2 DEF Moves
  <2>4. d.at = "poll" /\ d.answer = c.answer /\ d.doubt = c.doubt
    OBVIOUS
  <2> HIDE DEF d
  <2> QED
    BY <1>2, <2>3, <2>4, MoveSeen
<1> QED
  BY <1>2, <1>5, <1>6 DEF Polled

LEMMA NoCall ==
  ASSUME UNCHANGED <<call, fate>>
  PROVE  UNCHANGED Submitted!vars
  BY DEF Submitted!vars

(* What is on its way arrives late or is dropped: nobody is told.           *)
LEMMA NetworkStep ==
  ASSUME ClientInv, NEW t \in Txs, LateArrives(t) \/ Drop(t)
  PROVE  ClientInv' /\ [Submitted!Next]_(Submitted!vars)
<1>1. UNCHANGED <<call, seq, fate>> /\ queue' \subseteq Txs /\ late' \subseteq Txs
  BY DEF ClientInv, LateArrives, Drop, Arrived
<1>2. \A u : Underway(u)' => Underway(u)
  BY DEF LateArrives, Drop, Arrived, Underway
<1>3. \A u \in Txs : CallOK(call[u], fate[u], seq, Underway(u)')
  BY <1>2 DEF ClientInv, CallOK
<1>4. ClientInv'
  BY <1>1, <1>3 DEF ClientInv
<1> QED
  BY <1>1, <1>4, NoCall

(* A ledger takes only what is on its way and has the next number: what     *)
(* nobody was refused, or somebody was left in doubt about.                 *)
LEMMA CloseStep ==
  ASSUME ClientInv, NEW t \in Txs, NEW f \in {"applied", "failed"}, Close(t, f)
  PROVE  ClientInv' /\ [Submitted!Next]_(Submitted!vars)
<1>1. /\ t \in queue /\ call[t].seq = seq + 1 /\ fate' = [fate EXCEPT ![t] = f]
      /\ seq' = seq + 1 /\ queue' = queue \ {t} /\ UNCHANGED <<call, late>>
  BY DEF Close
<1>2. /\ seq \in Nat /\ fate \in [Txs -> Fates] /\ queue \subseteq Txs /\ late \subseteq Txs
      /\ call = [u \in Txs |-> call[u]]
      /\ \A u \in Txs : CallOK(call[u], fate[u], seq, Underway(u))
  BY DEF ClientInv
<1>3. Underway(t) /\ \A u : Underway(u)' => Underway(u)
  BY <1>1 DEF Underway
<1>4. /\ fate[t] = "none" /\ call[t].at \notin {"idle", "signed", "screen"}
      /\ call[t].answer = "refused" => call[t].doubt
      /\ ~call[t].doubt => call[t].at # "send" /\ call[t].answer # "refused"
  BY <1>1, <1>2, <1>3 DEF CallOK
<1>5. ASSUME NEW u \in Txs PROVE CallOK(call[u], fate'[u], seq + 1, Underway(u)')
  <2>1. CASE u = t
    BY <1>1, <1>2, <1>4, <2>1 DEF CallOK
  <2>2. CASE u # t
    BY <1>1, <1>2, <1>3, <2>2 DEF CallOK
  <2> QED
    BY <2>1, <2>2
<1>6. ClientInv'
  BY <1>1, <1>2, <1>5 DEF ClientInv, Fates
<1>7. Submitted!Land(t, f)
  BY <1>1, <1>2, <1>4 DEF Submitted!Land
<1> QED
  BY <1>6, <1>7 DEF Submitted!Next

LEMMA ElsewhereStep ==
  ASSUME ClientInv, SignedElsewhere
  PROVE  ClientInv' /\ [Submitted!Next]_(Submitted!vars)
<1>1. seq' = seq + 1 /\ UNCHANGED <<call, queue, late, fate>>
  BY DEF SignedElsewhere
<1>2. seq \in Nat /\ \A u : Underway(u)' = Underway(u)
  BY <1>1, SameUnderway DEF ClientInv
<1>3. \A u \in Txs : CallOK(call[u], fate[u], seq + 1, Underway(u)')
  BY <1>2 DEF ClientInv, CallOK
<1>4. ClientInv'
  BY <1>1, <1>2, <1>3 DEF ClientInv
<1> QED
  BY <1>1, <1>4, NoCall

LEMMA QuietStep ==
  ASSUME ClientInv, UNCHANGED <<call, network>>
  PROVE  ClientInv' /\ [Submitted!Next]_(Submitted!vars)
<1>1. UNCHANGED <<call, seq, queue, late, fate>> /\ \A u : Underway(u)' = Underway(u)
  BY SameUnderway DEF network
<1> QED
  BY <1>1, NoCall DEF ClientInv

LEMMA StepKept ==
  ASSUME ClientInv, [ClientNext]_clientVars
  PROVE  ClientInv' /\ [Submitted!Next]_(Submitted!vars)
<1>1. CASE \E t \in Txs : BuildTransaction(t) \/ SwapSubmit(t) \/ \E ok \in BOOLEAN : AssertRelayable(t, ok)
  BY <1>1, OwnerSteps
<1>2. CASE \E t \in Txs : SendAnswered(t)
  BY <1>2, SendAnsweredStep
<1>3. CASE \E t \in Txs : SendFails(t)
  BY <1>3, SendFailsStep
<1>4. CASE \E t \in Txs : PollAnswered(t)
  BY <1>4, PollAnsweredStep
<1>5. CASE \E t \in Txs : PollFails(t)
  BY <1>5, PollFailsStep
<1>6. CASE \E t \in Txs : LateArrives(t) \/ Drop(t)
  BY <1>6, NetworkStep
<1>7. CASE \E t \in Txs, f \in {"applied", "failed"} : Close(t, f)
  BY <1>7, CloseStep
<1>8. CASE SignedElsewhere
  BY <1>8, ElsewhereStep
<1>9. CASE (\E ok \in BOOLEAN : Probe(ok)) \/ Tick \/ UNCHANGED clientVars
  BY <1>9, QuietStep DEF Probe, Tick, clientVars
<1> QED
  BY <1>1, <1>2, <1>3, <1>4, <1>5, <1>6, <1>7, <1>8, <1>9 DEF ClientNext

(* The relay, submission, polling and failover implement the Submission's   *)
(* safety, step by step: whoever submits gets one answer, "settled" and     *)
(* "failed" only of what the ledger did, and what was refused without a     *)
(* sending in doubt never reaches the ledger.                               *)
THEOREM SubmissionsNeverLie ==
  ClientSpec => Submitted!Init /\ [][Submitted!Next]_(Submitted!vars)
<1>1. ClientInit => ClientInv /\ Submitted!Init
  BY InitKeeps
<1>2. ClientInv /\ [ClientNext]_clientVars => ClientInv' /\ [Submitted!Next]_(Submitted!vars)
  BY StepKept
<1> QED
  BY <1>1, <1>2, PTL DEF ClientSpec
=============================================================================
