---------------------------- MODULE StellarClient ----------------------------
(***************************************************************************)
(* Getting a signed transaction onto the ledger: the server's relay, the    *)
(* client's submission and polling, and its failover from one RPC endpoint  *)
(* to the next, for the transactions of one account.  A call to an endpoint *)
(* that fails or times out may have arrived all the same, or may still.     *)
(***************************************************************************)
EXTENDS Naturals, FiniteSets, Sequences, SequencesExt

CONSTANTS
  Endpoints,                  \* the RPC endpoints, the primary first
  Txs,                        \* one per submission, all of one source account
  RPC_FAILOVER_COOLDOWN, SUBMIT_POLL_ATTEMPTS,
  MaxTime, MaxSeq, MaxFailures                               \* bounds

ASSUME ClientAssumption ==
  /\ Endpoints \in Seq(Range(Endpoints)) /\ Endpoints # <<>>
  /\ {RPC_FAILOVER_COOLDOWN, SUBMIT_POLL_ATTEMPTS} \subseteq Nat \ {0}
  /\ {MaxTime, MaxSeq, MaxFailures} \subseteq Nat

VARIABLES
  endpointDownUntil, now,
  call,       \* of each transaction: where its submission is
  seq,        \* the account's sequence number
  queue,      \* the network's: transactions taken and not yet in a ledger
  late,       \* given up by the client, yet still on their way
  fate,       \* what the ledger made of each transaction
  failures    \* not in the code: a count, bounded

network == <<seq, queue, late, fate>>
clientVars == <<endpointDownUntil, now, call, network, failures>>

-----------------------------------------------------------------------------
(* The endpoints                                                            *)

OrderedEndpoints ==
  SelectSeq(Endpoints, LAMBDA e : endpointDownUntil[e] <= now)
    \o SelectSeq(Endpoints, LAMBDA e : endpointDownUntil[e] > now)

Recovered(e) == [endpointDownUntil EXCEPT ![e] = 0]
Down(e) == [endpointDownUntil EXCEPT ![e] = now + RPC_FAILOVER_COOLDOWN]

(* The health check asks the primary, whatever its cooldown.                *)
Probe(ok) ==
  LET primary == Endpoints[1]
  IN /\ ~ok => failures < MaxFailures
     /\ endpointDownUntil' = IF ok THEN Recovered(primary) ELSE Down(primary)
     /\ failures' = failures + IF ok THEN 0 ELSE 1
     /\ UNCHANGED <<now, call, network>>

-----------------------------------------------------------------------------
(* The client.  A call that is sending or polling holds the endpoints it    *)
(* has not tried for the request in hand.  Not in the code: whether a       *)
(* sending of it was ever left in doubt.                                    *)

Idle == [at |-> "idle", seq |-> 0, left |-> <<>>, attempt |-> 0, answer |-> "none",
         doubt |-> FALSE]
Done(c, a) == [c EXCEPT !.at = "done", !.left = <<>>, !.answer = a]
Requesting(c, at) == [c EXCEPT !.at = at, !.left = OrderedEndpoints]

(* Built from the account as it is, and signed by its owner.                *)
BuildTransaction(t) ==
  /\ call[t].at = "idle"
  /\ call' = [call EXCEPT ![t] = [Idle EXCEPT !.at = "signed", !.seq = seq + 1]]
  /\ UNCHANGED <<endpointDownUntil, now, network, failures>>

SwapSubmit(t) ==
  /\ call[t].at = "signed"
  /\ call' = [call EXCEPT ![t].at = "screen"]
  /\ UNCHANGED <<endpointDownUntil, now, network, failures>>

(* The relay takes only what the server builds, of accounts not blocked.    *)
AssertRelayable(t, ok) ==
  /\ call[t].at = "screen"
  /\ call' = [call EXCEPT ![t] = IF ok THEN Requesting(@, "send") ELSE Done(@, "refused")]
  /\ UNCHANGED <<endpointDownUntil, now, network, failures>>

(* What a node makes of a transaction; the others may not know of it yet.   *)
Admits(t) == fate[t] = "none" /\ queue \subseteq {t} /\ call[t].seq = seq + 1
Statuses(t) ==
  IF t \in queue THEN {"PENDING", "DUPLICATE"}
  ELSE IF Admits(t) THEN {"PENDING", "ERROR", "TRY_AGAIN_LATER"}
  ELSE IF queue = {} THEN {"ERROR"} ELSE {"ERROR", "TRY_AGAIN_LATER"}
Arrived(t) == IF Admits(t) THEN queue \union {t} ELSE queue

Accepted(t, status) ==
  IF status = "PENDING" THEN Requesting(call[t], "poll")
  ELSE Done(call[t], "refused")

SendAnswered(t) ==
  /\ call[t].at = "send"
  /\ \E status \in Statuses(t) :
       /\ call' = [call EXCEPT ![t] = Accepted(t, status)]
       /\ queue' = IF status = "PENDING" THEN queue \union {t} ELSE queue
  /\ endpointDownUntil' = Recovered(Head(call[t].left))
  /\ UNCHANGED <<now, seq, late, fate, failures>>

(* On to the next endpoint, and after the last one the error is the answer. *)
FailedOver(t) ==
  LET rest == Tail(call[t].left)
      on == [call[t] EXCEPT !.left = rest, !.doubt = @ \/ call[t].at = "send"]
  IN IF rest = <<>> THEN Done(on, "unconfirmed") ELSE on

TransportFails(t) ==
  /\ failures < MaxFailures
  /\ failures' = failures + 1
  /\ endpointDownUntil' = Down(Head(call[t].left))
  /\ call' = [call EXCEPT ![t] = FailedOver(t)]
  /\ UNCHANGED <<now, seq, fate>>

SendFails(t) ==
  /\ call[t].at = "send" /\ TransportFails(t)
  /\ \/ UNCHANGED <<queue, late>>
     \/ queue' = Arrived(t) /\ UNCHANGED late
     \/ late' = late \union {t} /\ UNCHANGED queue

(* Faulty: whatever the ledger says is a success.                           *)
SettledIfFound(t, status) ==
  IF status # "none" THEN Done(call[t], "settled")
  ELSE IF call[t].attempt + 1 = SUBMIT_POLL_ATTEMPTS THEN Done(call[t], "unconfirmed")
  ELSE [Requesting(call[t], "poll") EXCEPT !.attempt = @ + 1]

Polled(t, status) ==
  IF status = "applied" THEN Done(call[t], "settled")
  ELSE IF status = "failed" THEN Done(call[t], "failed")
  ELSE IF call[t].attempt + 1 = SUBMIT_POLL_ATTEMPTS THEN Done(call[t], "unconfirmed")
  ELSE [Requesting(call[t], "poll") EXCEPT !.attempt = @ + 1]

(* An endpoint may lag behind the ledger.                                   *)
PollAnswered(t) ==
  /\ call[t].at = "poll"
  /\ \E status \in {"none", fate[t]} : call' = [call EXCEPT ![t] = Polled(t, status)]
  /\ endpointDownUntil' = Recovered(Head(call[t].left))
  /\ UNCHANGED <<now, network, failures>>

PollFails(t) == call[t].at = "poll" /\ TransportFails(t) /\ UNCHANGED <<queue, late>>

-----------------------------------------------------------------------------
(* The network, and the account's other transactions                        *)

LateArrives(t) ==
  /\ t \in late
  /\ late' = late \ {t}
  /\ queue' = Arrived(t)
  /\ UNCHANGED <<endpointDownUntil, now, call, seq, fate, failures>>

Close(t, f) ==
  /\ t \in queue /\ call[t].seq = seq + 1
  /\ fate' = [fate EXCEPT ![t] = f]
  /\ seq' = seq + 1
  /\ queue' = queue \ {t}
  /\ UNCHANGED <<endpointDownUntil, now, call, late, failures>>

Drop(t) ==
  /\ t \in queue
  /\ queue' = queue \ {t}
  /\ UNCHANGED <<endpointDownUntil, now, call, seq, late, fate, failures>>

SignedElsewhere ==
  /\ seq < MaxSeq /\ queue = {}
  /\ seq' = seq + 1
  /\ UNCHANGED <<endpointDownUntil, now, call, queue, late, fate, failures>>

Tick ==
  /\ now < MaxTime
  /\ now' = now + 1
  /\ UNCHANGED <<endpointDownUntil, call, network, failures>>

ClientInit ==
  /\ endpointDownUntil = [e \in Range(Endpoints) |-> 0] /\ now = 0
  /\ call = [t \in Txs |-> Idle]
  /\ seq = 0 /\ queue = {} /\ late = {} /\ failures = 0
  /\ fate = [t \in Txs |-> "none"]

Progress(t) ==
  (\E ok \in BOOLEAN : AssertRelayable(t, ok)) \/ SendAnswered(t) \/ SendFails(t) \/ PollAnswered(t) \/ PollFails(t)

ClientNext ==
  \/ \E ok \in BOOLEAN : Probe(ok)
  \/ \E t \in Txs :
       \/ BuildTransaction(t) \/ SwapSubmit(t)
       \/ \E ok \in BOOLEAN : AssertRelayable(t, ok)
       \/ SendAnswered(t) \/ SendFails(t) \/ PollAnswered(t) \/ PollFails(t)
       \/ LateArrives(t) \/ Drop(t)
       \/ \E f \in {"applied", "failed"} : Close(t, f)
  \/ SignedElsewhere \/ Tick

(* Every call to an endpoint has a timeout, and a handler that was resumed  *)
(* runs; nothing is assumed of the network, nor that somebody submits.      *)
ClientSpec ==
  ClientInit /\ [][ClientNext]_clientVars
    /\ \A t \in Txs : WF_clientVars(Progress(t))

-----------------------------------------------------------------------------
(* Whatever the endpoints do, whoever submits is answered in the end and    *)
(* never told what the ledger contradicts: a submission is a Submission.    *)
Submitted ==
  INSTANCE Submission WITH
    asked <- {t \in Txs : call[t].at \notin {"idle", "signed"}},
    answer <- [t \in Txs |-> call[t].answer],
    doubt <- {t \in Txs : call[t].doubt}
SubmissionsKeepTheirPromise == Submitted!Spec
=============================================================================
