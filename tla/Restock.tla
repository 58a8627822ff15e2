------------------------------- MODULE Restock -------------------------------
(***************************************************************************)
(* The maker bot's restocker: whenever the wallet holds less of a bond than *)
(* its floor, a tick orders more from the issuer and funds the order with   *)
(* the transaction the issuer prepares.  Ticks are started by an interval   *)
(* that does not look at the one before.  Each call to the issuer, and each *)
(* submission, is an await; the issuer's client throws on a refusal and     *)
(* after its timeout, when the call may have been carried out all the same. *)
(***************************************************************************)
EXTENDS Integers, Sequences, SequencesExt, FiniteSets

CONSTANTS
  NoOrder,
  Targets,                  \* the configured bonds, in the order of a tick
  Ticks,                    \* bound on the ticks under way at once
  MaxOrders, MaxThrows      \* bounds on the orders made and on failing calls

ASSUME RestockAssumption == {MaxOrders, MaxThrows} \subseteq Nat

VARIABLES
  tick,      \* each tick's place in its pass, or NotTicking
  pending,   \* the order the restocker waits on, by bond
  order,     \* the issuer's orders; the id is the position
  short,     \* the bonds of which the wallet holds less than the floor
  sequence,  \* the wallet's sequence number on chain
  throws     \* calls that have thrown

restockVars == <<tick, pending, order, short, sequence, throws>>

Assets == ToSet(Targets)
Orders == DOMAIN order
Final == {"completed", "failed", "canceled", "refunded"}
NotTicking == [at |-> "none", left |-> <<>>, low |-> {}, id |-> NoOrder, tx |-> 0]
Unprepared == 0

-----------------------------------------------------------------------------
(* A tick's pass                                                            *)

Bond(t) == Head(tick[t].left)
AtStep(t, step) == tick[t].at = step
Goto(t, step) == tick' = [tick EXCEPT ![t].at = step]

(* one() up to its first await, for the first of the bonds left.            *)
OneFrom(left, low, waiting) ==
  LET skipped(b) == waiting[b] = NoOrder /\ b \notin low
      rest == SelectInSeq(left, LAMBDA b : ~skipped(b))
      bonds == IF rest = 0 THEN <<>> ELSE SubSeq(left, rest, Len(left))
  IN IF bonds = <<>> THEN NotTicking
     ELSE [at |-> IF waiting[Head(bonds)] # NoOrder THEN "status" ELSE "quote",
           left |-> bonds, low |-> low, id |-> waiting[Head(bonds)], tx |-> Unprepared]

(* On to the next bond, once pending is what it becomes.                    *)
NextTarget(t, waiting) ==
  /\ pending' = waiting
  /\ tick' = [tick EXCEPT ![t] = OneFrom(Tail(@.left), @.low, waiting)]

StartTick(t) ==
  /\ tick[t] = NotTicking
  /\ tick' = [tick EXCEPT ![t] = [NotTicking EXCEPT !.at = "balances"]]
  /\ UNCHANGED <<pending, order, short, sequence, throws>>

Balances(t) ==
  /\ AtStep(t, "balances")
  /\ tick' = [tick EXCEPT ![t] = OneFrom(Targets, short, pending)]
  /\ UNCHANGED <<pending, order, short, sequence, throws>>

(* Only a completed order lets the same pass look at the balance, which it  *)
(* read before.                                                             *)
Status(t) ==
  LET status == order[tick[t].id].status
      cleared == [pending EXCEPT ![Bond(t)] = NoOrder]
  IN /\ AtStep(t, "status")
     /\ IF status = "completed" /\ Bond(t) \in tick[t].low
        THEN pending' = cleared /\ Goto(t, "quote")
        ELSE NextTarget(t, IF status \in Final THEN cleared ELSE pending)
     /\ UNCHANGED <<order, short, sequence, throws>>

(* The quote is dear, or it is ordered.                                     *)
Quote(t) ==
  /\ AtStep(t, "quote")
  /\ \/ NextTarget(t, pending)
     \/ Goto(t, "create") /\ UNCHANGED pending
  /\ UNCHANGED <<order, short, sequence, throws>>

(* External: an order made at the issuer, its transaction there or not yet. *)
Made(bond, tx) == Append(order, [bond |-> bond, status |-> "created", tx |-> tx, paid |-> 0])
MayOrder == Len(order) < MaxOrders

CreateOrder(t) ==
  /\ AtStep(t, "create") /\ MayOrder
  /\ \E tx \in {Unprepared, sequence} :
       /\ order' = Made(Bond(t), tx)
       /\ tick' = [tick EXCEPT ![t] =
                     [@ EXCEPT !.at = IF tx = Unprepared THEN "again" ELSE "sign",
                               !.id = Len(order) + 1, !.tx = tx]]
  /\ UNCHANGED <<pending, short, sequence, throws>>

Waiting(t) == [pending EXCEPT ![Bond(t)] = tick[t].id]

Again(t) ==
  /\ AtStep(t, "again")
  /\ IF order[tick[t].id].tx = Unprepared
     THEN NextTarget(t, Waiting(t))
     ELSE /\ tick' = [tick EXCEPT ![t].at = "sign", ![t].tx = order[tick[t].id].tx]
          /\ UNCHANGED pending
  /\ UNCHANGED <<order, short, sequence, throws>>

-----------------------------------------------------------------------------
(* Funding                                                                  *)

(* External: the ledger applies a transaction that has the next number.     *)
Pays(t) ==
  /\ tick[t].tx = sequence
  /\ sequence' = sequence + 1
  /\ order' = [order EXCEPT ![tick[t].id].paid = @ + 1]

Funded(t) ==
  /\ tick[t].at \in {"sign", "resign"}
  /\ Pays(t)
  /\ NextTarget(t, Waiting(t))
  /\ UNCHANGED <<short, throws>>

(* The submission fails: by the number, or without an answer though the     *)
(* ledger may have taken it.  Only an error whose text names the number has *)
(* the order funded afresh, and the ledger's refusal need not name it.  A   *)
(* second failure leaves the order unnoted.                                 *)
BadSequence(t) ==
  /\ tick[t].at \in {"sign", "resign"} /\ tick[t].tx # sequence
  /\ \/ AtStep(t, "sign") /\ Goto(t, "refresh") /\ UNCHANGED pending
     \/ AtStep(t, "sign") /\ NextTarget(t, Waiting(t))
     \/ AtStep(t, "resign") /\ tick' = [tick EXCEPT ![t] = NotTicking] /\ UNCHANGED pending
  /\ UNCHANGED <<order, short, sequence, throws>>

Throwing == throws < MaxThrows /\ throws' = throws + 1

(* Faulty: any failure has the order funded afresh.                         *)
SubmissionLostRetried(t) ==
  /\ Throwing
  /\ Pays(t) \/ UNCHANGED <<order, sequence>>
  /\ \/ AtStep(t, "sign") /\ Goto(t, "refresh") /\ UNCHANGED pending
     \/ AtStep(t, "resign") /\ tick' = [tick EXCEPT ![t] = NotTicking] /\ UNCHANGED pending
  /\ UNCHANGED short

SubmissionLost(t) ==
  /\ Throwing
  /\ Pays(t) \/ UNCHANGED <<order, sequence>>
  /\ \/ AtStep(t, "sign") /\ NextTarget(t, Waiting(t))
     \/ AtStep(t, "resign") /\ tick' = [tick EXCEPT ![t] = NotTicking] /\ UNCHANGED pending
  /\ UNCHANGED short

(* The issuer prepares the transaction afresh, or has none to give.         *)
Refresh(t) ==
  /\ AtStep(t, "refresh")
  /\ \/ /\ order[tick[t].id].status = "created"
        /\ tick' = [tick EXCEPT ![t].at = "resign", ![t].tx = sequence]
        /\ UNCHANGED pending
     \/ NextTarget(t, Waiting(t))
  /\ UNCHANGED <<order, short, sequence, throws>>

(* A call throws and takes the tick with it, the bonds left included.  The  *)
(* order may have been made.                                                *)
Throw(t) ==
  /\ Throwing
  /\ tick[t].at \in {"balances", "status", "quote", "create", "again", "refresh"}
  /\ tick' = [tick EXCEPT ![t] = NotTicking]
  /\ \/ UNCHANGED order
     \/ AtStep(t, "create") /\ MayOrder /\ order' = Made(Bond(t), sequence)
  /\ UNCHANGED <<pending, short, sequence>>

-----------------------------------------------------------------------------
(* External: the issuer and the wallet                                      *)

Prepare(id) ==
  /\ order[id].status = "created" /\ order[id].tx = Unprepared
  /\ order' = [order EXCEPT ![id].tx = sequence]
  /\ UNCHANGED <<tick, pending, short, sequence, throws>>

(* The issuer sees the payment some time after it was made.                 *)
Observe(id) ==
  /\ order[id].status = "created" /\ order[id].paid > 0
  /\ order' = [order EXCEPT ![id].status = "funded"]
  /\ UNCHANGED <<tick, pending, short, sequence, throws>>

Complete(id) ==
  /\ order[id].status = "funded"
  /\ order' = [order EXCEPT ![id].status = "completed"]
  /\ short' = short \ {order[id].bond}
  /\ UNCHANGED <<tick, pending, sequence, throws>>

GiveUp(id) ==
  /\ order[id].status \notin Final
  /\ order' = [order EXCEPT ![id].status = IF @ = "created" THEN "canceled" ELSE "refunded"]
  /\ UNCHANGED <<tick, pending, short, sequence, throws>>

(* The desk sells bonds.                                                    *)
Sell(bond) ==
  /\ bond \notin short
  /\ short' = short \union {bond}
  /\ UNCHANGED <<tick, pending, order, sequence, throws>>

RestockInit ==
  /\ tick = [t \in Ticks |-> NotTicking]
  /\ pending = [b \in Assets |-> NoOrder]
  /\ order = <<>> /\ short = {} /\ sequence = 1 /\ throws = 0

RestockStep(t) ==
  \/ Balances(t) \/ Status(t) \/ Quote(t) \/ CreateOrder(t) \/ Again(t)
  \/ Funded(t) \/ BadSequence(t) \/ SubmissionLost(t) \/ Refresh(t) \/ Throw(t)

RestockNext ==
  \/ \E t \in Ticks : StartTick(t) \/ RestockStep(t)
  \/ \E id \in Orders : Prepare(id) \/ Observe(id) \/ Complete(id) \/ GiveUp(id)
  \/ \E b \in Assets : Sell(b)

RestockSpec == RestockInit /\ [][RestockNext]_restockVars

-----------------------------------------------------------------------------
(* However submissions fail, are lost, or cross those of another tick, and  *)
(* however often the transaction is prepared, no order is paid for twice.   *)
NoOrderPaidTwice == \A id \in Orders : order[id].paid <= 1

(* "One order at a time per asset."                                         *)
OneOrderPerAsset ==
  \A b \in Assets :
    Cardinality({id \in Orders : order[id].bond = b /\ order[id].status \notin Final}) <= 1
=============================================================================
