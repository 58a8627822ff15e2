----------------------------- MODULE TimerSweep ------------------------------
(***************************************************************************)
(* The backend's timer sweep over the Router and the SwapBook: pair by pair *)
(* and order by order it reads the book, computes a route and submits       *)
(* route_expired_order, one step for each await.  The ledger, the venues    *)
(* and everybody's calls go on in between; a read may fail, a submission    *)
(* may be lost, fail, or land after the sweep stopped waiting for it.       *)
(***************************************************************************)
EXTENDS RouterContract, SequencesExt

CONSTANTS
  LivePairs,    \* a sequence: the pairs of live tokens, in their order
  MaxFailures   \* bound on the calls that fail for no reason of the ledger

ASSUME SweepAssumption == LivePairs \in Seq(Tokens \X Tokens) /\ MaxFailures \in Nat

VARIABLES
  sweep,      \* the sweep under way
  inflight,   \* the keeper's transactions that may still be applied
  failures    \* not in the code: how many calls failed

sweepVars == <<sweep, inflight, failures>>
allSweepVars == <<allVars, sweepVars>>

-----------------------------------------------------------------------------
(* get_expired_timer_orders does not look at the expiry.                    *)
ExpiredTimerOrders(pair) ==
  SelectSeq(SetToSortSeq(book.index[pair], <),
            LAMBDA id : /\ IsOpen(book.orders[id])
                        /\ book.orders[id].auto_route_after > 0
                        /\ seq > book.orders[id].auto_route_after)

Sleeping == [at |-> "idle", pairs |-> <<>>, queue |-> <<>>, legs |-> <<>>, remaining |-> 0]
NextPair == IF sweep.pairs = <<>> THEN Sleeping ELSE [sweep EXCEPT !.at = "list"]

(* Faulty: an order that could not be routed ends its pair.                 *)
NextOrderIfRouted ==
  IF sweep.at = "wait" /\ ~IsOpen(book.orders[Head(sweep.queue)]) /\ Len(sweep.queue) > 1
  THEN [sweep EXCEPT !.at = "order", !.queue = Tail(@), !.legs = <<>>, !.remaining = 0]
  ELSE [NextPair EXCEPT !.queue = <<>>, !.legs = <<>>, !.remaining = 0]

(* Whatever became of an order, the next one of the pair has its turn.      *)
NextOrder ==
  IF Len(sweep.queue) > 1
  THEN [sweep EXCEPT !.at = "order", !.queue = Tail(@), !.legs = <<>>, !.remaining = 0]
  ELSE [NextPair EXCEPT !.queue = <<>>, !.legs = <<>>, !.remaining = 0]

(* The interval fires; a sweep that is still under way is left alone.       *)
RunSweep ==
  /\ sweep.at = "idle"
  /\ sweep' = [Sleeping EXCEPT !.at = "list", !.pairs = LivePairs]
  /\ UNCHANGED <<allVars, inflight, failures>>

Listed ==
  LET on == [sweep EXCEPT !.pairs = Tail(@)]
      ids == ExpiredTimerOrders(Head(sweep.pairs))
  IN /\ sweep.at = "list"
     /\ sweep' = IF ids # <<>> THEN [on EXCEPT !.at = "order", !.queue = ids]
                 ELSE IF on.pairs = <<>> THEN Sleeping ELSE on
     /\ UNCHANGED <<allVars, inflight, failures>>

Failure == failures < MaxFailures /\ failures' = failures + 1

NotListed ==
  /\ sweep.at = "list" /\ Failure
  /\ sweep' = IF Len(sweep.pairs) = 1 THEN Sleeping ELSE [sweep EXCEPT !.pairs = Tail(@)]
  /\ UNCHANGED <<allVars, inflight>>

Fetched(id) ==
  LET o == book.orders[id]
  IN /\ sweep.at = "order" /\ Head(sweep.queue) = id
     /\ sweep' = IF IsOpen(o) /\ o.amount_in_remaining > 0
                 THEN [sweep EXCEPT !.at = "route", !.remaining = o.amount_in_remaining]
                 ELSE NextOrder
     /\ UNCHANGED <<allVars, inflight, failures>>

NotFetched ==
  sweep.at = "order" /\ Failure /\ sweep' = NextOrder /\ UNCHANGED <<allVars, inflight>>

(* computeRoute, over venues the Router can execute.                        *)
RouteFound(id, legs) ==
  /\ sweep.at = "route" /\ Head(sweep.queue) = id
  /\ Total(legs) = sweep.remaining
  /\ sweep' = [sweep EXCEPT !.at = "submit", !.legs = legs]
  /\ UNCHANGED <<allVars, inflight, failures>>

NoRoute ==
  sweep.at = "route" /\ Failure /\ sweep' = NextOrder /\ UNCHANGED <<allVars, inflight>>

Routable(id, legs) ==
  CanClaim(book, id) /\ ValidSegments(legs, book.orders[id].amount_in_remaining)

(* The transaction is built, which runs the call on the ledger as it is,    *)
(* signed and sent.                                                         *)
SubmitRoute(id) ==
  /\ sweep.at = "submit" /\ Head(sweep.queue) = id
  /\ Routable(id, sweep.legs)
  /\ inflight' = inflight \union {[id |-> id, legs |-> sweep.legs]}
  /\ sweep' = [sweep EXCEPT !.at = "wait"]
  /\ UNCHANGED <<allVars, failures>>

SubmitRefused ==
  /\ sweep.at = "submit"
  /\ IF Routable(Head(sweep.queue), sweep.legs) THEN Failure ELSE UNCHANGED failures
  /\ sweep' = NextOrder
  /\ UNCHANGED <<allVars, inflight>>

(* The keeper's transactions that were not applied have one sequence number,*)
(* so at most one of them is.                                               *)
Lands(id) ==
  /\ \E tx \in inflight : tx.id = id /\ RouteExpiredOrder(id, tx.legs)
  /\ inflight' = {}
  /\ UNCHANGED <<sweep, failures>>

LandsInVain ==
  /\ Resting
  /\ \E tx \in inflight : ~Routable(tx.id, tx.legs)
  /\ inflight' = {}
  /\ UNCHANGED <<allVars, sweep, failures>>

Waited ==
  /\ sweep.at = "wait" /\ inflight = {}
  /\ sweep' = NextOrder
  /\ UNCHANGED <<allVars, inflight, failures>>

(* The polls run out, whether or not the transaction will be applied.       *)
Unconfirmed ==
  /\ sweep.at = "wait" /\ inflight # {} /\ Failure
  /\ sweep' = NextOrder
  /\ UNCHANGED <<allVars, inflight>>

TransactionExpires ==
  /\ inflight # {} /\ Resting /\ Failure
  /\ inflight' = {}
  /\ UNCHANGED <<allVars, sweep>>

SweepInit == RouterInit /\ sweep = Sleeping /\ inflight = {} /\ failures = 0

(* Nothing runs in the middle of an invocation.                             *)
SweepStep ==
  /\ Resting
  /\ \/ RunSweep \/ Listed \/ NotListed \/ NotFetched \/ NoRoute \/ SubmitRefused
     \/ Waited \/ Unconfirmed
     \/ \E id \in OrderIds(book) : Fetched(id) \/ SubmitRoute(id)
     \/ \E id \in OrderIds(book), legs \in Segments : RouteFound(id, legs)

NetworkStep == LandsInVain \/ \E id \in OrderIds(book) : Lands(id)
TripStep ==
  /\ Settle \/ Fail \/ \E received \in VenueOutputs : SwapLeg(received)
  /\ UNCHANGED sweepVars

SweepNext ==
  \/ SweepStep
  \/ NetworkStep \/ TransactionExpires
  \/ RouterNext /\ UNCHANGED sweepVars

-----------------------------------------------------------------------------
(* Fairness: the interval fires, every await returns, every transaction is  *)
(* applied or given up and every invocation ends.  Calls fail only so often,*)
(* and venues that are asked again and again for an order give some time as *)
(* much as they ever do.                                                    *)
Generous == CHOOSE most \in VenueOutputs : \A out \in VenueOutputs : out <= most

Settling(id) ==
  /\ ~Resting /\ trip.kind = "timer" /\ id \in OrderIds(book)
  /\ IsOpen(trip.saved.orders[id]) /\ ~IsOpen(book.orders[id])

SweepFairness ==
  /\ SF_allSweepVars(SweepStep)
  /\ SF_allSweepVars(NetworkStep)
  /\ WF_allSweepVars(TripStep)
  /\ \A id \in 1..MaxOrders :
       /\ SF_allSweepVars(Settling(id) /\ SwapLeg(Generous) /\ UNCHANGED sweepVars)
       /\ SF_allSweepVars(Settling(id) /\ Settle /\ UNCHANGED sweepVars)

SweepSpec == SweepInit /\ [][SweepNext]_allSweepVars /\ SweepFairness

(* No order stays due for ever: whatever becomes of the orders beside it, an*)
(* order whose timer has run out, that can be claimed and that the venues   *)
(* can fill at its floor, is routed or otherwise closed, or its expiry ends *)
(* the matter.                                                              *)
Due(id) ==
  /\ id \in OrderIds(book)
  /\ CanClaim(book, id)
  /\ venues = Venues
  /\ Generous - RouterFee(Generous) >= ClaimedFloor(id)
DueOrdersAreRouted == \A id \in 1..MaxOrders : []<>~Due(id)
=============================================================================
