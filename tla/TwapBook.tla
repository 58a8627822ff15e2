------------------------------ MODULE TwapBook ------------------------------
(***************************************************************************)
(* The TwapBook contract: a maker escrows an amount and a schedule; anyone  *)
(* executes slices through venue adapters, and the contract holds every     *)
(* slice to the order's pace, price and cadence.  What is not executed      *)
(* comes back by cancel or expiry.                                          *)
(***************************************************************************)
EXTENDS PriceOracle, FiniteSets, Sequences, SequencesExt

CONSTANTS
  Makers, Vault, Book,        \* holders: makers, the fee vault, this contract
  Venues,                     \* venue ids
  MAX_FEE, DEFAULT_FEE, FEE_DENOMINATOR,
  MIN_DURATION_LEDGERS, MAX_SLIPPAGE_BPS, MAX_PACE_TOLERANCE_BPS, MAX_ACTIVE_ORDERS,
  Funds,                      \* opening balances
  TwapTerms,                  \* orders that makers try to place
  Routes,                     \* segments that keepers try
  VenueOutputs,               \* what a venue may give for a segment
  FeeRates, MaxOrders         \* admin's fee rates; bound on orders ever placed

Holders == Makers \union {Vault, Book}
Balances == [Holders \X Tokens -> Nat]
Terms == [token_in : Tokens, token_out : Tokens, total_in : Int, end_ledger : Nat,
          limit_num : Int, limit_den : Int, max_slippage_bps : Nat,
          max_slice_in : Int, min_slice_gap : Nat, pace_tolerance_bps : Nat]
Segment == [venue : Venues, amount_in : Int, min_amount_out : Int]

ASSUME TwapAssumption ==
  /\ Book \notin Makers \union {Vault} /\ Vault \notin Makers
  /\ FEE_DENOMINATOR \in Nat /\ MAX_FEE \in Nat /\ MAX_FEE < FEE_DENOMINATOR
  /\ DEFAULT_FEE \in 0..MAX_FEE
  /\ MIN_DURATION_LEDGERS \in Nat \ {0}
  /\ MAX_SLIPPAGE_BPS \in Nat /\ MAX_SLIPPAGE_BPS < BPS_DENOMINATOR
  /\ MAX_PACE_TOLERANCE_BPS \in Nat /\ MAX_ACTIVE_ORDERS \in Nat
  /\ Funds \in Balances /\ \A t \in Tokens : Funds[<<Book, t>>] = 0
  /\ TwapTerms \subseteq Terms /\ Routes \subseteq Seq(Segment)
  /\ VenueOutputs \subseteq Nat /\ FeeRates \subseteq Int /\ MaxOrders \in Nat

VARIABLES
  orders,     \* the orders, in order of their ids
  active,     \* ActiveIndex
  balance,    \* the token contracts' ledgers
  settings,   \* fee rate and registered venues
  refunded    \* not in the code: what each order's end returned to its maker

twapVars == <<orders, active, balance, settings, refunded>>
vars == <<twapVars, oracleVars>>

(* Ledgers count from 1: an order's last_slice_ledger of 0 is "no slice yet".*)
Ledger == seq + 1

-----------------------------------------------------------------------------
(* The limits on a slice                                                    *)

(* Faulty: the headroom is granted for every slice, not once.               *)
PaceOfSlice(o, amount) ==
  amount <= MulDivFloor(o.total_in, Ledger - o.start_ledger, o.end_ledger - o.start_ledger)
              + MulDivFloor(o.total_in, o.pace_tolerance_bps, BPS_DENOMINATOR)

OnPace(o, amount) ==
  o.filled_in + amount
    <= MulDivFloor(o.total_in, Ledger - o.start_ledger, o.end_ledger - o.start_ledger)
         + MulDivFloor(o.total_in, o.pace_tolerance_bps, BPS_DENOMINATOR)

CadenceKept(o) ==
  o.last_slice_ledger > 0 => Ledger >= o.last_slice_ledger + o.min_slice_gap

FixedLimit(o) == o.limit_num > 0 /\ o.limit_den > 0

(* Faulty: the tolerance given twice.                                       *)
PeggedNetTwice(o, amount) ==
  LET price == ReadOracle(o.token_in, o.token_out)
  IN MulDivCeil(MulDivFloor(amount, price.num, price.den),
                BPS_DENOMINATOR - 2 * o.max_slippage_bps, BPS_DENOMINATOR)

PeggedNet(o, amount) ==
  LET price == ReadOracle(o.token_in, o.token_out)
      fair == MulDivFloor(amount, price.num, price.den)
  IN MulDivCeil(fair, BPS_DENOMINATOR - o.max_slippage_bps, BPS_DENOMINATOR)

LimitNet(o, amount) == MulDivCeil(amount, o.limit_num, o.limit_den)

MinNet(o, amount) == IF FixedLimit(o) THEN LimitNet(o, amount) ELSE PeggedNet(o, amount)

(* read_fresh_oracle: the SwapBook's get_oracle_price checks the age too.   *)
Priced(o) == FixedLimit(o) \/ HasPrice(o.token_in, o.token_out)

ValidSegments(route, total) ==
  /\ Len(route) > 0
  /\ \A i \in DOMAIN route : route[i].amount_in > 0 /\ route[i].min_amount_out >= 0
  /\ FoldSeq(LAMBDA s, sum : s.amount_in + sum, 0, route) = total

(* External: each venue takes its segment and sends back what it reports.   *)
Executes(route, outs) ==
  \A i \in DOMAIN route :
    route[i].venue \in settings.venues /\ outs[i] >= route[i].min_amount_out

-----------------------------------------------------------------------------
(* Operations                                                               *)

(* External: token transfers.                                               *)
Credit(b, holder, token, amount) == [b EXCEPT ![<<holder, token>>] = @ + amount]

CanPlace(maker, o) ==
  /\ o.total_in > 0
  /\ o.token_in # o.token_out
  /\ o.end_ledger >= Ledger + MIN_DURATION_LEDGERS
  /\ o.max_slice_in \in 1..o.total_in
  /\ o.min_slice_gap # 0 /\ o.pace_tolerance_bps <= MAX_PACE_TOLERANCE_BPS
  /\ ~FixedLimit(o) =>
       /\ o.limit_num = 0 /\ o.limit_den = 0
       /\ o.max_slippage_bps \in 1..MAX_SLIPPAGE_BPS
  /\ Priced(o)
  /\ Cardinality(active) < MAX_ACTIVE_ORDERS
  /\ balance[<<maker, o.token_in>>] >= o.total_in

NewTwap(maker, o) ==
  [maker |-> maker, token_in |-> o.token_in, token_out |-> o.token_out,
   total_in |-> o.total_in, filled_in |-> 0, received_out |-> 0,
   start_ledger |-> Ledger, end_ledger |-> o.end_ledger,
   limit_num |-> o.limit_num, limit_den |-> o.limit_den,
   max_slippage_bps |-> o.max_slippage_bps, max_slice_in |-> o.max_slice_in,
   min_slice_gap |-> o.min_slice_gap, pace_tolerance_bps |-> o.pace_tolerance_bps,
   last_slice_ledger |-> 0, status |-> "Active"]

PlaceTwap(maker, o) ==
  /\ Len(orders) < MaxOrders
  /\ CanPlace(maker, o)
  /\ balance' = Credit(Credit(balance, maker, o.token_in, -o.total_in),
                       Book, o.token_in, o.total_in)
  /\ orders' = Append(orders, NewTwap(maker, o))
  /\ active' = active \union {Len(orders) + 1}
  /\ refunded' = Append(refunded, 0)
  /\ UNCHANGED <<settings, oracleVars>>

CanSlice(o, amount) ==
  /\ o.status = "Active"
  /\ Ledger <= o.end_ledger
  /\ CadenceKept(o)
  /\ amount > 0 /\ amount <= o.total_in - o.filled_in
  /\ amount <= o.max_slice_in
  /\ OnPace(o, amount)

Sliced(o, amount, net) ==
  [o EXCEPT !.filled_in = @ + amount, !.received_out = @ + net,
            !.last_slice_ledger = Ledger,
            !.status = IF o.filled_in + amount = o.total_in THEN "Completed" ELSE @]

(* Faulty: a completed order stays in the index.                            *)
StillIndexed(id, o) == active

Deindexed(id, o) == IF o.status = "Active" THEN active ELSE active \ {id}

ExecuteSlice(id, amount, route, outs) ==
  LET o == orders[id]
      total_out == FoldFunction(+, 0, outs)
      fee == CalculateFee(total_out, settings.fee, FEE_DENOMINATOR)
      net == total_out - fee
      sliced == Sliced(o, amount, net)
  IN /\ CanSlice(o, amount)
     /\ ValidSegments(route, amount)
     /\ Executes(route, outs)
     /\ Priced(o)
     /\ net >= MinNet(o, amount)
     /\ balance[<<Book, o.token_in>>] >= amount
     /\ balance' = Credit(Credit(Credit(balance, Book, o.token_in, -amount),
                                 o.maker, o.token_out, net),
                          Vault, o.token_out, fee)
     /\ orders' = [orders EXCEPT ![id] = sliced]
     /\ active' = Deindexed(id, sliced)
     /\ UNCHANGED <<settings, refunded, oracleVars>>

(* Faulty: the whole of the order is refunded, whatever was executed.       *)
RefundAll(o) == o.total_in

Remaining(o) == o.total_in - o.filled_in

Close(id, status) ==
  LET o == orders[id]
      closed == [o EXCEPT !.status = status]
  IN /\ o.status = "Active"
     /\ balance[<<Book, o.token_in>>] >= Remaining(o)
     /\ balance' = Credit(Credit(balance, Book, o.token_in, -Remaining(o)),
                          o.maker, o.token_in, Remaining(o))
     /\ orders' = [orders EXCEPT ![id] = closed]
     /\ active' = Deindexed(id, closed)
     /\ refunded' = [refunded EXCEPT ![id] = Remaining(o)]
     /\ UNCHANGED <<settings, oracleVars>>

CancelTwap(id) == Close(id, "Cancelled")
ExpireTwap(id) == Ledger > orders[id].end_ledger /\ Close(id, "Expired")

SetFee(rate) ==
  /\ rate \in 0..MAX_FEE
  /\ settings' = [settings EXCEPT !.fee = rate]
  /\ UNCHANGED <<orders, active, balance, refunded, oracleVars>>

RegisterVenue(venue) ==
  /\ settings' = [settings EXCEPT !.venues = @ \union {venue}]
  /\ UNCHANGED <<orders, active, balance, refunded, oracleVars>>

RemoveVenue(venue) ==
  /\ settings' = [settings EXCEPT !.venues = @ \ {venue}]
  /\ UNCHANGED <<orders, active, balance, refunded, oracleVars>>

OracleMoves ==
  /\ OracleNext
  /\ UNCHANGED twapVars

Init ==
  /\ OracleInit
  /\ orders = <<>> /\ active = {} /\ refunded = <<>>
  /\ balance = Funds
  /\ settings = [fee |-> DEFAULT_FEE, venues |-> {}]

Next ==
  \/ \E maker \in Makers, o \in TwapTerms : PlaceTwap(maker, o)
  \/ \E id \in DOMAIN orders :
       \/ \E route \in Routes : \E outs \in [DOMAIN route -> VenueOutputs] :
            \E amount \in 1..orders[id].total_in : ExecuteSlice(id, amount, route, outs)
       \/ CancelTwap(id) \/ ExpireTwap(id)
  \/ \E rate \in FeeRates : SetFee(rate)
  \/ \E venue \in Venues : RegisterVenue(venue) \/ RemoveVenue(venue)
  \/ OracleMoves

Spec == Init /\ [][Next]_vars

-----------------------------------------------------------------------------
(* PACE: whoever slices and however, the cumulative fill was never ahead of *)
(* the schedule by more than the tolerance, as an exact fraction.           *)
NeverAhead(o) ==
  LET duration == o.end_ledger - o.start_ledger
      elapsed == o.last_slice_ledger - o.start_ledger
  IN o.filled_in > 0 =>
       o.filled_in * duration * BPS_DENOMINATOR
         <= o.total_in * (elapsed * BPS_DENOMINATOR + o.pace_tolerance_bps * duration)
PaceKept == \A id \in DOMAIN orders : NeverAhead(orders[id])

(* The pooled escrow is exactly what the active orders have left.           *)
EscrowUnits(token) ==
  UNION {{id} \X (1..Remaining(orders[id])) :
           id \in {i \in DOMAIN orders : orders[i].status = "Active" /\ orders[i].token_in = token}}
EscrowBacked == \A t \in Tokens : balance[<<Book, t>>] = Cardinality(EscrowUnits(t))

(* The index names exactly the active orders, an order is completed exactly *)
(* when all of it is executed, and a refund returns exactly what was not.   *)
IndexExact ==
  /\ active = {id \in DOMAIN orders : orders[id].status = "Active"}
  /\ Cardinality(active) <= MAX_ACTIVE_ORDERS
  /\ \A id \in DOMAIN orders :
       LET o == orders[id]
       IN /\ o.status = "Completed" <=> o.filled_in = o.total_in
          /\ o.status \in {"Cancelled", "Expired"} => refunded[id] + o.filled_in = o.total_in
          /\ o.status \in {"Active", "Completed"} => refunded[id] = 0

(* PRICE, oracle: a slice clears the price of the moment less the tolerance,*)
(* short of it by less than one base unit.                                  *)
Slice(id) ==
  [amount |-> orders'[id].filled_in - orders[id].filled_in,
   net |-> orders'[id].received_out - orders[id].received_out]
ClearsOracle(id) ==
  LET o == orders[id]
      price == ReadOracle(o.token_in, o.token_out)
  IN (~FixedLimit(o) /\ Slice(id).amount > 0) =>
       /\ HasPrice(o.token_in, o.token_out)
       /\ (Slice(id).net + 1) * price.den * BPS_DENOMINATOR
            >= Slice(id).amount * price.num * (BPS_DENOMINATOR - o.max_slippage_bps)
SlicesNearOracle == [][\A id \in DOMAIN orders : ClearsOracle(id)]_vars
=============================================================================
