--------------------------- MODULE RouterContract ---------------------------
(***************************************************************************)
(* The Router contract over the SwapBook: an invocation takes a user's      *)
(* tokens (or claims an order whose timer fired), pushes them through venue *)
(* adapters, in hops of several legs, and pays the output out net of fees.  *)
(*                                                                          *)
(* An invocation is a trip of several steps under a lock, one for each leg, *)
(* because any leg may fail it; the host then restores what was saved.      *)
(***************************************************************************)
EXTENDS SwapBook, RouterTerms

CONSTANTS
  Venues,                       \* venue ids
  MAX_FEE_PER_100K, DEFAULT_FEE_PER_100K,
  MAX_PARTNER_FEE_PER_100K,
  MAX_SURPLUS_SHARE_BPS, DEFAULT_SURPLUS_SHARE_BPS,
  Paths, Orders, Segments,      \* what execute_path, execute_route and
                                \* route_expired_order are called with
  PartnerFees,                  \* fees that integrators ask for
  VenueOutputs,                 \* what an adapter may return for a leg
  RouterFees, SurplusShares,    \* what the admin may try to set
  MaxTrips                      \* bound on the users' invocations begun

Leg == [venue : Venues, part : Int, min_amount_out : Int]
Hop == [token_out : Tokens, legs : Seq(Leg)]
PathCall == [token_in : Tokens, amount_in : Int, min_amount_out : Int,
             estimated_out : Int, hops : Seq(Hop)]
RouteCall == [token_in : Tokens, token_out : Tokens, amount_in : Int,
              min_amount_out : Int, estimated_out : Int, legs : Seq(Leg)]

ASSUME RouterAssumption ==
  /\ {MAX_FEE_PER_100K, MAX_PARTNER_FEE_PER_100K, MAX_PATH_HOPS,
      MAX_SURPLUS_SHARE_BPS} \subseteq Nat
  /\ DEFAULT_FEE_PER_100K \in 0..MAX_FEE_PER_100K
  /\ DEFAULT_SURPLUS_SHARE_BPS \in 0..MAX_SURPLUS_SHARE_BPS
  /\ MAX_FEE_PER_100K < FEE_DENOMINATOR
  /\ MAX_SURPLUS_SHARE_BPS * FEE_DENOMINATOR + MAX_FEE_PER_100K * BPS_DENOMINATOR
       <= BPS_DENOMINATOR * FEE_DENOMINATOR
  /\ WEIGHT_DENOMINATOR \in Nat \ {0}
  /\ Paths \subseteq PathCall /\ Orders \subseteq RouteCall
  /\ Segments \subseteq Seq(Leg)
  /\ PartnerFees \subseteq Int /\ VenueOutputs \subseteq Nat
  /\ RouterFees \subseteq Int /\ SurplusShares \subseteq Int /\ MaxTrips \in Nat
  /\ \A t \in Tokens : Funds[<<Router, t>>] = 0

VARIABLES
  venues,   \* the registered venues
  rates,    \* protocol fee and surplus share
  trip,     \* the invocation in progress, or None
  trips     \* not in the code: how many users began

routerVars == <<venues, rates, trip, trips>>
allVars == <<vars, routerVars>>

-----------------------------------------------------------------------------
(* Fees                                                                     *)

RouterFee(out) == CalculateFee(out, rates.fee, FEE_DENOMINATOR)
PartnerFee(out, rate) == MulDivCeil(out, rate, FEE_DENOMINATOR)

(* Faulty: the share is taken of the whole output.                          *)
SurplusFeeOfAll(out, estimate) ==
  IF estimate <= 0 \/ out <= estimate THEN 0
  ELSE MulDivFloor(out, rates.share, BPS_DENOMINATOR)

SurplusFee(out, estimate) ==
  IF estimate <= 0 \/ out <= estimate THEN 0
  ELSE MulDivFloor(out - estimate, rates.share, BPS_DENOMINATOR)

-----------------------------------------------------------------------------
(* A trip                                                                   *)

Resting == trip = None

(* carry is what the hop under way has to swap, left what of it no leg has  *)
(* taken yet, out what its legs have returned.                              *)
Trip(kind, to, token, amount, min, estimate, partner, partner_fee, hops) ==
  [kind |-> kind, to |-> to, token_in |-> token, amount_in |-> amount,
   min_amount_out |-> min, estimated_out |-> estimate,
   partner |-> partner, partner_fee |-> partner_fee,
   hops |-> hops, token |-> token, carry |-> amount, left |-> amount, out |-> 0,
   saved |-> book]

Kinds == {"path", "route", "timer"}
TripState == [kind : Kinds, to : Accounts, token_in : Tokens, amount_in : Nat,
              min_amount_out : Int, estimated_out : Int,
              partner : Accounts \union {None}, partner_fee : Nat,
              hops : Seq(Hop), token : Tokens, carry : Nat, left : Nat, out : Nat,
              saved : BookState]

ASSUME TripAssumption == None \notin TripState

Begin(begun) ==
  /\ trip' = begun
  /\ IF begun.kind = "timer" THEN UNCHANGED trips ELSE trips < MaxTrips /\ trips' = trips + 1

FromUser(user, token, amount) ==
  /\ CanPay(book, user, token, amount)
  /\ book' = [book EXCEPT !.balance = Transfer(@, token, user, Router, amount)]

ExecutePath(user, p) ==
  /\ Resting /\ Idle
  /\ ValidAmounts(p)
  /\ ValidPath(p.token_in, p.hops)
  /\ FromUser(user, p.token_in, p.amount_in)
  /\ Begin(Trip("path", user, p.token_in, p.amount_in, p.min_amount_out, p.estimated_out,
                  None, 0, p.hops))
  /\ UNCHANGED <<cfg, call, oracleVars, venues, rates>>

(* A route is one hop whose legs take the amounts the caller fixed.         *)
RouteInner(user, o, partner, partner_fee) ==
  /\ Resting /\ Idle
  /\ ValidAmounts(o)
  /\ o.token_in # o.token_out
  /\ ValidSegments(o.legs, o.amount_in)
  /\ FromUser(user, o.token_in, o.amount_in)
  /\ Begin(Trip("route", user, o.token_in, o.amount_in, o.min_amount_out, o.estimated_out,
                  partner, partner_fee, <<[token_out |-> o.token_out, legs |-> o.legs]>>))
  /\ UNCHANGED <<cfg, call, oracleVars, venues, rates>>

ExecuteRoute(user, o) == RouteInner(user, o, None, 0)

ExecuteRoutePartner(user, o, partner, partner_fee) ==
  /\ partner_fee \in 0..MAX_PARTNER_FEE_PER_100K
  /\ RouteInner(user, o, partner, partner_fee)

SwapOne(user, o, venue) ==
  RouteInner(user,
    [o EXCEPT !.estimated_out = 0,
              !.legs = <<[venue |-> venue, part |-> o.amount_in,
                          min_amount_out |-> o.min_amount_out]>>], None, 0)

(* Faulty: the floor is computed after the order was emptied.               *)
ClaimedFloorAfter(id) == RequiredPayment(book.orders[id], 0)

(* claim_expired_timer's min_out: the maker's floor for what is claimed.    *)
ClaimedFloor(id) ==
  RequiredPayment(book.orders[id], book.orders[id].amount_in_remaining)

RouteExpiredOrder(id, legs) ==
  LET o == book.orders[id]
  IN /\ Resting
     /\ ClaimExpiredTimer(id)
     /\ ValidSegments(legs, o.amount_in_remaining)
     /\ Begin(Trip("timer", o.maker, o.token_in, o.amount_in_remaining, ClaimedFloor(id), 0,
                     None, 0, <<[token_out |-> o.token_out, legs |-> legs]>>))
     /\ UNCHANGED <<venues, rates>>

(* Faulty: the last leg too takes its weight, and no more.                  *)
LegInByWeight(leg) ==
  IF trip.kind = "path" THEN MulDivFloor(trip.carry, leg.part, WEIGHT_DENOMINATOR) ELSE leg.part

LegIn(leg) ==
  IF trip.kind # "path" THEN leg.part
  ELSE IF Len(Head(trip.hops).legs) = 1 THEN trip.left
  ELSE MulDivFloor(trip.carry, leg.part, WEIGHT_DENOMINATOR)

(* What an adapter may forward: what its own balance gained on the venue,   *)
(* whatever the venue reported, or it fails.                                *)
Delivered(leg, received) == received >= leg.min_amount_out

(* The next leg: its input to the adapter, its output back.                 *)
SwapLeg(received) ==
  LET hop == Head(trip.hops)
      leg == Head(hop.legs)
      amount == LegIn(leg)
      out == trip.out + received
      rest == [token_out |-> hop.token_out, legs |-> Tail(hop.legs)]
  IN /\ ~Resting /\ trip.hops # <<>>
     /\ amount > 0
     /\ leg.venue \in venues
     /\ Delivered(leg, received)
     /\ CanPay(book, Router, trip.token, amount)
     /\ book' = [book EXCEPT !.balance =
                   [book.balance EXCEPT ![<<Router, trip.token>>] = @ - amount,
                                        ![<<Router, hop.token_out>>] = @ + received]]
     /\ trip' = IF Len(hop.legs) > 1
                THEN [trip EXCEPT !.hops = [trip.hops EXCEPT ![1] = rest], !.left = @ - amount, !.out = out]
                ELSE [trip EXCEPT !.hops = Tail(@), !.token = hop.token_out,
                                  !.carry = out, !.left = out, !.out = 0]
     /\ UNCHANGED <<cfg, call, oracleVars, venues, rates, trips>>

(* Faulty: the floor is checked before the partner is paid.                 *)
MeetsFloorOfTwo(gross, fees, partner_fee) == gross - fees >= trip.min_amount_out

MeetsFloor(gross, fees, partner_fee) == gross - fees - partner_fee >= trip.min_amount_out

Settle ==
  LET fees == RouterFee(trip.carry) + SurplusFee(trip.carry, trip.estimated_out)
      partner_fee == PartnerFee(trip.carry, trip.partner_fee)
      paid == Transfer(Transfer(book.balance, trip.token, Router, trip.to,
                                trip.carry - fees - partner_fee),
                       trip.token, Router, Vault, fees)
  IN /\ ~Resting /\ trip.hops = <<>>
     /\ MeetsFloor(trip.carry, fees, partner_fee)
     /\ book' = [book EXCEPT !.balance =
                   IF partner_fee > 0
                   THEN Transfer(paid, trip.token, Router, trip.partner, partner_fee) ELSE paid]
     /\ trip' = None
     /\ UNCHANGED <<cfg, call, oracleVars, venues, rates, trips>>

(* A leg the venue cannot fill, a venue that is not registered, an output   *)
(* that disappoints: the invocation fails and the host undoes all of it.    *)
Fail ==
  /\ ~Resting
  /\ book' = trip.saved
  /\ trip' = None
  /\ UNCHANGED <<cfg, call, oracleVars, venues, rates, trips>>

-----------------------------------------------------------------------------
(* The admin                                                                *)

RegisterVenue(venue) ==
  /\ Resting
  /\ venue \notin venues
  /\ venues' = venues \union {venue}
  /\ UNCHANGED <<vars, rates, trip, trips>>

RemoveVenue(venue) ==
  /\ Resting
  /\ venue \in venues
  /\ venues' = venues \ {venue}
  /\ UNCHANGED <<vars, rates, trip, trips>>

SetRouterFee(rate) ==
  /\ Resting
  /\ rate \in 0..MAX_FEE_PER_100K
  /\ rates' = [rates EXCEPT !.fee = rate]
  /\ UNCHANGED <<vars, venues, trip, trips>>

SetSurplusShare(share) ==
  /\ Resting
  /\ share \in 0..MAX_SURPLUS_SHARE_BPS
  /\ rates' = [rates EXCEPT !.share = share]
  /\ UNCHANGED <<vars, venues, trip, trips>>

(* Every call of the SwapBook but the claim, which is the Router's alone.   *)
BookCall ==
  /\ Resting
  /\ Next
  /\ ~\E id \in OrderIds(book) : ClaimExpiredTimer(id)
  /\ UNCHANGED routerVars

RouterInit ==
  /\ Init
  /\ venues = {}
  /\ rates = [fee |-> DEFAULT_FEE_PER_100K, share |-> DEFAULT_SURPLUS_SHARE_BPS]
  /\ trip = None /\ trips = 0

RouterNext ==
  \/ \E user \in Accounts :
       \/ \E p \in Paths : ExecutePath(user, p)
       \/ \E o \in Orders :
            \/ ExecuteRoute(user, o)
            \/ \E partner \in Accounts, fee \in PartnerFees :
                 ExecuteRoutePartner(user, o, partner, fee)
            \/ \E venue \in Venues : SwapOne(user, o, venue)
  \/ \E id \in OrderIds(book), legs \in Segments : RouteExpiredOrder(id, legs)
  \/ \E received \in VenueOutputs : SwapLeg(received)
  \/ Settle \/ Fail
  \/ \E venue \in Venues : RegisterVenue(venue) \/ RemoveVenue(venue)
  \/ \E rate \in RouterFees : SetRouterFee(rate)
  \/ \E share \in SurplusShares : SetSurplusShare(share)
  \/ BookCall

RouterSpec == RouterInit /\ [][RouterNext]_allVars

-----------------------------------------------------------------------------
(* Nothing rests in the Router: between invocations it holds no token,      *)
(* whatever the weights, the number of legs and hops, the fees and failures.*)
NothingRests == Resting => \A t \in Tokens : book.balance[<<Router, t>>] = 0

(* What a holder gained over the whole of the invocation.                   *)
TripGain(holder, token) ==
  book'.balance[<<holder, token>>] - trip.saved.balance[<<holder, token>>]

(* What the invocation returned to its user: where a path ends in the token *)
(* it began with, the input comes off what was gained.                      *)
Returned ==
  TripGain(trip.to, trip.token)
    + IF trip.kind # "timer" /\ trip.token = trip.token_in THEN trip.amount_in ELSE 0

Ends == ~Resting /\ Resting'

(* An invocation is an exchange or nothing: its user pays exactly the input *)
(* and gets, net of every fee, at least the floor; of all others only the   *)
(* fee vault and the partner gain, and nobody loses.  A failed one leaves   *)
(* every balance and every order as it was.                                 *)
Exchanged ==
  /\ Returned >= trip.min_amount_out
  /\ trip.kind # "timer" /\ trip.token # trip.token_in =>
       TripGain(trip.to, trip.token_in) = -trip.amount_in
  /\ \A holder \in Accounts \ {trip.to}, t \in Tokens :
       TripGain(holder, t) = 0 \/ (TripGain(holder, t) > 0 /\ holder = trip.partner)
TripsAreExchanges ==
  [][Ends => Exchanged \/ book' = trip.saved]_allVars

(* Positive slippage: an output above the estimate leaves the user at least *)
(* the estimate net of the flat fee, whatever share the protocol keeps.     *)
EstimateKept ==
  [][(Ends /\ book' # trip.saved /\ trip.estimated_out > 0 /\ trip.partner_fee = 0
        /\ trip.carry >= trip.estimated_out)
      => Returned >= trip.estimated_out - RouterFee(trip.estimated_out)]_allVars

(* An order whose timer fired is settled at its maker's own price, or it is *)
(* still in the book: the whole rest at the limit, or at the oracle price   *)
(* less the tolerance (short of it by less than one base unit).             *)
TimerSettled(o) ==
  LET paid == TripGain(o.maker, o.token_out)
      sold == o.amount_in_remaining
  IN IF o.price_mode = "Fixed"
     THEN paid * o.amount_in >= o.min_amount_out * sold
     ELSE LET price == ReadOracle(o.token_in, o.token_out)
          IN (paid + 1) * price.den * BPS_DENOMINATOR
               > sold * price.num * (BPS_DENOMINATOR - o.max_slippage_bps)
TimersSettleAtTheFloor ==
  [][(Ends /\ trip.kind = "timer") =>
       \A id \in OrderIds(trip.saved) :
         \/ book'.orders[id] = trip.saved.orders[id]
         \/ book'.orders[id].status = "Routed" /\ TimerSettled(trip.saved.orders[id])]_allVars
=============================================================================
