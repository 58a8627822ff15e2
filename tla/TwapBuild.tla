----------------------------- MODULE TwapBuild -----------------------------
(***************************************************************************)
(* How a TWAP order comes to be placed and withdrawn through the app: the   *)
(* server turns a request in display units and seconds into the contract's  *)
(* terms, simulates them, and the wallet signs what came back some ledgers  *)
(* later.  The orders page lists a maker's orders from two reads and offers *)
(* to cancel what it shows.                                                 *)
(***************************************************************************)
EXTENDS TwapKeeper

CONSTANTS
  LEDGER_SECONDS,
  LIMIT_SCALE,                \* the denominator of every limit the server builds
  DurationSeconds, GapSeconds, SliceBps,    \* the ranges the server accepts
  KnownTokens,                \* the supported token universe
  TwapRequests                \* what makers ask for

(* A limit price is a fraction in display units: out per unit of in.        *)
ASSUME TwapBuildAssumption ==
  /\ LEDGER_SECONDS \in Nat \ {0} /\ LIMIT_SCALE \in Nat \ {0}
  /\ DurationSeconds \subseteq Nat /\ GapSeconds \subseteq Nat /\ SliceBps \subseteq Nat
  /\ KnownTokens \subseteq Tokens
  /\ \A q \in TwapRequests :
       /\ q.amount_in \in Int /\ q.slippage_bps \in Nat /\ q.pace_tolerance_bps \in Nat
       /\ q.limit # None => q.limit[1] \in Nat /\ q.limit[2] \in Nat \ {0}

VARIABLES
  form,    \* each maker's request on its way: its step, the request, the built terms
  page,    \* each maker's orders page: ids the server read, orders shown, a cancel
  asked    \* not in the code: the least each order's maker asked for, base units out per in

buildVars == <<keeperVars, form, page, asked>>

Blank == [step |-> "none"]

-----------------------------------------------------------------------------
(* From the request to the contract's terms                                 *)

Accepts(q) ==
  /\ {q.token_in, q.token_out} \subseteq KnownTokens
  /\ q.amount_in > 0
  /\ q.seconds \in DurationSeconds
  /\ q.limit # None => q.limit[1] > 0
  /\ q.limit = None => q.slippage_bps \in 1..MAX_SLIPPAGE_BPS
  /\ q.slice_bps \in SliceBps
  /\ q.gap_seconds \in GapSeconds
  /\ q.pace_tolerance_bps <= MAX_PACE_TOLERANCE_BPS

Rounded(num, den) == MulDivFloor(2 * num + den, 1, 2 * den)

(* Faulty: the price given to half of what was asked.                       *)
LimitNumHalved(q) ==
  IF q.limit = None THEN 0 ELSE Rounded(q.limit[1] * LIMIT_SCALE, 2 * q.limit[2])

(* The decimals of the two tokens do not come into it.                      *)
LimitNum(q) == IF q.limit = None THEN 0 ELSE Rounded(q.limit[1] * LIMIT_SCALE, q.limit[2])

BuiltTerms(q) ==
  LET num == LimitNum(q)
  IN [token_in |-> q.token_in, token_out |-> q.token_out, total_in |-> q.amount_in,
      end_ledger |-> (Ledger - 1) + MulDivCeil(q.seconds, 1, LEDGER_SECONDS),
      limit_num |-> num, limit_den |-> IF q.limit = None THEN 0 ELSE LIMIT_SCALE,
      max_slippage_bps |-> IF num > 0 THEN 0 ELSE q.slippage_bps,
      max_slice_in |-> MulDivCeil(q.amount_in, q.slice_bps, BPS_DENOMINATOR),
      min_slice_gap |-> Max({1, Rounded(q.gap_seconds, LEDGER_SECONDS)}),
      pace_tolerance_bps |-> q.pace_tolerance_bps]

Asks(maker, q) ==
  /\ form[maker] = Blank
  /\ Accepts(q)
  /\ form' = [form EXCEPT ![maker] = [step |-> "simulate", request |-> q, terms |-> BuiltTerms(q)]]
  /\ UNCHANGED <<keeperVars, page, asked>>

(* buildTransaction simulates the call against the ledger of its moment.    *)
Simulated(maker) ==
  /\ form[maker].step = "simulate"
  /\ CanPlace(maker, form[maker].terms)
  /\ form' = [form EXCEPT ![maker].step = "sign"]
  /\ UNCHANGED <<keeperVars, page, asked>>

(* Refused by the simulation, declined by the wallet or failed on chain.    *)
GivesUp(maker) ==
  /\ form[maker] # Blank
  /\ form' = [form EXCEPT ![maker] = Blank]
  /\ UNCHANGED <<keeperVars, page, asked>>

(* A price is given to half a unit of the scale: what it must mean at least.*)
AskedPrice(q) ==
  IF q.limit = None THEN None
  ELSE [num |-> (2 * LIMIT_SCALE * q.limit[1] - q.limit[2]) * Pow10[TokenDecimals[q.token_out]],
        den |-> 2 * LIMIT_SCALE * q.limit[2] * Pow10[TokenDecimals[q.token_in]]]

Signs(maker) ==
  /\ form[maker].step = "sign"
  /\ PlaceTwap(maker, form[maker].terms)
  /\ asked' = Append(asked, AskedPrice(form[maker].request))
  /\ form' = [form EXCEPT ![maker] = Blank]
  /\ UNCHANGED <<keeper, page>>

-----------------------------------------------------------------------------
(* The orders page                                                          *)

ListsActive(maker) ==
  /\ page[maker].ids = {}
  /\ page' = [page EXCEPT ![maker].ids = active,
                          ![maker].shown = IF active = {} THEN {} ELSE page[maker].shown]
  /\ UNCHANGED <<keeperVars, form, asked>>

(* The orders themselves are read after the index.                          *)
Listed(maker) == {id \in page[maker].ids : orders[id].maker = maker}

(* A listing that fails shows no orders.                                    *)
ShowsOrders(maker) ==
  /\ page[maker].ids # {}
  /\ \E shown \in {{}, Listed(maker)} :
       page' = [page EXCEPT ![maker].ids = {}, ![maker].shown = shown]
  /\ UNCHANGED <<keeperVars, form, asked>>

(* The order may be closed already, and may yet be before the wallet signs. *)
BuildsCancel(maker, id) ==
  /\ id \in page[maker].shown /\ page[maker].cancelling = 0
  /\ orders[id].status = "Active"
  /\ page' = [page EXCEPT ![maker].cancelling = id]
  /\ UNCHANGED <<keeperVars, form, asked>>

SignsCancel(maker) ==
  /\ page[maker].cancelling # 0
  /\ CancelTwap(page[maker].cancelling)
  /\ page' = [page EXCEPT ![maker].cancelling = 0]
  /\ UNCHANGED <<keeper, form, asked>>

CancelFails(maker) ==
  /\ page[maker].cancelling # 0
  /\ page' = [page EXCEPT ![maker].cancelling = 0]
  /\ UNCHANGED <<keeperVars, form, asked>>

-----------------------------------------------------------------------------
(* The contract stays open to everybody: an order placed past the server    *)
(* asks for the limit in its terms.                                         *)
LimitOf(o) == IF FixedLimit(o) THEN [num |-> o.limit_num, den |-> o.limit_den] ELSE None

Elsewhere ==
  /\ KeeperNext
  /\ asked' = IF Len(orders') = Len(orders) THEN asked ELSE Append(asked, LimitOf(Last(orders')))
  /\ UNCHANGED <<form, page>>

BuildInit ==
  /\ KeeperInit
  /\ form = [m \in Makers |-> Blank]
  /\ page = [m \in Makers |-> [ids |-> {}, shown |-> {}, cancelling |-> 0]]
  /\ asked = <<>>

BuildNext ==
  \/ \E maker \in Makers :
       \/ \E q \in TwapRequests : Asks(maker, q)
       \/ Simulated(maker) \/ GivesUp(maker) \/ Signs(maker)
       \/ ListsActive(maker) \/ ShowsOrders(maker)
       \/ \E id \in DOMAIN orders : BuildsCancel(maker, id)
       \/ SignsCancel(maker) \/ CancelFails(maker)
  \/ Elsewhere

BuildSpec == BuildInit /\ [][BuildNext]_buildVars /\ KeeperFairness

-----------------------------------------------------------------------------
(* PRICE, fixed limit: over all slices, whatever their sizes, routes and    *)
(* fees, a maker has net at least the price asked for, be it in the terms   *)
(* of a call or as the price floor of a request ("min tokenOut per tokenIn")*)
(* short by no more than the half unit a price is rounded by.               *)
AskedPriceKept ==
  \A id \in DOMAIN orders :
    asked[id] # None =>
      orders[id].received_out * asked[id].den >= orders[id].filled_in * asked[id].num
=============================================================================
