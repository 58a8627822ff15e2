----------------------------- MODULE TwapKeeper -----------------------------
(***************************************************************************)
(* The keeper that drives the TwapBook's orders.  A tick reads the active   *)
(* orders and then the ledger, and takes a bounded, rotating part of the    *)
(* orders one after the other: it fetches the order, sizes a slice (or      *)
(* finds the window over), asks for a route and submits.  Each of these is  *)
(* an await: ledgers close and others slice and cancel in between.          *)
(***************************************************************************)
EXTENDS TwapBook

CONSTANTS
  MAX_ORDERS_PER_TICK,
  SAFETY_LEDGERS,             \* the end-game's "+~2 ticks safety"
  EligiblePairs,              \* the directed pairs of the token universe
  Rotations                   \* a common multiple of the possible lengths of
                              \* the index: the counter is kept modulo it

ASSUME KeeperAssumption ==
  /\ MAX_ORDERS_PER_TICK \in Nat \ {0} /\ SAFETY_LEDGERS \in Nat
  /\ EligiblePairs \subseteq Tokens \X Tokens
  /\ Rotations \in Nat \ {0} /\ \A n \in 1..MAX_ACTIVE_ORDERS : Rotations % n = 0

VARIABLE keeper   \* what the tick knows: phase, read ids, turns left, ledger, submission

keeperVars == <<vars, keeper>>

NoSubmission == [kind |-> "none"]
Idle(rotation) == [phase |-> "idle", ids |-> <<>>, turns |-> <<>>, ledger |-> 0,
                   rotation |-> rotation, sub |-> NoSubmission]

-----------------------------------------------------------------------------
(* Sizing a slice                                                           *)

OnSchedule(o) ==
  MulDivFloor(o.total_in, Max({0, keeper.ledger - o.start_ledger}), o.end_ledger - o.start_ledger)
Headroom(o) == MulDivFloor(o.total_in, o.pace_tolerance_bps, BPS_DENOMINATOR)

EndGame(o) ==
  Max({0, o.end_ledger - keeper.ledger})
    <= o.min_slice_gap * MulDivCeil(Remaining(o), 1, o.max_slice_in) + SAFETY_LEDGERS

Clipped(o, slice) == Min({slice, o.max_slice_in, Remaining(o)})

(* Faulty: the ceiling without what is filled already.                      *)
CeilingOfEmpty(o) == OnSchedule(o) + Headroom(o)

Ceiling(o) == OnSchedule(o) + Headroom(o) - o.filled_in

(* The sizes a turn may come to: in the end-game the ceiling, otherwise the *)
(* schedule or, when the market happens to be at fair value, the ceiling.   *)
Sizes(o) ==
  LET paced == OnSchedule(o) - o.filled_in
      opportunity == Clipped(o, Ceiling(o))
  IN {Clipped(o, size) : size \in
        IF EndGame(o) THEN {Ceiling(o)}
        ELSE {paced} \union (IF o.pace_tolerance_bps > 0 /\ opportunity > paced
                             THEN {opportunity} ELSE {})}

TooSoon(o) == o.last_slice_ledger > 0 /\ keeper.ledger < o.last_slice_ledger + o.min_slice_gap

-----------------------------------------------------------------------------
(* A tick                                                                   *)

(* Faulty: every tick starts at the head of the list.                       *)
TurnsFromHead(ids) == SubSeq(ids, 1, Min({Len(ids), MAX_ORDERS_PER_TICK}))

Turns(ids) ==
  [i \in 1..Min({Len(ids), MAX_ORDERS_PER_TICK}) |->
     ids[((keeper.rotation + i - 1) % Len(ids)) + 1]]

(* get_active_orders: placing appends an id and closing leaves the others   *)
(* in their order.                                                          *)
ReadActive ==
  /\ keeper.phase = "idle" /\ active # {}
  /\ keeper' = [keeper EXCEPT !.phase = "ledger", !.ids = InOrder(active)]
  /\ UNCHANGED vars

ReadLedger ==
  /\ keeper.phase = "ledger"
  /\ LET turns == Turns(keeper.ids)
     IN keeper' = [keeper EXCEPT !.phase = "turn", !.ids = <<>>, !.ledger = Ledger, !.turns = turns,
                                 !.rotation = (@ + Len(turns)) % Rotations]
  /\ UNCHANGED vars

(* The read throws: the tick ends before the rotation moves.                *)
ReadLedgerFails ==
  /\ keeper.phase = "ledger"
  /\ keeper' = Idle(keeper.rotation)
  /\ UNCHANGED vars

(* The next turn, or the end of the tick.                                   *)
NextTurn ==
  LET rest == Tail(keeper.turns)
  IN IF rest = <<>> THEN Idle(keeper.rotation)
     ELSE [keeper EXCEPT !.phase = "turn", !.turns = rest, !.sub = NoSubmission]

Submit(submission) == keeper' = [keeper EXCEPT !.phase = "submit", !.sub = submission]

Eligible(o) == <<o.token_in, o.token_out>> \in EligiblePairs

(* The order is fetched; whatever gives the turn up leads to the next one:  *)
(* a failed read, no route, a market below the limit.                       *)
GiveUp ==
  /\ keeper.phase = "turn"
  /\ keeper' = NextTurn
  /\ UNCHANGED vars

FindExpired ==
  /\ keeper.phase = "turn"
  /\ LET id == Head(keeper.turns)
         o == orders[id]
     IN /\ o.status = "Active" /\ Eligible(o)
        /\ keeper.ledger > o.end_ledger
        /\ Submit([kind |-> "expire", id |-> id, order |-> o])
  /\ UNCHANGED vars

SizeSlice(route) ==
  /\ keeper.phase = "turn"
  /\ LET id == Head(keeper.turns)
         o == orders[id]
     IN /\ o.status = "Active" /\ Eligible(o)
        /\ keeper.ledger <= o.end_ledger
        /\ ~TooSoon(o)
        /\ \E size \in Sizes(o) :
             /\ size > 0
             /\ ValidSegments(route, size)
             /\ Submit([kind |-> "slice", id |-> id, order |-> o,
                        amount |-> size, route |-> route])
  /\ UNCHANGED vars

SubmitExpire ==
  /\ keeper.phase = "submit" /\ keeper.sub.kind = "expire"
  /\ ExpireTwap(keeper.sub.id)
  /\ keeper' = NextTurn

SubmitSlice(outs) ==
  /\ keeper.phase = "submit" /\ keeper.sub.kind = "slice"
  /\ DOMAIN outs = DOMAIN keeper.sub.route
  /\ ExecuteSlice(keeper.sub.id, keeper.sub.amount, keeper.sub.route, outs)
  /\ keeper' = NextTurn

(* The network or the contract refuses: the turn ends with a log line.      *)
SubmitFails ==
  /\ keeper.phase = "submit"
  /\ keeper' = NextTurn
  /\ UNCHANGED vars

KeeperStep ==
  \/ ReadActive \/ ReadLedger \/ ReadLedgerFails \/ GiveUp \/ FindExpired
  \/ \E route \in Routes : SizeSlice(route)
  \/ SubmitExpire \/ SubmitFails
  \/ /\ keeper.sub.kind = "slice"
     /\ \E outs \in [DOMAIN keeper.sub.route -> VenueOutputs] : SubmitSlice(outs)

KeeperInit == Init /\ keeper = Idle(0)
KeeperNext == KeeperStep \/ (Next /\ UNCHANGED keeper)

(* The interval timer and the awaits return; ledgers close; a ledger read   *)
(* that is asked for again and again answers at last, and an expiry that is *)
(* found and submitted again and again is found and gets in at last.        *)
KeeperFairness ==
  /\ WF_keeperVars(KeeperStep)
  /\ WF_keeperVars(CloseLedger /\ UNCHANGED <<twapVars, keeper>>)
  /\ SF_keeperVars(ReadLedger) /\ SF_keeperVars(FindExpired) /\ SF_keeperVars(SubmitExpire)
KeeperSpec == KeeperInit /\ [][KeeperNext]_keeperVars /\ KeeperFairness

-----------------------------------------------------------------------------
(* A submission prepared from an older ledger, whatever the sizing chose,   *)
(* is within what the contract allows, unless somebody else touched the     *)
(* order or the window ended in the meantime: the two mirror each other.    *)
SubmissionsFit ==
  (keeper.phase = "submit" /\ orders[keeper.sub.id] = keeper.sub.order) =>
    LET o == orders[keeper.sub.id]
    IN IF keeper.sub.kind = "slice"
       THEN Ledger <= o.end_ledger => CanSlice(o, keeper.sub.amount)
       ELSE Ledger > o.end_ledger

(* Once the makers place no more, every order of an eligible pair is closed *)
(* before long, however few of them a tick takes: the list then only        *)
(* shrinks, and the rotation comes round to each of its places.  While      *)
(* orders come and go without end it need not: `rotation % ids.length'      *)
(* counts places, and an order may change its place from tick to tick.      *)
PlacingEnds == <>[][Len(orders') = Len(orders)]_orders

KeeperCloses ==
  PlacingEnds =>
    \A id \in 1..MaxOrders :
      (id \in active /\ Eligible(orders[id])) ~> id \notin active
=============================================================================
