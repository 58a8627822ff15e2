------------------------------ MODULE RfqSettle -----------------------------
(***************************************************************************)
(* The RfqSettle contract: a maker's firm quote settles in one call, both   *)
(* legs at once, at most once.  There is no escrow; replay is stopped by a  *)
(* record of the used (maker, nonce) that the host forgets after a while,   *)
(* and the price by a band around the SwapBook's oracle price.              *)
(*                                                                          *)
(* Signatures are the host's: any quote of Quotes may be presented, by      *)
(* either party with the other's consent, at any time and any number of     *)
(* times.                                                                   *)
(***************************************************************************)
EXTENDS PriceOracle, Sequences

CONSTANTS
  Accounts, FeeVault,
  Quotes,                     \* the quotes that makers and takers sign
  SwapBook, OtherBook,        \* price sources: PriceOracle's, and one that fails
  MAX_FEE, DEFAULT_FEE, FEE_DENOMINATOR,
  MAX_QUOTE_TTL_LEDGERS, MAX_NAV_BAND_BPS,
  FeeRates,                   \* fee rates the admin tries
  Funds                       \* opening balances

Holders == Accounts \union {FeeVault}
Balances == [Holders \X Tokens -> Nat]
USED_TTL_LEDGERS == MAX_QUOTE_TTL_LEDGERS + 1

Quote == [maker : Accounts, taker : Accounts, token_in : Tokens, token_out : Tokens,
          amount_in : Int, amount_out : Int, expiry_ledger : Nat, nonce : Nat,
          max_nav_dev_bps : Nat]

ASSUME RfqAssumption ==
  /\ Quotes \subseteq Quote /\ FeeVault \notin Accounts
  /\ SwapBook # OtherBook /\ None \notin Nat
  /\ FEE_DENOMINATOR \in Nat /\ MAX_FEE \in Nat /\ MAX_FEE < FEE_DENOMINATOR
  /\ DEFAULT_FEE \in 0..MAX_FEE /\ FeeRates \subseteq Int
  /\ MAX_QUOTE_TTL_LEDGERS \in Nat /\ MAX_NAV_BAND_BPS \in Nat
  /\ Funds \in Balances

VARIABLES
  used,      \* until which ledger each (maker, nonce) is recorded, or None
  settings,  \* the admin's: fee rate and price source
  balance,   \* the token contracts' ledgers
  log        \* not in the code: every use of a nonce, with the quote it settled

rfqVars == <<used, settings, balance, log>>
vars == <<rfqVars, oracleVars>>

Nonces == {q.nonce : q \in Quotes}

-----------------------------------------------------------------------------
(* The replay record                                                        *)

IsUsed(maker, nonce) ==
  LET until == used[<<maker, nonce>>] IN until # None /\ seq <= until

(* Faulty: kept for less than a quote may live.                             *)
RecordTooShort(maker, nonce) ==
  [used EXCEPT ![<<maker, nonce>>] = seq + MAX_QUOTE_TTL_LEDGERS - 1]

Record(maker, nonce) ==
  [used EXCEPT ![<<maker, nonce>>] = seq + USED_TTL_LEDGERS]

MarkUsed(maker, nonce, quote) ==
  /\ ~IsUsed(maker, nonce)
  /\ used' = Record(maker, nonce)
  /\ log' = Append(log, [maker |-> maker, nonce |-> nonce, at |-> seq, quote |-> quote])

-----------------------------------------------------------------------------
(* The price                                                                *)

(* get_oracle_price of the SwapBook refuses stale prices itself; any        *)
(* failure, or a price that is not positive, makes the oracle unavailable.  *)
ReadNav(in, out) ==
  IF settings.swap_book = SwapBook /\ HasPrice(in, out)
  THEN ReadOracle(in, out) ELSE None

NavFresh(price) == seq - price.updated_at <= ORACLE_STALE_LEDGERS

(* Faulty: the deviation rounded down.                                      *)
DeviationRoundedDown(fair, amount_out) ==
  MulDivFloor(AbsDiff(fair, amount_out), BPS_DENOMINATOR, fair)

Deviation(fair, amount_out) ==
  MulDivCeil(AbsDiff(fair, amount_out), BPS_DENOMINATOR, fair)

NavCheck(q) ==
  q.max_nav_dev_bps > 0 =>
    LET price == ReadNav(q.token_in, q.token_out)
        fair == MulDivFloor(q.amount_in, price.num, price.den)
    IN /\ price # None
       /\ NavFresh(price)
       /\ fair > 0
       /\ Deviation(fair, q.amount_out) <= q.max_nav_dev_bps

-----------------------------------------------------------------------------
(* Entry points                                                             *)

Admissible(q) ==
  seq <= q.expiry_ledger /\ q.expiry_ledger - seq <= MAX_QUOTE_TTL_LEDGERS

Validate(q) ==
  /\ q.amount_in > 0 /\ q.amount_out > 0
  /\ q.token_in # q.token_out
  /\ q.maker # q.taker
  /\ Admissible(q)
  /\ q.max_nav_dev_bps <= MAX_NAV_BAND_BPS

(* External: a token transfer, refused when the payer is short.             *)
Moved(b, token, from, to, amount) ==
  [b EXCEPT ![<<from, token>>] = @ - amount, ![<<to, token>>] = @ + amount]

SettleQuote(q) ==
  LET fee == CalculateFee(q.amount_in, settings.fee, FEE_DENOMINATOR)
      maker_receives == q.amount_in - fee
  IN /\ Validate(q)
     /\ MarkUsed(q.maker, q.nonce, q)
     /\ NavCheck(q)
     /\ maker_receives > 0
     /\ balance[<<q.taker, q.token_in>>] >= q.amount_in
     /\ balance[<<q.maker, q.token_out>>] >= q.amount_out
     /\ balance' = Moved(Moved(Moved(balance, q.token_in, q.taker, q.maker, maker_receives),
                               q.token_in, q.taker, FeeVault, fee),
                         q.token_out, q.maker, q.taker, q.amount_out)
     /\ UNCHANGED <<settings, oracleVars>>

CancelNonce(maker, nonce) ==
  /\ MarkUsed(maker, nonce, None)
  /\ UNCHANGED <<settings, balance, oracleVars>>

SetFee(rate) ==
  /\ rate \in 0..MAX_FEE
  /\ settings' = [settings EXCEPT !.fee = rate]
  /\ UNCHANGED <<used, balance, log, oracleVars>>

SetSwapBook(swap_book) ==
  /\ settings' = [settings EXCEPT !.swap_book = swap_book]
  /\ UNCHANGED <<used, balance, log, oracleVars>>

(* The SwapBook's oracle moves on by itself.                                *)
OracleMoves ==
  /\ OracleNext
  /\ UNCHANGED rfqVars

Init ==
  /\ OracleInit
  /\ used = [mn \in Accounts \X Nonces |-> None]
  /\ settings = [fee |-> DEFAULT_FEE, swap_book |-> SwapBook]
  /\ balance = Funds
  /\ log = <<>>

Next ==
  \/ \E q \in Quotes : SettleQuote(q)
  \/ \E maker \in Accounts, nonce \in Nonces : CancelNonce(maker, nonce)
  \/ \E rate \in FeeRates : SetFee(rate)
  \/ \E swap_book \in {SwapBook, OtherBook} : SetSwapBook(swap_book)
  \/ OracleMoves

Spec == Init /\ [][Next]_vars

-----------------------------------------------------------------------------
Use == [maker : Accounts, nonce : Nonces, at : Nat, quote : Quotes \union {None}]

SameNonce(u, v) == u.maker = v.maker /\ u.nonce = v.nonce

(* Once a maker's nonce is used, settled or cancelled, no quote that could  *)
(* have settled at that moment ever settles under it, though the record is  *)
(* forgotten: it outlives every such quote.                                 *)
NoReplay ==
  \A i, j \in DOMAIN log :
    (i < j /\ SameNonce(log[i], log[j]) /\ log[j].quote # None) =>
      log[j].quote.expiry_ledger > log[i].at + MAX_QUOTE_TTL_LEDGERS

(* A banded quote settles only against a live price, never more than the    *)
(* band above the true oracle value (in exact fractions, whatever the       *)
(* roundings) and less than one unit more than the band below it: the maker *)
(* is safe from a fat finger and the taker from a wide quote.               *)
WithinBand(q) ==
  LET price == ReadNav(q.token_in, q.token_out)
  IN q.max_nav_dev_bps > 0 =>
       /\ price # None
       /\ q.amount_out * price.den * BPS_DENOMINATOR
            <= q.amount_in * price.num * (BPS_DENOMINATOR + q.max_nav_dev_bps)
       /\ q.amount_out * price.den * BPS_DENOMINATOR
            > (q.amount_in * price.num - price.den) * (BPS_DENOMINATOR - q.max_nav_dev_bps)
SettlesWithinBand ==
  [][Len(log') > Len(log) /\ log'[Len(log')].quote # None
       => WithinBand(log'[Len(log')].quote)]_vars
=============================================================================
