--------------------------- MODULE RfqSettleProofs --------------------------
(***************************************************************************)
(* A used (maker, nonce) settles nothing that could have settled when it    *)
(* was used.  The invariant behind it: the record of a nonce outlives, from *)
(* every use of it, the longest life a quote may have.                      *)
(***************************************************************************)
EXTENDS RfqSettle, PriceOracleProofs

Outlives(u, record, now) ==
  /\ u.at <= now
  /\ record[<<u.maker, u.nonce>>] # None
  /\ record[<<u.maker, u.nonce>>] >= u.at + USED_TTL_LEDGERS

ReplayInv ==
  /\ seq \in Nat
  /\ used \in [Accounts \X Nonces -> Nat \union {None}]
  /\ log \in Seq(Use)
  /\ \A i \in DOMAIN log : Outlives(log[i], used, seq)
  /\ NoReplay

LEMMA InitReplay == Init => ReplayInv
  BY DEF Init, OracleInit, ReplayInv, NoReplay, Outlives

(* The oracle and the clock only let time pass.                             *)
LEMMA OracleTime == OracleNext /\ seq \in Nat => seq' \in Nat /\ seq' >= seq
<1>1. OracleStep => seq' = seq
  BY DEF OracleStep, SetOracleAdmin, UpdateOraclePrice, SetSep40MaxAge,
         SetSep40Feed, RemoveSep40Feed, Report
<1>2. CloseLedger => seq' = seq + 1
  BY DEF CloseLedger
<1> QED
  BY <1>1, <1>2 DEF OracleNext

LEMMA QuietStep ==
  ASSUME ReplayInv, UNCHANGED <<used, log>>, seq' \in Nat, seq' >= seq
  PROVE  ReplayInv'
<1>1. \A i \in DOMAIN log : log[i].at \in Nat
  <2>1. \A i \in DOMAIN log : log[i] \in Use
    BY DEF ReplayInv
  <2> QED
    BY <2>1 DEF Use
<1> QED
  BY <1>1 DEF ReplayInv, NoReplay, Outlives, SameNonce, USED_TTL_LEDGERS

(* A use of a nonce, whether it settles a quote or cancels.                 *)
LEMMA UseStep ==
  ASSUME ReplayInv, NEW maker \in Accounts, NEW nonce \in Nonces,
         NEW quote \in Quotes \union {None},
         MarkUsed(maker, nonce, quote), UNCHANGED seq,
         quote # None => quote.expiry_ledger \in Nat /\ seq <= quote.expiry_ledger
  PROVE  ReplayInv'
<1> DEFINE key == <<maker, nonce>>
           new == [maker |-> maker, nonce |-> nonce, at |-> seq, quote |-> quote]
           last == Len(log) + 1
<1>1. /\ seq \in Nat /\ seq' = seq /\ log \in Seq(Use) /\ key \in Accounts \X Nonces
      /\ MAX_QUOTE_TTL_LEDGERS \in Nat
      /\ used \in [Accounts \X Nonces -> Nat \union {None}]
  BY RfqAssumption DEF ReplayInv
<1>2. new \in Use
  BY <1>1 DEF Use
<1>3. /\ log' = Append(log, new)
      /\ used' = [used EXCEPT ![key] = seq + USED_TTL_LEDGERS]
      /\ ~IsUsed(maker, nonce)
  BY DEF MarkUsed, Record
<1> HIDE DEF new
<1>4. /\ log' \in Seq(Use) /\ DOMAIN log' = DOMAIN log \union {last}
      /\ \A i \in DOMAIN log : log'[i] = log[i]
      /\ log'[last] = new /\ last \notin DOMAIN log /\ \A i \in DOMAIN log : i < last
  BY <1>1, <1>2, <1>3
<1>5. /\ new.at = seq /\ new.maker = maker /\ new.nonce = nonce /\ new.quote = quote
  BY DEF new
<1>6. used' \in [Accounts \X Nonces -> Nat \union {None}]
  BY <1>1, <1>3 DEF USED_TTL_LEDGERS
<1>7. \A i \in DOMAIN log :
        /\ log[i] \in Use /\ log[i].at \in Nat /\ log[i].at <= seq
        /\ <<log[i].maker, log[i].nonce>> \in Accounts \X Nonces
        /\ used[<<log[i].maker, log[i].nonce>>] \in Nat
        /\ used[<<log[i].maker, log[i].nonce>>] >= log[i].at + USED_TTL_LEDGERS
  <2> TAKE i \in DOMAIN log
  <2>1. log[i] \in Use
    BY <1>1
  <2>2. log[i].at \in Nat /\ <<log[i].maker, log[i].nonce>> \in Accounts \X Nonces
    BY <2>1 DEF Use
  <2> QED
    BY <1>1, <2>1, <2>2 DEF ReplayInv, Outlives
<1>8. \A i \in DOMAIN log' : Outlives(log'[i], used', seq')
  <2>1. Outlives(new, used', seq')
    BY <1>1, <1>3, <1>5, RfqAssumption DEF Outlives, USED_TTL_LEDGERS
  <2>2. ASSUME NEW i \in DOMAIN log
        PROVE  Outlives(log[i], used', seq')
    <3>1. CASE <<log[i].maker, log[i].nonce>> = key
      BY <1>1, <1>3, <1>7, <3>1, RfqAssumption DEF Outlives, USED_TTL_LEDGERS
    <3>2. CASE <<log[i].maker, log[i].nonce>> # key
      <4>1. used'[<<log[i].maker, log[i].nonce>>] = used[<<log[i].maker, log[i].nonce>>]
        BY <1>1, <1>3, <1>7, <3>2
      <4> QED
        BY <1>1, <1>7, <4>1, RfqAssumption DEF Outlives
    <3> QED
      BY <3>1, <3>2
  <2> QED
    BY <1>4, <2>1, <2>2
<1>9. NoReplay'
  <2> SUFFICES ASSUME NEW i \in DOMAIN log', NEW j \in DOMAIN log', i < j,
                      SameNonce(log'[i], log'[j]), log'[j].quote # None
               PROVE  log'[j].quote.expiry_ledger > log'[i].at + MAX_QUOTE_TTL_LEDGERS
    BY DEF NoReplay, SameNonce
  <2>1. CASE j \in DOMAIN log
    <3>1. i \in DOMAIN log
      BY <1>1, <1>4, <2>1
    <3> QED
      BY <1>4, <2>1, <3>1 DEF ReplayInv, NoReplay
  <2>2. CASE j = last
    <3>1. i \in DOMAIN log
      BY <1>1, <1>4, <2>2
    <3>2. log[i].maker = maker /\ log[i].nonce = nonce
      BY <1>4, <1>5, <2>2, <3>1 DEF SameNonce
    <3>3. used[key] \in Nat /\ used[key] >= log[i].at + USED_TTL_LEDGERS
      BY <1>7, <3>1, <3>2
    <3>4. seq > used[key]
      BY <1>1, <1>3, <3>3, RfqAssumption DEF IsUsed
    <3>5. quote # None /\ log'[j].quote = quote /\ log'[i] = log[i]
      BY <1>4, <1>5, <2>2, <3>1
    <3>6. quote.expiry_ledger \in Nat /\ seq <= quote.expiry_ledger
      BY <3>5
    <3>7. log[i].at \in Nat
      BY <1>7, <3>1
    <3> QED
      BY <1>1, <3>3, <3>4, <3>5, <3>6, <3>7 DEF USED_TTL_LEDGERS
  <2> QED
    BY <1>4, <2>1, <2>2
<1> QED
  BY <1>1, <1>4, <1>6, <1>8, <1>9 DEF ReplayInv

LEMMA NextReplay == ReplayInv /\ [Next]_vars => ReplayInv'
<1> SUFFICES ASSUME ReplayInv, [Next]_vars
             PROVE  ReplayInv'
  OBVIOUS
<1>1. ASSUME NEW q \in Quotes, SettleQuote(q)
      PROVE  ReplayInv'
  <2>1. q \in Quote
    BY RfqAssumption
  <2>2. q.maker \in Accounts /\ q.expiry_ledger \in Nat /\ q.nonce \in Nonces
    BY <2>1 DEF Quote, Nonces
  <2>3. /\ MarkUsed(q.maker, q.nonce, q) /\ UNCHANGED seq
        /\ seq <= q.expiry_ledger
    BY <1>1 DEF SettleQuote, Validate, Admissible, oracleVars
  <2> QED
    BY <2>2, <2>3, UseStep
<1>2. ASSUME NEW maker \in Accounts, NEW nonce \in Nonces, CancelNonce(maker, nonce)
      PROVE  ReplayInv'
  <2>1. MarkUsed(maker, nonce, None) /\ UNCHANGED seq
    BY <1>2 DEF CancelNonce, oracleVars
  <2> QED
    BY <2>1, UseStep
<1>3. ASSUME UNCHANGED <<used, log, seq>>
      PROVE  ReplayInv'
  BY <1>3, QuietStep DEF ReplayInv
<1>4. ASSUME NEW rate \in FeeRates, SetFee(rate)
      PROVE  ReplayInv'
  BY <1>3, <1>4 DEF SetFee, oracleVars
<1>5. ASSUME NEW swap_book \in {SwapBook, OtherBook}, SetSwapBook(swap_book)
      PROVE  ReplayInv'
  BY <1>3, <1>5 DEF SetSwapBook, oracleVars
<1>6. CASE OracleMoves
  BY <1>6, OracleTime, QuietStep DEF OracleMoves, rfqVars, ReplayInv
<1>7. CASE UNCHANGED vars
  BY <1>3, <1>7 DEF vars, rfqVars, oracleVars
<1> QED
  BY <1>1, <1>2, <1>4, <1>5, <1>6, <1>7 DEF Next

(* mark_used and validate together: in every reachable state the log of     *)
(* uses holds no replay of a quote that was admissible at an earlier use of *)
(* its nonce, for any quotes, lifetimes and orders of calls.                *)
THEOREM ReplaySafe == Spec => []NoReplay
<1>1. ReplayInv => NoReplay
  BY DEF ReplayInv
<1> QED
  BY InitReplay, NextReplay, <1>1, PTL DEF Spec

-----------------------------------------------------------------------------
(* The band                                                                 *)

(* nav_check's integer deviation keeps the exact one in bounds.             *)
LEMMA CheckedBand ==
  ASSUME OracleTypeOK, NEW q \in Quote, Validate(q), NavCheck(q)
  PROVE  WithinBand(q)
<1> DEFINE price == ReadNav(q.token_in, q.token_out)
           fair == MulDivFloor(q.amount_in, price.num, price.den)
           gap == AbsDiff(fair, q.amount_out)
           value == q.amount_in * price.num
<1>1. /\ q.token_in \in Tokens /\ q.token_out \in Tokens
      /\ q.amount_in \in Nat \ {0} /\ q.amount_out \in Nat \ {0}
      /\ q.max_nav_dev_bps \in Nat
  <2>1. /\ q.token_in \in Tokens /\ q.token_out \in Tokens
        /\ q.amount_in \in Int /\ q.amount_out \in Int /\ q.max_nav_dev_bps \in Nat
    BY DEF Quote
  <2> QED
    BY <2>1 DEF Validate
<1>2. BPS_DENOMINATOR \in Nat \ {0}
  BY OracleAssumption
<1>3. SUFFICES ASSUME q.max_nav_dev_bps > 0
               PROVE  /\ price # None
                      /\ q.amount_out * price.den * BPS_DENOMINATOR
                           <= value * (BPS_DENOMINATOR + q.max_nav_dev_bps)
                      /\ q.amount_out * price.den * BPS_DENOMINATOR
                           > (value - price.den) * (BPS_DENOMINATOR - q.max_nav_dev_bps)
  BY DEF WithinBand
<1>4. /\ price # None /\ fair > 0
      /\ MulDivCeil(gap, BPS_DENOMINATOR, fair) <= q.max_nav_dev_bps
  BY <1>3 DEF NavCheck, Deviation
<1>5. HasPrice(q.token_in, q.token_out) /\ price = ReadOracle(q.token_in, q.token_out)
  BY <1>4 DEF ReadNav
<1>6. price.num \in Nat \ {0} /\ price.den \in Nat \ {0}
  BY <1>1, <1>5, PricePositive
<1>7. /\ fair \in Nat \ {0} /\ value \in Nat
      /\ price.den * fair <= value /\ value < price.den * fair + price.den
  <2>1. q.amount_in \in Nat /\ price.num \in Nat /\ price.den \in Nat /\ price.den > 0
    BY <1>1, <1>6
  <2>2. value \in Nat
    BY <2>1, ProductNat
  <2> HIDE DEF price
  <2>3. fair \in Nat /\ price.den * fair <= value /\ value < price.den * fair + price.den
    BY <2>1, FloorBounds
  <2> QED
    BY <1>4, <2>2, <2>3
<1> HIDE DEF fair, value, price
<1>8. gap \in Nat /\ q.amount_out <= fair + gap /\ fair <= q.amount_out + gap
  BY <1>1, <1>7 DEF AbsDiff
<1> HIDE DEF gap
<1> QED
  BY <1>1, <1>2, <1>4, <1>6, <1>7, <1>8, BandBounds

LEMMA NextBand ==
  ASSUME ReplayInv, OracleTypeOK, [Next]_vars,
         Len(log') > Len(log), log'[Len(log')].quote # None
  PROVE  WithinBand(log'[Len(log')].quote)
<1>1. log \in Seq(Use)
  BY DEF ReplayInv
<1>2. ASSUME NEW u, log' = Append(log, u)
      PROVE  log'[Len(log')] = u
  BY <1>1, <1>2
<1>3. ASSUME NEW q \in Quotes, SettleQuote(q)
      PROVE  WithinBand(log'[Len(log')].quote)
  <2>1. /\ Validate(q) /\ NavCheck(q)
        /\ log' = Append(log, [maker |-> q.maker, nonce |-> q.nonce, at |-> seq, quote |-> q])
    BY <1>3 DEF SettleQuote, MarkUsed
  <2>2. log'[Len(log')].quote = q /\ q \in Quote
    BY <1>2, <2>1, RfqAssumption
  <2> QED
    BY <2>1, <2>2, CheckedBand
<1>4. ASSUME NEW maker \in Accounts, NEW nonce \in Nonces, CancelNonce(maker, nonce)
      PROVE  FALSE
  <2>1. log' = Append(log, [maker |-> maker, nonce |-> nonce, at |-> seq, quote |-> None])
    BY <1>4 DEF CancelNonce, MarkUsed
  <2> QED
    BY <1>2, <2>1
<1>5. log' # log
  BY <1>1
<1> QED
  BY <1>3, <1>4, <1>5 DEF Next, SetFee, SetSwapBook, OracleMoves, rfqVars, vars

LEMMA NextOracle ==
  ASSUME OracleTypeOK, [Next]_vars
  PROVE  OracleTypeOK'
<1>1. CASE OracleMoves
  BY <1>1, OracleStepTyped DEF OracleMoves
<1>2. CASE UNCHANGED oracleVars
  BY <1>2 DEF oracleVars, OracleTypeOK
<1> QED
  BY <1>1, <1>2 DEF Next, SettleQuote, CancelNonce, SetFee, SetSwapBook, vars

(* Whatever the oracle's price, its decimals and the amounts, a banded      *)
(* quote settle_quote accepts is within its band of the exact value: the    *)
(* two roundings of the check cost the maker nothing and the taker less     *)
(* than one unit.                                                           *)
THEOREM BandSafe == Spec => SettlesWithinBand
<1>1. Init => OracleTypeOK
  BY OracleInitTyped DEF Init
<1>2. OracleTypeOK /\ [Next]_vars => OracleTypeOK'
  BY NextOracle
<1>3. ReplayInv /\ OracleTypeOK /\ [Next]_vars
        => [Len(log') > Len(log) /\ log'[Len(log')].quote # None
              => WithinBand(log'[Len(log')].quote)]_vars
  BY NextBand
<1> QED
  BY InitReplay, NextReplay, <1>1, <1>2, <1>3, PTL DEF Spec, SettlesWithinBand
=============================================================================
