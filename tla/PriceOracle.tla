----------------------------- MODULE PriceOracle ----------------------------
(***************************************************************************)
(* The price side of the SwapBook contract.  A directed pair has a pushed   *)
(* price, moved only by the oracle admin in bounded steps; a token may have *)
(* a SEP-40 feed.  When both tokens of a pair have one, the pair is priced  *)
(* from the feeds alone.                                                    *)
(***************************************************************************)
EXTENDS FixedPoint

CONSTANTS
  Tokens,
  None,                       \* an absent storage entry or answer
  OracleAdmins,               \* the keys that may be made oracle admin
  BPS_DENOMINATOR, MAX_ORACLE_JUMP_BPS, ORACLE_STALE_LEDGERS,
  SEP40_MS_THRESHOLD, SEP40_MAX_FUTURE_SKEW_SECS,
  TokenDecimals,              \* each token contract's decimals
  LedgerSecs,                 \* seconds between two ledgers
  PushedPrices, PushedPairs,  \* the <<num, den>> the oracle admin may try to
                              \* push, and the directed pairs it pushes for
  FeedConfigs,                \* feed settings the admin may register
  Reports,                    \* what an external SEP-40 oracle may report
  MaxAges,                    \* values of the global Sep40MaxAge
  MaxLedger                   \* bound on the ledger sequence

ASSUME OracleAssumption ==
  /\ BPS_DENOMINATOR \in Nat \ {0} /\ MAX_ORACLE_JUMP_BPS \in Nat
  /\ ORACLE_STALE_LEDGERS \in Nat /\ MaxLedger \in Nat
  /\ SEP40_MS_THRESHOLD \in Nat /\ SEP40_MAX_FUTURE_SKEW_SECS \in Nat
  /\ LedgerSecs \in Nat /\ TokenDecimals \in [Tokens -> Nat]
  /\ PushedPrices \subseteq Int \X Int
  /\ PushedPairs \subseteq Tokens \X Tokens /\ MaxAges \subseteq Nat
  /\ FeedConfigs \subseteq [max_age_secs : Nat, oracle_decimals : Nat]
  /\ Reports \subseteq [price : Int, timestamp : Nat]

VARIABLES
  oracle,     \* admin, pushed prices, feed configs, global max age
  reports,    \* what each token's external SEP-40 oracle answers now
  seq         \* ledger sequence

oracleVars == <<oracle, reports, seq>>

Price == [num : Nat \ {0}, den : Nat \ {0}, updated_at : Nat]
OracleState ==
  [admin : OracleAdmins \union {None},
   pushed : [Tokens \X Tokens -> Price \union {None}],
   feeds : [Tokens -> FeedConfigs \union {None}],
   max_age : MaxAges \union {None}]

Now == seq * LedgerSecs

-----------------------------------------------------------------------------
(* Reading a price                                                          *)

Seconds(timestamp) ==
  IF timestamp > SEP40_MS_THRESHOLD THEN timestamp \div 1000 ELSE timestamp

MaxAge(feed) == IF feed.max_age_secs > 0 THEN feed.max_age_secs ELSE oracle.max_age

(* Ages saturate at zero in the code; max_age is never negative, so the     *)
(* comparison is the same without it.                                       *)
Sep40Answers(token) ==
  LET age == MaxAge(oracle.feeds[token])
      report == reports[token]
  IN /\ age # None
     /\ report # None
     /\ report.price > 0
     /\ Now - Seconds(report.timestamp) <= age
     /\ Seconds(report.timestamp) <= Now + SEP40_MAX_FUTURE_SKEW_SECS

(* Faulty (see SwapBook): the normalisation upside down.                    *)
CrossRateInverted(in, out) ==
  [num |-> reports[in].price * Pow10[TokenDecimals[in] + oracle.feeds[in].oracle_decimals],
   den |-> reports[out].price * Pow10[TokenDecimals[out] + oracle.feeds[out].oracle_decimals],
   updated_at |-> seq]

(* Both tokens' decimals and both oracles' decimals normalise the cross     *)
(* rate; the shared power of ten is cancelled before multiplying.           *)
CrossRate(in, out) ==
  LET e_num == TokenDecimals[out] + oracle.feeds[out].oracle_decimals
      e_den == TokenDecimals[in] + oracle.feeds[in].oracle_decimals
      common == IF e_num < e_den THEN e_num ELSE e_den
  IN [num |-> reports[in].price * Pow10[e_num - common],
      den |-> reports[out].price * Pow10[e_den - common],
      updated_at |-> seq]

FedPair(in, out) == oracle.feeds[in] # None /\ oracle.feeds[out] # None

ReadOracle(in, out) ==
  IF FedPair(in, out)
  THEN IF Sep40Answers(in) /\ Sep40Answers(out) THEN CrossRate(in, out) ELSE None
  ELSE oracle.pushed[<<in, out>>]

OracleFresh(price) == seq <= price.updated_at + ORACLE_STALE_LEDGERS

(* What a fill, a claim, a placement or get_oracle_price may act on.        *)
HasPrice(in, out) ==
  LET price == ReadOracle(in, out) IN price # None /\ OracleFresh(price)

-----------------------------------------------------------------------------
(* Operations                                                               *)

SetOracleAdmin(admin) ==
  /\ oracle' = [oracle EXCEPT !.admin = admin]
  /\ UNCHANGED <<reports, seq>>

AbsDiff(a, b) == IF a > b THEN a - b ELSE b - a

JumpAllowed(prev, num, den) ==
  prev # None =>
    AbsDiff(num * prev.den, prev.num * den)
      <= MulDivFloor(prev.num * den, MAX_ORACLE_JUMP_BPS, BPS_DENOMINATOR)

UpdateOraclePrice(in, out, num, den) ==
  /\ oracle.admin # None
  /\ num > 0 /\ den > 0
  /\ JumpAllowed(oracle.pushed[<<in, out>>], num, den)
  /\ oracle' = [oracle EXCEPT !.pushed[<<in, out>>] =
                  [num |-> num, den |-> den, updated_at |-> seq]]
  /\ UNCHANGED <<reports, seq>>

SetSep40MaxAge(age) ==
  /\ oracle' = [oracle EXCEPT !.max_age = age]
  /\ UNCHANGED <<reports, seq>>

SetSep40Feed(token, feed) ==
  /\ oracle' = [oracle EXCEPT !.feeds[token] = feed]
  /\ UNCHANGED <<reports, seq>>

RemoveSep40Feed(token) ==
  /\ oracle' = [oracle EXCEPT !.feeds[token] = None]
  /\ UNCHANGED <<reports, seq>>

(* External: the SEP-40 oracle contract publishes, or loses its price.      *)
Report(token, report) ==
  /\ reports' = [reports EXCEPT ![token] = report]
  /\ UNCHANGED <<oracle, seq>>

CloseLedger ==
  /\ seq < MaxLedger
  /\ seq' = seq + 1
  /\ UNCHANGED <<oracle, reports>>

OracleInit ==
  /\ oracle = [admin |-> None, pushed |-> [p \in Tokens \X Tokens |-> None],
               feeds |-> [t \in Tokens |-> None], max_age |-> None]
  /\ reports = [t \in Tokens |-> None]
  /\ seq = 0

(* What the admins and the outside world do; the clock is CloseLedger.      *)
OracleStep ==
  \/ \E admin \in OracleAdmins : SetOracleAdmin(admin)
  \/ \E pair \in PushedPairs, p \in PushedPrices :
       UpdateOraclePrice(pair[1], pair[2], p[1], p[2])
  \/ \E age \in MaxAges : SetSep40MaxAge(age)
  \/ \E token \in Tokens, feed \in FeedConfigs : SetSep40Feed(token, feed)
  \/ \E token \in Tokens : RemoveSep40Feed(token)
  \/ \E token \in Tokens, report \in Reports \union {None} : Report(token, report)

OracleNext == OracleStep \/ CloseLedger

-----------------------------------------------------------------------------
OracleTypeOK ==
  /\ oracle \in OracleState
  /\ reports \in [Tokens -> Reports \union {None}]
  /\ seq \in 0..MaxLedger

(* Cancelling the shared power of ten changes no rate: it is still the      *)
(* ratio of the two reported prices in whole tokens, brought to base units. *)
CrossRateIsValueRatio ==
  \A in, out \in Tokens :
    (FedPair(in, out) /\ HasPrice(in, out)) =>
      LET rate == ReadOracle(in, out)
          unit(t) == Pow10[TokenDecimals[t] + oracle.feeds[t].oracle_decimals]
      IN rate.num * reports[out].price * unit(in)
           = rate.den * reports[in].price * unit(out)
=============================================================================
