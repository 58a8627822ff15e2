----------------------------- MODULE SwapWidget ------------------------------
(***************************************************************************)
(* The swap form: it asks for quotes as its user types, and carries out what*)
(* the user clicks, one transaction after the other, each signed in the     *)
(* wallet and submitted.  Replies come late or not at all, the market moves *)
(* between a quote, a build and the ledger, and a submission that nobody    *)
(* confirmed may still be applied.                                          *)
(***************************************************************************)
EXTENDS SwapBuild

CONSTANTS
  Tokens, Pairs,              \* the tokens, and the pairs a user selects
  StartPair, TwapPair,        \* what the form and the TWAP tab start with
  TwapTokens,                 \* the tokens that tab takes
  Markets, Configs,           \* states of the market, and how the server may be set up
  Amounts, MaxAmount,         \* what is typed, and the most any hop swaps
  MAX_PARTS,
  Wallets,                    \* what the user may hold at first
  MaxSeq, MaxTasks, MaxSurprises                             \* bounds

ASSUME WidgetAssumption ==
  /\ Pairs \subseteq Tokens \X Tokens /\ {StartPair, TwapPair} \subseteq Pairs /\ TwapTokens \subseteq Tokens
  /\ Amounts \subseteq 1..MaxAmount /\ MAX_PARTS \in Nat \ {0}
  /\ Wallets \subseteq [Tokens -> Nat]
  /\ {MaxSeq, MaxTasks, MaxSurprises} \subseteq Nat

VARIABLES
  router,     \* of the server: the Router it builds for
  input,      \* the form: the tokens and the amount, 0 while it is empty
  mode,       \* the tab
  timer,      \* whether a quote is about to be asked for
  quoteSeq,      \* the number of the last fetch
  fetches,    \* the fetches with a reply outstanding
  quote,      \* the quote on screen, and what it was asked for
  loading,
  task,       \* what the last click set going, or None
  status,     \* how the last one ended, as the user was told
  wallet, account,            \* the user's tokens, and the account's sequence number
  pending,    \* a transaction given up that may still be applied, or None
  prices, earlier,            \* what the venues give, and gave before
  counts      \* not in the code: the tasks so far, and what came between, bounded

form == <<input, mode, timer>>
quotes == <<quoteSeq, fetches, quote, loading>>
ledger == <<wallet, account, pending>>
outside == <<prices, earlier>>
widgetVars == <<router, form, quotes, task, status, ledger, outside, counts>>

Input(pair, amount) == [token_in |-> pair[1], token_out |-> pair[2], amount |-> amount]
Quotable == mode \in {"instant", "twap"}

(* The answers of the server to whatever can be asked here; @@ has TLC       *)
(* tabulate them once.                                                      *)
QuoteOf == [a \in Pairs \X (1..MaxAmount) \X Markets \X BOOLEAN |->
              Quote(a[4], a[1][1], a[1][2], a[2], a[3])] @@ <<>>
PlanOf == [a \in Pairs \X (1..MaxAmount) \X (Markets \X Markets) \X Configs |->
             SwapPlan(a[4], a[1][1], a[1][2], a[2], a[3][1], a[3][2])] @@ <<>>

-----------------------------------------------------------------------------
(* The form.  Whatever it shows is quoted anew, after a pause; leaving a    *)
(* tab, or emptying the amount, calls the pause off but no fetch.           *)

Edit(next, tab, shown) ==
  /\ input' = next /\ mode' = tab
  /\ IF <<next, tab>> = <<input, mode>> THEN timer' = timer /\ quote' = shown
     ELSE IF tab = "p2p" THEN timer' = FALSE /\ quote' = shown
     ELSE /\ timer' = (next.amount > 0)
          /\ quote' = IF next.amount > 0 THEN shown ELSE None
  /\ UNCHANGED <<router, quoteSeq, fetches, loading, task, status, ledger, outside, counts>>

Type(amount) == amount # input.amount /\ Edit([input EXCEPT !.amount = amount], mode, quote)

FillMaxBalance(amount) == Edit([input EXCEPT !.amount = amount], mode, None)

(* A token that is on the other side changes sides.                         *)
TokenSelect(token) ==
  LET out == IF token = input.token_out THEN input.token_in ELSE input.token_out
  IN /\ <<token, out>> \in Pairs
     /\ Edit(Input(<<token, out>>, input.amount), mode, None)

HandleSwapTokens == TokenSelect(input.token_out)

SetMode(tab) ==
  LET eligible == {input.token_in, input.token_out} \subseteq TwapTokens
  IN Edit(IF tab = "twap" /\ ~eligible THEN Input(TwapPair, input.amount) ELSE input, tab, None)

-----------------------------------------------------------------------------
(* Quotes                                                                   *)

DebounceFires ==
  /\ timer /\ quoteSeq < MaxSeq
  /\ timer' = FALSE
  /\ quoteSeq' = quoteSeq + 1
  /\ loading' = TRUE
  /\ fetches' = fetches \union {[seq |-> quoteSeq + 1, for |-> input, fast |-> "waiting", full |-> "waiting"]}
  /\ UNCHANGED <<router, input, mode, quote, task, status, ledger, outside, counts>>

Heard(f, next) ==
  fetches' = (fetches \ {f}) \union (IF "waiting" \in {next.fast, next.full} THEN {next} ELSE {})

(* What a request brings back: an answer of the market as it is or was a    *)
(* moment ago, or nothing.                                                  *)
Replies(f, fast) ==
  {None} \union
    {IF q = None THEN None ELSE [for |-> f.for, blocked |-> q.blocked] :
       q \in {QuoteOf[<<<<f.for.token_in, f.for.token_out>>, f.for.amount, m, fast>>] :
                m \in {prices, earlier}}}

(* Faulty: the last reply to come is the one on screen.                     *)
CurrentAny(f) == TRUE

Current(f) == f.seq = quoteSeq

FastAnswers(f) ==
  /\ f.fast = "waiting"
  /\ \E reply \in Replies(f, TRUE) :
       quote' = IF reply # None /\ Current(f) /\ f.full # "got" THEN reply ELSE quote
  /\ Heard(f, [f EXCEPT !.fast = "got"])
  /\ UNCHANGED <<router, form, quoteSeq, loading, task, status, ledger, outside, counts>>

FullAnswers(f) ==
  /\ f.full = "waiting"
  /\ \E reply \in Replies(f, FALSE) :
       /\ quote' = IF Current(f) THEN reply ELSE quote
       /\ Heard(f, [f EXCEPT !.full = IF reply = None THEN "failed" ELSE "got"])
  /\ loading' = IF Current(f) THEN FALSE ELSE loading
  /\ UNCHANGED <<router, form, quoteSeq, task, status, ledger, outside, counts>>

-----------------------------------------------------------------------------
(* The task under way.  Its legs are numbered as their transactions were    *)
(* built: from the account as it was.  Not in the code: what its            *)
(* transactions moved, and whether nobody else used the account since.      *)

Kind == [instant |-> "swap", twap |-> "twap", p2p |-> "post"]

Click ==
  /\ input.amount > 0 /\ ~loading /\ task = None
  /\ mode = "instant" => quote # None /\ ~quote.blocked
  /\ counts.tasks < MaxTasks
  /\ counts' = [counts EXCEPT !.tasks = @ + 1]
  /\ task' = [kind |-> Kind[mode], for |-> input, at |-> "build", legs |-> <<>>, parts |-> FALSE,
              done |-> 0, guard |-> 0, min |-> 0,
              moved |-> [t \in Tokens |-> 0], alone |-> TRUE]
  /\ status' = "none"
  /\ UNCHANGED <<router, form, quotes, ledger, outside>>

Numbered(legs) == [i \in DOMAIN legs |-> [number |-> account + 1] @@ legs[i]]

(* A success empties the form; of a swap in parts that failed after the     *)
(* first, the quote is taken away and the amount left.                      *)
End(t, outcome) ==
  /\ task' = None /\ status' = outcome
  /\ IF outcome = "success"
     THEN /\ input' = [input EXCEPT !.amount = 0] /\ mode' = mode
          /\ quote' = IF t.kind = "swap" \/ Quotable THEN None ELSE quote
          /\ timer' = FALSE
     ELSE /\ UNCHANGED form
          /\ quote' = IF outcome = "partial" THEN None ELSE quote
  /\ UNCHANGED <<quoteSeq, fetches, loading>>

(* Faulty: an error is an error, whatever came before it.                   *)
ErrorPlain(t) == End(t, "failed")

Error(t) == End(t, IF t.kind = "swap" /\ t.parts /\ t.done > 0 THEN "partial" ELSE "failed")

(* The head of the loop: the next leg is signed, or asked for first.        *)
Continue(t) ==
  IF t.legs = <<>> THEN End(t, "success")
  ELSE IF t.parts /\ t.guard >= MAX_PARTS THEN Error(t)
  ELSE /\ task' = [t EXCEPT !.at = IF Head(t.legs).tx = None THEN "rebuild" ELSE "sign",
                            !.guard = @ + 1]
       /\ status' = "confirming"
       /\ UNCHANGED <<form, quotes>>

InParts(plan) == plan.kind \in {"blend", "hops"}

(* What the server builds for a pair and an amount, or Refused: from quotes *)
(* that may be a moment old, simulated as things are.                       *)
Builds(pair, amount) ==
  {Refused} \union
    {Build(PlanOf[<<pair, amount, m, router>>], wallet, prices) :
       m \in {prices, earlier} \X {prices, earlier}}

(* A TWAP order and a standing order take their whole amount, the latter in *)
(* two transactions where the book cannot match and place in one.           *)
EscrowPlans(t) ==
  LET parts == IF t.kind = "post" /\ ~router.v12 /\ t.for.amount > 1
               THEN <<1, t.for.amount - 1>> ELSE <<t.for.amount>>
  IN {Refused, Plan("single",
        [i \in DOMAIN parts |-> Signable(Tx("escrow", t.for.token_in, parts[i], 1, <<>>, 0))], 0)}

BuildAnswers ==
  /\ task # None /\ task.at = "build"
  /\ \E plan \in (IF task.kind = "swap"
                  THEN Builds(<<task.for.token_in, task.for.token_out>>, task.for.amount)
                  ELSE EscrowPlans(task)) :
       IF ~plan.ok THEN Error(task)
       ELSE Continue([task EXCEPT !.legs = Numbered(plan.legs), !.parts = InParts(plan),
                                  !.min = plan.min, !.alone = TRUE])
  /\ UNCHANGED <<router, ledger, outside, counts>>

(* A deferred leg is built at its turn, and may itself be one of several.   *)
Rebuilt ==
  /\ task # None /\ task.at = "rebuild"
  /\ LET ask == Head(task.legs).deferred
     IN \E plan \in Builds(<<ask.token_in, ask.token_out>>, ask.amount) :
          IF ~plan.ok THEN Error(task)
          ELSE LET t == [task EXCEPT !.legs = Numbered(plan.legs) \o Tail(@), !.alone = TRUE]
               IN IF InParts(plan) THEN Continue(t)
                  ELSE /\ task' = [t EXCEPT !.at = "sign"]
                       /\ UNCHANGED <<form, quotes, status>>
  /\ UNCHANGED <<router, ledger, outside, counts>>

SignTransaction(ok) ==
  /\ task # None /\ task.at = "sign"
  /\ IF ok THEN task' = [task EXCEPT !.at = "submit"] /\ UNCHANGED <<form, quotes, status>>
     ELSE Error(task)
  /\ UNCHANGED <<router, ledger, outside, counts>>

Submitting == task # None /\ task.at = "submit"
InSequence(number) == number = account + 1

(* The ledger has the transaction, and it did what it says or, failed,      *)
(* nothing but take the account's next number.                              *)
SubmitSettles ==
  LET leg == Head(task.legs)
      after == Applied(leg.tx, wallet, prices)
  IN /\ Submitting /\ InSequence(leg.number)
     /\ account' = account + 1
     /\ IF after = None THEN Error(task) /\ UNCHANGED wallet
        ELSE /\ wallet' = after
             /\ Continue([task EXCEPT !.legs = Tail(@), !.done = @ + 1,
                            !.moved = [t \in Tokens |-> @[t] + after[t] - wallet[t]]])
     /\ UNCHANGED <<router, pending, outside, counts>>

(* A node takes nothing that is out of sequence, and may refuse the rest.   *)
SubmitRefused ==
  /\ Submitting
  /\ Error(task)
  /\ UNCHANGED <<router, ledger, outside, counts>>

SubmitUnconfirmed ==
  /\ Submitting /\ InSequence(Head(task.legs).number)
  /\ counts.surprises < MaxSurprises
  /\ counts' = [counts EXCEPT !.surprises = @ + 1]
  /\ pending' = Head(task.legs)
  /\ Error(task)
  /\ UNCHANGED <<router, wallet, account, outside>>

-----------------------------------------------------------------------------
(* The rest of the world                                                    *)

Accompanied == IF task = None THEN None ELSE [task EXCEPT !.alone = FALSE]

PendingLands ==
  /\ pending # None /\ InSequence(pending.number)
  /\ pending' = None /\ account' = account + 1
  /\ wallet' = LET after == Applied(pending.tx, wallet, prices)
               IN IF after = None THEN wallet ELSE after
  /\ task' = Accompanied
  /\ UNCHANGED <<router, form, quotes, status, outside, counts>>

(* The account's owner signs something else: another tab, a trustline.      *)
SignedElsewhere ==
  /\ counts.surprises < MaxSurprises
  /\ counts' = [counts EXCEPT !.surprises = @ + 1]
  /\ account' = account + 1
  /\ task' = Accompanied
  /\ UNCHANGED <<router, form, quotes, status, wallet, pending, outside>>

MarketMoves(m) ==
  /\ counts.surprises < MaxSurprises /\ m # prices
  /\ counts' = [counts EXCEPT !.surprises = @ + 1]
  /\ earlier' = prices /\ prices' = m
  /\ UNCHANGED <<router, form, quotes, task, status, ledger>>

WidgetInit ==
  /\ router \in Configs /\ wallet \in Wallets /\ prices \in Markets /\ earlier = prices
  /\ input = Input(StartPair, 0) /\ mode = "instant" /\ timer = FALSE
  /\ quoteSeq = 0 /\ fetches = {} /\ quote = None /\ loading = FALSE
  /\ task = None /\ status = "none"
  /\ account = 0 /\ pending = None
  /\ counts = [tasks |-> 0, surprises |-> 0]

WidgetNext ==
  \/ \E amount \in Amounts \union {0} : Type(amount) \/ (amount > 0 /\ FillMaxBalance(amount))
  \/ \E token \in Tokens \ {input.token_in} : TokenSelect(token)
  \/ HandleSwapTokens
  \/ \E tab \in DOMAIN Kind : SetMode(tab)
  \/ DebounceFires
  \/ \E f \in fetches : FastAnswers(f) \/ FullAnswers(f)
  \/ Click \/ BuildAnswers \/ Rebuilt
  \/ \E ok \in BOOLEAN : SignTransaction(ok)
  \/ SubmitSettles \/ SubmitRefused \/ SubmitUnconfirmed
  \/ PendingLands \/ SignedElsewhere
  \/ \E m \in Markets : MarketMoves(m)

WidgetSpec == WidgetInit /\ [][WidgetNext]_widgetVars

-----------------------------------------------------------------------------
(* Once a quote has had the time to arrive it is for what the form says,    *)
(* however the replies to earlier inputs were delayed or reordered.         *)
QuoteSettles ==
  Quotable /\ input.amount > 0 /\ ~timer /\ ~loading /\ quote # None => quote.for = input

(* Every transaction a user is asked to sign is one the Router's checks     *)
(* accept: shares that add up, floors that are not zero, no estimate below  *)
(* a floor.                                                                 *)
PlansAcceptable ==
  task # None => \A leg \in Range(task.legs) : leg.tx # None => Acceptable(leg.tx)

(* What a task's transactions moved, counting the one that ends it.         *)
Moved ==
  [t \in Tokens |-> IF task' = None THEN task.moved[t] + wallet'[t] - wallet[t]
                    ELSE task'.moved[t]]

(* "Sized to the prior hop's guaranteed minimum; any surplus intermediate   *)
(* tokens stay in the wallet": the second transaction of a swap never sells *)
(* what the user held of a token between before.  A third one may: the      *)
(* minimum it was sized to is not that of the second as built anew.         *)
SecondPartCovered ==
  [][task # None /\ task.done < 2 =>
       \A t \in Tokens \ {task.for.token_in} : Moved[t] >= 0]_widgetVars

(* What the user is told is what happened: a success spent the input to the *)
(* last unit and paid no less than the floor the plan came with (hops that  *)
(* are rebuilt on the way have floors of their own, and from the third      *)
(* transaction on may have come back through the input), a failure moved    *)
(* nothing, and when some of it moved it is called partial.                 *)
HonestOutcome ==
  [][task # None /\ task' = None =>
       /\ status' = "success" /\ task.done < 2 => Moved[task.for.token_in] = -task.for.amount
       /\ status' = "success" /\ task.kind = "swap" =>
            Moved[task.for.token_out] >= (IF task.parts THEN 1 ELSE task.min)
       /\ status' = "partial" => \E t \in Tokens : Moved[t] # 0
       /\ status' = "failed" /\ task.kind # "post" => \A t \in Tokens : Moved[t] = 0]_widgetVars

(* "One extra wallet approval": where nobody else uses the account, a part  *)
(* that is about to be submitted is the account's next transaction.         *)
PartsInSequence ==
  Submitting /\ task.alone => InSequence(Head(task.legs).number)
=============================================================================
