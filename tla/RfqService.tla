----------------------------- MODULE RfqService -----------------------------
(***************************************************************************)
(* The backend's RFQ desk: RfqService and the in-memory RfqStore behind it. *)
(* Node runs one handler at a time, but a handler that awaits the RPC lets  *)
(* others run before it resumes.  A handler is therefore a task in a slot,  *)
(* advanced from one await to the next; what it read before an await may be *)
(* stale when it resumes.                                                   *)
(***************************************************************************)
EXTENDS Integers, Sequences, FiniteSets, FiniteSetsExt

CONSTANTS
  None, Takers,
  MAX_OPEN_PER_TAKER, MIN_REQUEST_SPACING,
  RequestTtl,               \* life of a request, in ledgers
  MIN_QUOTE_TTL_LEDGERS, MAX_QUOTE_TTL_LEDGERS,
  retain, maxRequests,      \* RfqStore's parameters
  Signed,                   \* quotes that makers have signed
  Slots,                    \* bound on the handlers under way at once
  MaxTime, MaxCreated,      \* bounds on the clock, on requests ever made,
  MaxQuotes                 \* and on a request's quotes before another is begun

ASSUME RfqServiceAssumption ==
  /\ {MAX_OPEN_PER_TAKER, MIN_REQUEST_SPACING, RequestTtl, MIN_QUOTE_TTL_LEDGERS,
      MAX_QUOTE_TTL_LEDGERS, retain, maxRequests, MaxTime, MaxCreated, MaxQuotes} \subseteq Nat
  /\ maxRequests > 0
  /\ \A f \in Signed : DOMAIN f = {"maker", "taker", "expiry", "nonce"} /\ f.expiry \in Nat

VARIABLES
  request,    \* every request object ever made; the id is its position
  stored,     \* the ids in the store's map, whose order is the order of ids
  task,       \* the handler in each slot, or None
  now,        \* the clock, one tick a ledger
  used        \* on chain: the nonces settled or cancelled

vars == <<request, stored, task, now, used>>

Ids == DOMAIN request
Closed(id) == request[id].status # "open"
Key(f) == <<f.maker, f.nonce>>

-----------------------------------------------------------------------------
(* RfqStore                                                                 *)

(* open() also hides requests past their deadline that no sweep has closed. *)
OpenOf(taker) ==
  {id \in stored : /\ request[id].status = "open" /\ request[id].expiresAt > now
                   /\ request[id].taker = taker}

(* The oldest closed request goes first, then the oldest of all.            *)
Victims ==
  LET closed == {id \in stored : Closed(id)}
  IN IF Cardinality(stored) < maxRequests THEN {}
     ELSE {Min(IF closed # {} THEN closed ELSE stored)}

(* Faulty: a closed request is closed again.                                *)
ClosedAgain(id, status) ==
  IF id \in stored
  THEN [request[id] EXCEPT !.status = status, !.closings = @ + 1]
  ELSE request[id]

(* close(): emits request.closed, counted in closings, which is not in the  *)
(* code.  It does nothing to a request that has left the store.             *)
ClosedAs(id, status) ==
  IF id \in stored /\ ~Closed(id)
  THEN [request[id] EXCEPT !.status = status, !.closings = @ + 1]
  ELSE request[id]

Overdue(id) == request[id].expiresAt <= now
Stale(id) == now - Max({request[id].createdAt, request[id].expiresAt}) > retain

Sweep ==
  /\ request' = [id \in Ids |->
                   IF id \in stored /\ Overdue(id) THEN ClosedAs(id, "expired") ELSE request[id]]
  /\ stored' = {id \in stored : ~((Closed(id) \/ Overdue(id)) /\ Stale(id))}
  /\ UNCHANGED <<task, now, used>>

-----------------------------------------------------------------------------
(* Quotes                                                                   *)

WithStatus(quote, status) == [quote EXCEPT !.status = status]

(* Expiring live quotes: by the clock, and by a ledger number when the      *)
(* caller has one.                                                          *)
ExpireQuotes(quotes, ledger) ==
  [k \in DOMAIN quotes |->
     IF quotes[k].status = "live"
        /\ ((ledger # None /\ ledger >= quotes[k].signed.expiry) \/ now >= quotes[k].expiresAt)
     THEN WithStatus(quotes[k], "expired") ELSE quotes[k]]

(* Faulty: a maker's earlier quote stays live beside the new one.           *)
PushQuoteBeside(quotes, quote) == Append(quotes, quote)

(* A re-quote supersedes the maker's live one.                              *)
PushQuote(quotes, quote) ==
  Append([k \in DOMAIN quotes |->
            IF quotes[k].status = "live" /\ quotes[k].signed.maker = quote.signed.maker
            THEN WithStatus(quotes[k], "superseded") ELSE quotes[k]],
         quote)

AcceptQuoteOf(quotes, chosen) ==
  [k \in DOMAIN quotes |->
     IF k = chosen THEN WithStatus(quotes[k], "accepted")
     ELSE IF quotes[k].status = "live" THEN WithStatus(quotes[k], "superseded")
     ELSE quotes[k]]

(* External: the host's enforce-mode simulation of settle_quote.            *)
Settleable(f) == now <= f.expiry /\ Key(f) \notin used

-----------------------------------------------------------------------------
(* Handlers                                                                 *)

Start(slot, handler) ==
  /\ task[slot] = None
  /\ task' = [task EXCEPT ![slot] = handler]

Resume(slot, at) == task' = [task EXCEPT ![slot].at = at]
Done(slot) == task' = [task EXCEPT ![slot] = None]
At(slot, op, at) == task[slot] # None /\ task[slot].op = op /\ task[slot].at = at

(* Answers of getLatestLedger: some ledger since the handler started.       *)
Ledgers(slot) == task[slot].began..now

Handler(op, at, id, of) == [op |-> op, at |-> at, id |-> id, of |-> of, began |-> now]

CreateRequest(slot, taker) ==
  /\ Cardinality(OpenOf(taker)) < MAX_OPEN_PER_TAKER
  /\ \A id \in OpenOf(taker) : now - request[id].createdAt >= MIN_REQUEST_SPACING
  /\ Start(slot, Handler("create", "build", None, taker))
  /\ UNCHANGED <<request, stored, now, used>>

(* Bound: no request so late that the clock stops before it is forgotten.   *)
MayCreate == Len(request) < MaxCreated /\ now + RequestTtl + retain < MaxTime

InsertRequest(slot) ==
  /\ At(slot, "create", "build")
  /\ MayCreate
  /\ request' = Append(request, [taker |-> task[slot].of, createdAt |-> now,
                                 expiresAt |-> now + RequestTtl, status |-> "open",
                                 quotes |-> <<>>, accepted |-> None, hash |-> FALSE,
                                 closings |-> 0])
  /\ stored' = (stored \ Victims) \union {Len(request) + 1}
  /\ Done(slot)
  /\ UNCHANGED <<now, used>>

Get(id) ==
  /\ request' = [request EXCEPT ![id].quotes = ExpireQuotes(@, None)]
  /\ UNCHANGED <<stored, task, now, used>>

Cancel(id) ==
  /\ request' = [request EXCEPT ![id] = ClosedAs(id, "cancelled")]
  /\ UNCHANGED <<stored, task, now, used>>

Settled(r) == [r EXCEPT !.status = IF @ = "accepted" THEN "settled" ELSE @, !.hash = TRUE]
MarkSettled(id) ==
  /\ request' = [request EXCEPT ![id] = Settled(ClosedAs(id, "settled"))]
  /\ UNCHANGED <<stored, task, now, used>>

Accept(slot, id, k) ==
  /\ request[id].status \in {"open", "expired"}
  /\ Start(slot, Handler("accept", "ledger", id, k))
  /\ UNCHANGED <<request, stored, now, used>>

AcceptLedger(slot, ledger) ==
  LET id == task[slot].id
      quotes == ExpireQuotes(request[id].quotes, ledger)
  IN /\ At(slot, "accept", "ledger")
     /\ request' = [request EXCEPT ![id].quotes = quotes]
     /\ IF quotes[task[slot].of].status = "live" THEN Resume(slot, "build") ELSE Done(slot)
     /\ UNCHANGED <<stored, now, used>>

(* Faulty: a request that is not open any more keeps the status it has.     *)
AcceptedOnlyIfOpen(id, k) ==
  [ClosedAs(id, "accepted") EXCEPT !.quotes = AcceptQuoteOf(@, k), !.accepted = k]

(* After the build nothing is checked again.                                *)
Accepted(id, k) ==
  LET closed == ClosedAs(id, "accepted")
  IN [closed EXCEPT !.status = IF Closed(id) THEN "accepted" ELSE @,
                    !.quotes = AcceptQuoteOf(@, k), !.accepted = k]

AcceptBuilt(slot) ==
  LET id == task[slot].id
      k == task[slot].of
  IN /\ At(slot, "accept", "built")
     /\ request' = [request EXCEPT ![id] = Accepted(id, k)]
     /\ Done(slot)
     /\ UNCHANGED <<stored, now, used>>

SubmitQuote(slot, id, f) ==
  /\ request[id].status = "open"
  /\ now < request[id].expiresAt
  /\ Len(request[id].quotes) < MaxQuotes
  /\ f.taker = request[id].taker /\ f.maker # f.taker
  /\ Start(slot, Handler("submit", "ledger", id, f))
  /\ UNCHANGED <<request, stored, now, used>>

SubmitLedger(slot, ledger) ==
  /\ At(slot, "submit", "ledger")
  /\ task[slot].of.expiry > ledger + MIN_QUOTE_TTL_LEDGERS - 1
  /\ task[slot].of.expiry <= ledger + MAX_QUOTE_TTL_LEDGERS
  /\ Resume(slot, "build")
  /\ UNCHANGED <<request, stored, now, used>>

(* expiresAt is the clock when the handler started plus the ledgers left    *)
(* when it asked: some moment from the quote's expiry back to that lag.     *)
SubmitVerified(slot, lag) ==
  LET f == task[slot].of
      quote == [signed |-> f, expiresAt |-> f.expiry - lag, status |-> "live"]
  IN /\ At(slot, "submit", "built")
     /\ lag \in 0..(now - task[slot].began)
     /\ request' = [request EXCEPT ![task[slot].id].quotes = PushQuote(@, quote)]
     /\ Done(slot)
     /\ UNCHANGED <<stored, now, used>>

(* The simulation answers: later than it looked, sooner than it is used.    *)
HostAccepts(slot) ==
  /\ task[slot] # None /\ task[slot].op # "create" /\ task[slot].at = "build"
  /\ Settleable(IF task[slot].op = "accept"
                THEN request[task[slot].id].quotes[task[slot].of].signed
                ELSE task[slot].of)
  /\ Resume(slot, "built")
  /\ UNCHANGED <<request, stored, now, used>>

(* An RPC call, or the host's verdict, makes the handler throw.             *)
Fail(slot) ==
  /\ task[slot] # None /\ task[slot].at # "built"
  /\ Done(slot)
  /\ UNCHANGED <<request, stored, now, used>>

-----------------------------------------------------------------------------
(* External: a quote settles on chain, or its maker retires its nonce.      *)

UseNonce(f) ==
  /\ Settleable(f)
  /\ used' = used \union {Key(f)}
  /\ UNCHANGED <<request, stored, task, now>>

Tick ==
  /\ now < MaxTime
  /\ now' = now + 1
  /\ UNCHANGED <<request, stored, task, used>>

Init ==
  /\ request = <<>> /\ stored = {}
  /\ task = [slot \in Slots |-> None]
  /\ now = 0
  /\ used = {}

Next ==
  \/ \E slot \in Slots :
       \/ \E taker \in Takers : CreateRequest(slot, taker)
       \/ \E id \in stored :
            \/ \E k \in DOMAIN request[id].quotes : Accept(slot, id, k)
            \/ \E f \in Signed : SubmitQuote(slot, id, f)
       \/ InsertRequest(slot) \/ AcceptBuilt(slot) \/ HostAccepts(slot) \/ Fail(slot)
       \/ task[slot] # None /\ \E ledger \in Ledgers(slot) :
            AcceptLedger(slot, ledger) \/ SubmitLedger(slot, ledger)
       \/ \E lag \in 0..MaxTime : SubmitVerified(slot, lag)
  \/ \E id \in stored : Get(id) \/ Cancel(id) \/ MarkSettled(id)
  \/ \E f \in Signed : UseNonce(f)
  \/ Sweep \/ Tick

Spec == Init /\ [][Next]_vars

-----------------------------------------------------------------------------
(* A maker has at most one live quote on a request, though submissions for  *)
(* it overlap and each one's checks are made before its awaits.             *)
OneLivePerMaker ==
  \A id \in Ids : \A j, k \in DOMAIN request[id].quotes :
    LET q == request[id].quotes
    IN (q[j].status = "live" /\ q[k].status = "live" /\ q[j].signed.maker = q[k].signed.maker)
         => j = k

(* Makers hear of a request's end exactly once, whichever of accept, cancel,*)
(* settled and the sweep gets there first and whatever a late one does.     *)
ClosingAnnouncedOnce ==
  \A id \in Ids :
    /\ request[id].closings <= 1
    /\ id \in stored => (request[id].closings = 1 <=> Closed(id))

(* A request names an accepted quote only when it reads as accepted or      *)
(* settled, also when the acceptance comes in after the request lapsed.     *)
AcceptedReadsAccepted ==
  \A id \in stored :
    request[id].accepted # None =>
      /\ request[id].status \in {"accepted", "settled"}
      /\ request[id].quotes[request[id].accepted].status = "accepted"

(* The documented limit that the awaits in between undo.                    *)

(* "Accept one live quote": at most one quote of a request is accepted.     *)
OneAcceptedQuote ==
  \A id \in Ids : \A j, k \in DOMAIN request[id].quotes :
    (request[id].quotes[j].status = "accepted" /\ request[id].quotes[k].status = "accepted") => j = k
=============================================================================
