------------------------------ MODULE DeskProofs ------------------------------
(***************************************************************************)
(* The RFQ desk, its clients and the maker's restocker: what their handlers *)
(* keep however they overlap, for any clocks, caps and numbers of requests, *)
(* quotes, slots, bonds, ticks and failures.                                *)
(***************************************************************************)
EXTENDS RfqDesk, Restock, TLAPS

IsSeq(s) == s \in Seq(ToSet(s))

(* A mapping of a sequence's positions is a sequence of the same length.    *)
LEMMA MappedIsSeq ==
  ASSUME NEW s, IsSeq(s), NEW m, m = [i \in DOMAIN s |-> m[i]]
  PROVE  IsSeq(m) /\ Len(m) = Len(s)
<1>1. DOMAIN s = 1..Len(s) /\ Len(s) \in Nat
  BY DEF IsSeq
<1>2. m = [i \in 1..Len(s) |-> m[i]] /\ \A i \in 1..Len(s) : m[i] \in ToSet(m)
  BY <1>1 DEF ToSet
<1> QED
  BY <1>1, <1>2 DEF IsSeq

(* What appending to a sequence makes of it.                                *)
LEMMA AppendedIsSeq ==
  ASSUME NEW s, IsSeq(s), NEW e
  PROVE  /\ IsSeq(Append(s, e)) /\ Len(s) \in Nat
         /\ DOMAIN s = 1..Len(s) /\ DOMAIN Append(s, e) = 1..(Len(s) + 1)
         /\ \A i \in DOMAIN s : Append(s, e)[i] = s[i]
         /\ Append(s, e)[Len(s) + 1] = e
<1>1. DOMAIN s = 1..Len(s) /\ Len(s) \in Nat /\ s \in Seq(ToSet(s) \union {e})
  <2>1. DOMAIN s = 1..Len(s) /\ Len(s) \in Nat
    BY DEF IsSeq
  <2>2. \A i \in 1..Len(s) : s[i] \in ToSet(s) \union {e}
    BY <2>1 DEF ToSet
  <2>3. s = [i \in 1..Len(s) |-> s[i]]
    BY DEF IsSeq
  <2> QED
    BY <2>1, <2>2, <2>3
<1>2. /\ DOMAIN Append(s, e) = 1..(Len(s) + 1) /\ Append(s, e)[Len(s) + 1] = e
      /\ \A i \in DOMAIN s : Append(s, e)[i] = s[i]
      /\ Append(s, e) \in Seq(ToSet(s) \union {e})
  BY <1>1
<1>3. IsSeq(Append(s, e))
  <2> DEFINE a == Append(s, e)
  <2>0. a \in Seq(ToSet(s) \union {e}) /\ DOMAIN a = 1..(Len(s) + 1)
    BY <1>2
  <2>1. a = [i \in 1..(Len(s) + 1) |-> a[i]]
    <3> HIDE DEF a
    <3> QED
      BY <2>0
  <2>2. \A i \in 1..(Len(s) + 1) : a[i] \in ToSet(a)
    BY <1>2 DEF ToSet
  <2> DEFINE n == Len(s) + 1
  <2>3. n \in Nat
    BY <1>1
  <2> HIDE DEF a, n
  <2>4. a \in Seq(ToSet(a))
    BY <2>1, <2>2, <2>3 DEF n
  <2> QED
    BY <2>4 DEF IsSeq, a
<1> QED
  BY <1>1, <1>2, <1>3

-----------------------------------------------------------------------------
(* The quotes of a request                                                  *)

QuoteOK(q) == q = [signed |-> q.signed, expiresAt |-> q.expiresAt, status |-> q.status]

OneLive(quotes) ==
  \A j, k \in DOMAIN quotes :
    (quotes[j].status = "live" /\ quotes[k].status = "live"
       /\ quotes[j].signed.maker = quotes[k].signed.maker) => j = k

QuotesOK(quotes) ==
  IsSeq(quotes) /\ (\A k \in DOMAIN quotes : QuoteOK(quotes[k])) /\ OneLive(quotes)

(* No quote goes away, and an accepted one stays accepted.                  *)
QuotesLater(quotes, later) ==
  /\ DOMAIN quotes \subseteq DOMAIN later
  /\ \A k \in DOMAIN quotes : quotes[k].status = "accepted" => later[k].status = "accepted"

(* Quotes of which some are given a status that is not live.                *)
LEMMA Relabelled ==
  ASSUME NEW quotes, QuotesOK(quotes),
         NEW later, later = [k \in DOMAIN quotes |-> later[k]],
         \A k \in DOMAIN quotes :
           \/ later[k] = quotes[k]
           \/ \E s \in {"expired", "superseded", "accepted"} :
                /\ later[k] = WithStatus(quotes[k], s)
                /\ quotes[k].status = "accepted" => s = "accepted"
  PROVE  QuotesOK(later) /\ QuotesLater(quotes, later) /\ DOMAIN later = DOMAIN quotes
<1>1. IsSeq(later)
  BY MappedIsSeq DEF QuotesOK
<1>2. \A k \in DOMAIN quotes :
        /\ QuoteOK(later[k]) /\ later[k].signed = quotes[k].signed
        /\ later[k].status = "live" => quotes[k].status = "live"
        /\ quotes[k].status = "accepted" => later[k].status = "accepted"
  <2> SUFFICES ASSUME NEW k \in DOMAIN quotes
               PROVE  /\ QuoteOK(later[k]) /\ later[k].signed = quotes[k].signed
                      /\ later[k].status = "live" => quotes[k].status = "live"
                      /\ quotes[k].status = "accepted" => later[k].status = "accepted"
    OBVIOUS
  <2>1. QuoteOK(quotes[k])
    BY DEF QuotesOK
  <2>2. CASE later[k] = quotes[k]
    BY <2>1, <2>2
  <2>3. CASE later[k] # quotes[k]
    <3>1. PICK s \in {"expired", "superseded", "accepted"} :
            /\ later[k] = WithStatus(quotes[k], s)
            /\ quotes[k].status = "accepted" => s = "accepted"
      BY <2>3
    <3> QED
      BY <2>1, <3>1 DEF QuoteOK, WithStatus
  <2> QED
    BY <2>2, <2>3
<1>3. DOMAIN later = DOMAIN quotes
  OBVIOUS
<1>4. OneLive(later)
  BY <1>2, <1>3 DEF OneLive, QuotesOK
<1> QED
  BY <1>1, <1>2, <1>3, <1>4 DEF QuotesOK, QuotesLater

LEMMA ExpiredKeep ==
  ASSUME NEW quotes, QuotesOK(quotes), NEW ledger
  PROVE  /\ QuotesOK(ExpireQuotes(quotes, ledger))
         /\ QuotesLater(quotes, ExpireQuotes(quotes, ledger))
<1> DEFINE later == ExpireQuotes(quotes, ledger)
<1>1. later = [k \in DOMAIN quotes |-> later[k]]
  BY DEF ExpireQuotes
<1>2. \A k \in DOMAIN quotes :
        \/ later[k] = quotes[k]
        \/ quotes[k].status = "live" /\ later[k] = WithStatus(quotes[k], "expired")
  BY Zenon DEF ExpireQuotes
<1> HIDE DEF later
<1>3. QuotesOK(later) /\ QuotesLater(quotes, later)
  BY <1>1, <1>2, Relabelled
<1> QED
  BY <1>3 DEF later

LEMMA AcceptedKeep ==
  ASSUME NEW quotes, QuotesOK(quotes), NEW chosen \in DOMAIN quotes
  PROVE  /\ QuotesOK(AcceptQuoteOf(quotes, chosen))
         /\ QuotesLater(quotes, AcceptQuoteOf(quotes, chosen))
         /\ AcceptQuoteOf(quotes, chosen)[chosen].status = "accepted"
<1> DEFINE later == AcceptQuoteOf(quotes, chosen)
<1>1. /\ later = [k \in DOMAIN quotes |-> later[k]]
      /\ later[chosen] = WithStatus(quotes[chosen], "accepted")
      /\ \A k \in DOMAIN quotes :
           \/ later[k] = quotes[k] \/ later[k] = WithStatus(quotes[k], "accepted")
           \/ quotes[k].status = "live" /\ later[k] = WithStatus(quotes[k], "superseded")
  BY DEF AcceptQuoteOf
<1> HIDE DEF later
<1>2. QuotesOK(later) /\ QuotesLater(quotes, later)
  <2>1. \A k \in DOMAIN quotes :
          \/ later[k] = quotes[k]
          \/ \E s \in {"expired", "superseded", "accepted"} :
               /\ later[k] = WithStatus(quotes[k], s)
               /\ quotes[k].status = "accepted" => s = "accepted"
    BY <1>1
  <2> QED
    BY <1>1, <2>1, Relabelled
<1>3. later[chosen].status = "accepted"
  BY <1>1 DEF WithStatus, QuotesOK, QuoteOK
<1> QED
  BY <1>2, <1>3 DEF later

(* A re-quote supersedes the maker's live one, so it is the only live one.  *)
LEMMA PushedKeep ==
  ASSUME NEW quotes, QuotesOK(quotes), NEW quote, QuoteOK(quote)
  PROVE  /\ QuotesOK(PushQuote(quotes, quote))
         /\ QuotesLater(quotes, PushQuote(quotes, quote))
<1> DEFINE before == [k \in DOMAIN quotes |->
                        IF quotes[k].status = "live" /\ quotes[k].signed.maker = quote.signed.maker
                        THEN WithStatus(quotes[k], "superseded") ELSE quotes[k]]
           later == Append(before, quote)
<1>1. /\ before = [k \in DOMAIN quotes |-> before[k]]
      /\ \A k \in DOMAIN quotes :
           \/ /\ before[k] = quotes[k]
              /\ ~(quotes[k].status = "live" /\ quotes[k].signed.maker = quote.signed.maker)
           \/ quotes[k].status = "live" /\ before[k] = WithStatus(quotes[k], "superseded")
  OBVIOUS
<1>2. later = PushQuote(quotes, quote)
  BY DEF PushQuote
<1> HIDE DEF before
<1>3. QuotesOK(before) /\ QuotesLater(quotes, before) /\ DOMAIN before = DOMAIN quotes
  BY <1>1, Relabelled
<1>4. \A k \in DOMAIN before :
        ~(before[k].status = "live" /\ before[k].signed.maker = quote.signed.maker)
  BY <1>1, <1>3 DEF WithStatus, QuotesOK, QuoteOK
<1>5. /\ IsSeq(later) /\ Len(before) \in Nat
      /\ DOMAIN before = 1..Len(before) /\ DOMAIN later = 1..(Len(before) + 1)
      /\ \A i \in DOMAIN before : later[i] = before[i]
      /\ later[Len(before) + 1] = quote
  BY <1>3, AppendedIsSeq DEF QuotesOK
<1> HIDE DEF later
<1>6. \A k \in DOMAIN later : k \in DOMAIN before \/ k = Len(before) + 1
  BY <1>5
<1>7. \A k \in DOMAIN later : QuoteOK(later[k])
  BY <1>3, <1>5, <1>6 DEF QuotesOK
<1>8. OneLive(later)
  <2> SUFFICES ASSUME NEW j \in DOMAIN later, NEW k \in DOMAIN later,
                      later[j].status = "live", later[k].status = "live",
                      later[j].signed.maker = later[k].signed.maker
               PROVE  j = k
    BY DEF OneLive
  <2>1. CASE j \in DOMAIN before /\ k \in DOMAIN before
    BY <2>1, <1>3, <1>5 DEF QuotesOK, OneLive
  <2>2. CASE j \in DOMAIN before /\ k = Len(before) + 1
    BY <2>2, <1>4, <1>5
  <2>3. CASE k \in DOMAIN before /\ j = Len(before) + 1
    BY <2>3, <1>4, <1>5
  <2> QED
    BY <2>1, <2>2, <2>3, <1>6
<1>9. QuotesLater(quotes, later)
  BY <1>3, <1>5 DEF QuotesLater
<1> QED
  BY <1>2, <1>5, <1>7, <1>8, <1>9 DEF QuotesOK
-----------------------------------------------------------------------------
(* The requests                                                             *)

(* A request is announced closed exactly if it is.                          *)
RequestOK(r) ==
  /\ r = [taker |-> r.taker, createdAt |-> r.createdAt, expiresAt |-> r.expiresAt,
          status |-> r.status, quotes |-> r.quotes, accepted |-> r.accepted,
          hash |-> r.hash, closings |-> r.closings]
  /\ r.expiresAt \in Nat /\ QuotesOK(r.quotes)
  /\ r.closings \in {0, 1} /\ (r.closings = 1 <=> r.status # "open")

AcceptOK(r) ==
  r.accepted # None =>
    /\ r.status \in {"accepted", "settled"}
    /\ r.accepted \in DOMAIN r.quotes /\ r.quotes[r.accepted].status = "accepted"

RequestLater(r, later) ==
  /\ later.taker = r.taker /\ later.expiresAt = r.expiresAt
  /\ later.status = "open" => r.status = "open"
  /\ QuotesLater(r.quotes, later.quotes)

Grows(requests, later) ==
  /\ DOMAIN requests \subseteq DOMAIN later
  /\ \A id \in DOMAIN requests : RequestLater(requests[id], later[id])

RequestsOK(requests, ids) ==
  /\ IsSeq(requests) /\ \A id \in DOMAIN requests : RequestOK(requests[id])
  /\ ids \subseteq DOMAIN requests /\ \A id \in ids : AcceptOK(requests[id])

LEMMA SameQuotes ==
  ASSUME NEW quotes
  PROVE  QuotesLater(quotes, quotes)
BY DEF QuotesLater

LEMMA SameRequests ==
  ASSUME NEW requests
  PROVE  Grows(requests, requests)
BY DEF Grows, RequestLater, QuotesLater

(* Requests of which every one is what it was, or later.                    *)
MoveTo(requests, later, kept) ==
  /\ later = [id \in DOMAIN requests |-> later[id]]
  /\ \A id \in DOMAIN requests :
       /\ RequestOK(later[id]) /\ RequestLater(requests[id], later[id])
       /\ id \in kept => AcceptOK(later[id])

LEMMA RequestsMoved ==
  ASSUME NEW requests, NEW ids, RequestsOK(requests, ids),
         NEW kept, kept \subseteq ids, NEW later, MoveTo(requests, later, kept)
  PROVE  RequestsOK(later, kept) /\ Grows(requests, later)
<1>1. IsSeq(later) /\ DOMAIN later = DOMAIN requests
  BY MappedIsSeq DEF RequestsOK, MoveTo
<1> QED
  BY <1>1 DEF RequestsOK, Grows, MoveTo

(* One of them changes.                                                     *)
LEMMA RequestChanged ==
  ASSUME NEW requests, NEW ids, RequestsOK(requests, ids),
         NEW id \in DOMAIN requests, NEW r, RequestOK(r), RequestLater(requests[id], r),
         id \in ids => AcceptOK(r),
         NEW later, later = [requests EXCEPT ![id] = r]
  PROVE  RequestsOK(later, ids) /\ Grows(requests, later)
<1>1. \A i \in DOMAIN requests :
        /\ RequestOK(later[i]) /\ RequestLater(requests[i], later[i])
        /\ i \in ids => AcceptOK(later[i])
  BY DEF RequestsOK, RequestLater, QuotesLater
<1>2. later = [i \in DOMAIN requests |-> later[i]]
  OBVIOUS
<1>3. MoveTo(requests, later, ids)
  BY <1>1, <1>2 DEF MoveTo
<1> QED
  BY <1>3, RequestsMoved

(* One is added, and others leave the store.                                *)
LEMMA RequestAdded ==
  ASSUME NEW requests, NEW ids, RequestsOK(requests, ids),
         NEW r, RequestOK(r), AcceptOK(r), NEW later, later = Append(requests, r),
         NEW kept, kept \subseteq ids
  PROVE  /\ RequestsOK(later, kept \union {Len(requests) + 1}) /\ Grows(requests, later)
         /\ Len(requests) + 1 \notin DOMAIN requests /\ later[Len(requests) + 1] = r
<1>1. /\ IsSeq(later) /\ Len(requests) \in Nat
      /\ DOMAIN requests = 1..Len(requests) /\ DOMAIN later = 1..(Len(requests) + 1)
      /\ \A i \in DOMAIN requests : later[i] = requests[i]
      /\ later[Len(requests) + 1] = r
  BY AppendedIsSeq DEF RequestsOK
<1>2. /\ \A i \in DOMAIN later : i \in DOMAIN requests \/ i = Len(requests) + 1
      /\ Len(requests) + 1 \in DOMAIN later /\ DOMAIN requests \subseteq DOMAIN later
      /\ Len(requests) + 1 \notin DOMAIN requests
  BY <1>1
<1>3. \A i \in DOMAIN later : RequestOK(later[i])
  BY <1>1, <1>2 DEF RequestsOK
<1>4. /\ kept \union {Len(requests) + 1} \subseteq DOMAIN later
      /\ \A i \in kept \union {Len(requests) + 1} : AcceptOK(later[i])
  BY <1>1, <1>2 DEF RequestsOK
<1>5. Grows(requests, later)
  BY <1>1, <1>2 DEF Grows, RequestLater, QuotesLater
<1> QED
  BY <1>1, <1>2, <1>3, <1>4, <1>5 DEF RequestsOK

(* A request whose quotes change and nothing else.                          *)
LEMMA Requoted ==
  ASSUME NEW r, RequestOK(r), NEW quotes, QuotesOK(quotes), QuotesLater(r.quotes, quotes),
         NEW later, later = [r EXCEPT !.quotes = quotes]
  PROVE  /\ RequestOK(later) /\ RequestLater(r, later)
         /\ AcceptOK(r) => AcceptOK(later)
<1>0. /\ r = [taker |-> r.taker, createdAt |-> r.createdAt, expiresAt |-> r.expiresAt,
              status |-> r.status, quotes |-> r.quotes, accepted |-> r.accepted,
              hash |-> r.hash, closings |-> r.closings]
      /\ r.expiresAt \in Nat /\ r.closings \in {0, 1} /\ (r.closings = 1 <=> r.status # "open")
  BY DEF RequestOK
<1>1. later = [taker |-> r.taker, createdAt |-> r.createdAt, expiresAt |-> r.expiresAt,
               status |-> r.status, quotes |-> quotes, accepted |-> r.accepted,
               hash |-> r.hash, closings |-> r.closings]
  BY <1>0
<1>2. RequestOK(later)
  BY <1>0, <1>1 DEF RequestOK
<1>3. RequestLater(r, later)
  BY <1>1 DEF RequestLater
<1>4. AcceptOK(r) => AcceptOK(later)
  BY <1>1 DEF AcceptOK, QuotesLater
<1> QED
  BY <1>2, <1>3, <1>4
-----------------------------------------------------------------------------
(* The handlers                                                             *)

(* What a handler found is still there when it resumes.                     *)
TaskOK(h, requests) ==
  h # None =>
    /\ h = [op |-> h.op, at |-> h.at, id |-> h.id, of |-> h.of, began |-> h.began]
    /\ h.op \in {"create", "accept", "submit", "prepare"}
    /\ h.op \in {"accept", "submit"} => h.id \in DOMAIN requests
    /\ h.op = "accept" => h.of \in DOMAIN requests[h.id].quotes

TasksOK(tasks, requests) ==
  /\ tasks = [slot \in Slots |-> tasks[slot]]
  /\ \A slot \in Slots : TaskOK(tasks[slot], requests)

ServiceInv == now \in Nat /\ RequestsOK(request, stored) /\ TasksOK(task, request)

LEMMA TaskLater ==
  ASSUME NEW h, NEW requests, TaskOK(h, requests), NEW later, Grows(requests, later)
  PROVE  TaskOK(h, later)
BY DEF TaskOK, Grows, RequestLater, QuotesLater

LEMMA TasksLater ==
  ASSUME NEW tasks, NEW requests, TasksOK(tasks, requests), NEW later, Grows(requests, later)
  PROVE  TasksOK(tasks, later)
<1>1. \A slot \in Slots : TaskOK(tasks[slot], later)
  BY TaskLater DEF TasksOK
<1> QED
  BY <1>1 DEF TasksOK

(* One handler goes on, or ends, or starts.                                 *)
LEMMA TaskChanged ==
  ASSUME NEW tasks, NEW requests, TasksOK(tasks, requests),
         NEW slot \in Slots, NEW h, TaskOK(h, requests),
         NEW after, after = [tasks EXCEPT ![slot] = h]
  PROVE  TasksOK(after, requests)
<1>1. after = [s \in Slots |-> after[s]] /\ \A s \in Slots : TaskOK(after[s], requests)
  BY DEF TasksOK
<1> QED
  BY <1>1 DEF TasksOK

LEMMA NoTask ==
  ASSUME NEW requests
  PROVE  TaskOK(None, requests)
BY DEF TaskOK

(* The steps that only start, resume or end a handler.                      *)
LEMMA OnlyTask ==
  ASSUME ServiceInv, UNCHANGED <<request, stored, now>>,
         NEW slot \in Slots, NEW h, TaskOK(h, request), task' = [task EXCEPT ![slot] = h]
  PROVE  ServiceInv' /\ Grows(request, request') /\ stored' \subseteq stored
<1>1. RequestsOK(request', stored') /\ now' \in Nat
  BY DEF ServiceInv
<1>2. Grows(request, request')
  BY SameRequests
<1>3. TasksOK(task', request)
  BY TaskChanged DEF ServiceInv
<1> QED
  BY <1>1, <1>2, <1>3 DEF ServiceInv

(* A handler's answer to one request.                                       *)
LEMMA OneRequest ==
  ASSUME ServiceInv, UNCHANGED <<stored, now>>,
         NEW id \in Ids, NEW r, RequestOK(r), RequestLater(request[id], r),
         id \in stored => AcceptOK(r),
         request' = [request EXCEPT ![id] = r],
         TasksOK(task', request)
  PROVE  ServiceInv' /\ Grows(request, request') /\ stored' \subseteq stored
<1>1. RequestsOK(request', stored) /\ Grows(request, request')
  BY RequestChanged DEF ServiceInv, Ids
<1>2. TasksOK(task', request')
  BY <1>1, TasksLater DEF ServiceInv
<1> QED
  BY <1>1, <1>2 DEF ServiceInv

-----------------------------------------------------------------------------
(* Closing a request                                                        *)

Closings == {"expired", "cancelled", "accepted", "settled"}

LEMMA ClosedKeep ==
  ASSUME ServiceInv, NEW id \in Ids, NEW status \in Closings,
         NEW r, r = ClosedAs(id, status)
  PROVE  /\ RequestOK(r) /\ RequestLater(request[id], r)
         /\ r.quotes = request[id].quotes /\ r.accepted = request[id].accepted
         /\ id \in stored => AcceptOK(r) /\ r.status # "open"
         /\ r = request[id] \/ (request[id].status = "open" /\ id \in stored /\ r.status = status)
<1>1. RequestOK(request[id]) /\ (id \in stored => AcceptOK(request[id]))
  BY DEF ServiceInv, RequestsOK, Ids
<1>2. CASE id \in stored /\ ~Closed(id)
  <2> DEFINE q == request[id]
  <2>1. q.status = "open" /\ q.closings = 0 /\ q.accepted = None
    BY <1>1, <1>2 DEF Closed, RequestOK, AcceptOK
  <2>2. q = [taker |-> q.taker, createdAt |-> q.createdAt, expiresAt |-> q.expiresAt,
             status |-> q.status, quotes |-> q.quotes, accepted |-> q.accepted,
             hash |-> q.hash, closings |-> q.closings]
        /\ q.expiresAt \in Nat /\ QuotesOK(q.quotes)
    BY <1>1 DEF RequestOK
  <2>3. r = [q EXCEPT !.status = status, !.closings = q.closings + 1]
    BY <1>2 DEF ClosedAs
  <2> HIDE DEF q
  <2>4. r = [taker |-> q.taker, createdAt |-> q.createdAt, expiresAt |-> q.expiresAt,
             status |-> status, quotes |-> q.quotes, accepted |-> q.accepted,
             hash |-> q.hash, closings |-> q.closings + 1]
    BY <2>2, <2>3
  <2>5. r.closings = 1 /\ r.status = status /\ status # "open" /\ r.accepted = None
    BY <2>1, <2>4 DEF Closings
  <2>6. RequestOK(r)
    BY <2>2, <2>4, <2>5 DEF RequestOK
  <2>7. RequestLater(q, r)
    BY <2>1, <2>4, SameQuotes DEF RequestLater
  <2> QED
    BY <2>1, <2>4, <2>5, <2>6, <2>7, <1>2 DEF AcceptOK, q
<1>3. CASE ~(id \in stored /\ ~Closed(id))
  <2>1. r = request[id]
    BY <1>3 DEF ClosedAs
  <2>2. RequestLater(request[id], r)
    BY <2>1, SameQuotes DEF RequestLater
  <2> QED
    BY <2>1, <2>2, <1>1, <1>3 DEF Closed
<1> QED
  BY <1>2, <1>3

LEMMA SettledKeep ==
  ASSUME NEW q, NEW r, RequestOK(r), r.status # "open", RequestLater(q, r),
         NEW later, later = Settled(r)
  PROVE  /\ RequestOK(later) /\ RequestLater(q, later)
         /\ AcceptOK(r) => AcceptOK(later)
<1>1. r = [taker |-> r.taker, createdAt |-> r.createdAt, expiresAt |-> r.expiresAt,
           status |-> r.status, quotes |-> r.quotes, accepted |-> r.accepted,
           hash |-> r.hash, closings |-> r.closings]
      /\ r.expiresAt \in Nat /\ QuotesOK(r.quotes)
      /\ r.closings \in {0, 1} /\ (r.closings = 1 <=> r.status # "open")
  BY DEF RequestOK
<1> DEFINE status == IF r.status = "accepted" THEN "settled" ELSE r.status
<1>2. later = [r EXCEPT !.status = status, !.hash = TRUE]
  BY DEF Settled
<1>3. status # "open" /\ (r.status \in {"accepted", "settled"} => status = "settled")
  OBVIOUS
<1> HIDE DEF status
<1>4. later = [taker |-> r.taker, createdAt |-> r.createdAt, expiresAt |-> r.expiresAt,
               status |-> status, quotes |-> r.quotes, accepted |-> r.accepted,
               hash |-> TRUE, closings |-> r.closings]
  BY <1>1, <1>2
<1>5. RequestOK(later)
  BY <1>1, <1>3, <1>4 DEF RequestOK
<1>6. RequestLater(q, later)
  BY <1>3, <1>4 DEF RequestLater
<1>7. AcceptOK(r) => AcceptOK(later)
  BY <1>3, <1>4 DEF AcceptOK
<1> QED
  BY <1>5, <1>6, <1>7
-----------------------------------------------------------------------------
(* Step by step                                                             *)

Kept == ServiceInv' /\ Grows(request, request') /\ stored' \subseteq stored

LEMMA StartKeeps ==
  ASSUME ServiceInv, NEW slot \in Slots, NEW op \in {"create", "accept", "submit", "prepare"},
         NEW at, NEW id, NEW of,
         op \in {"accept", "submit"} => id \in Ids,
         op = "accept" => of \in DOMAIN request[id].quotes,
         Start(slot, Handler(op, at, id, of)), UNCHANGED <<request, stored, now>>
  PROVE  Kept
<1> DEFINE h == Handler(op, at, id, of)
<1>1. TaskOK(h, request)
  BY DEF TaskOK, Handler, Ids
<1>2. task' = [task EXCEPT ![slot] = h]
  BY DEF Start
<1> HIDE DEF h
<1> QED
  BY <1>1, <1>2, OnlyTask DEF Kept

LEMMA DoneKeeps ==
  ASSUME ServiceInv, NEW slot \in Slots, Done(slot), UNCHANGED <<request, stored, now>>
  PROVE  Kept
BY NoTask, OnlyTask DEF Kept, Done

(* A handler that only gets on to its next await.                           *)
LEMMA ResumedOK ==
  ASSUME ServiceInv, NEW slot \in Slots, task[slot] # None, NEW at, Resume(slot, at)
  PROVE  TasksOK(task', request)
<1> DEFINE t == task[slot]
           h == [t EXCEPT !.at = at]
<1>1. TaskOK(t, request) /\ t # None
  BY DEF ServiceInv, TasksOK
<1>2. /\ t = [op |-> t.op, at |-> t.at, id |-> t.id, of |-> t.of, began |-> t.began]
      /\ t.op \in {"create", "accept", "submit", "prepare"}
      /\ t.op \in {"accept", "submit"} => t.id \in DOMAIN request
      /\ t.op = "accept" => t.of \in DOMAIN request[t.id].quotes
  BY <1>1 DEF TaskOK
<1>3. task' = [task EXCEPT ![slot] = h]
  BY DEF Resume
<1> HIDE DEF t
<1>4. PICK g : g = h
  OBVIOUS
<1>5. g = [op |-> t.op, at |-> at, id |-> t.id, of |-> t.of, began |-> t.began]
  BY <1>2, <1>4
<1>6. TaskOK(h, request)
  BY <1>2, <1>4, <1>5 DEF TaskOK
<1> HIDE DEF h
<1> QED
  BY <1>3, <1>6, TaskChanged DEF ServiceInv

LEMMA ResumeKeeps ==
  ASSUME ServiceInv, NEW slot \in Slots, task[slot] # None, NEW at, Resume(slot, at),
         UNCHANGED <<request, stored, now>>
  PROVE  Kept
<1>1. TasksOK(task', request')
  BY ResumedOK
<1> QED
  BY <1>1, SameRequests DEF ServiceInv, Kept

LEMMA EndedOK ==
  ASSUME ServiceInv, NEW slot \in Slots, Done(slot)
  PROVE  TasksOK(task', request)
BY NoTask, TaskChanged DEF ServiceInv, Done

(* What a handler knows of its request.                                     *)
LEMMA Known ==
  ASSUME ServiceInv, NEW slot \in Slots, NEW op \in {"accept", "submit"}, NEW at, At(slot, op, at)
  PROVE  /\ task[slot] # None /\ task[slot].id \in Ids
         /\ op = "accept" => task[slot].of \in DOMAIN request[task[slot].id].quotes
BY DEF ServiceInv, TasksOK, TaskOK, At, Ids

LEMMA RequestKnown ==
  ASSUME ServiceInv, NEW id \in Ids
  PROVE  /\ RequestOK(request[id]) /\ QuotesOK(request[id].quotes)
         /\ id \in stored => AcceptOK(request[id])
BY DEF ServiceInv, RequestsOK, RequestOK, Ids

LEMMA RequotedKeeps ==
  ASSUME ServiceInv, NEW id \in Ids, NEW quotes, QuotesOK(quotes),
         QuotesLater(request[id].quotes, quotes),
         request' = [request EXCEPT ![id].quotes = quotes],
         UNCHANGED <<stored, now>>, TasksOK(task', request)
  PROVE  Kept
<1>1. PICK r : r = [request[id] EXCEPT !.quotes = quotes]
  OBVIOUS
<1>2. request' = [request EXCEPT ![id] = r]
  BY <1>1
<1>3. /\ RequestOK(r) /\ RequestLater(request[id], r)
      /\ AcceptOK(request[id]) => AcceptOK(r)
  BY <1>1, RequestKnown, Requoted
<1>4. id \in stored => AcceptOK(r)
  BY <1>3, RequestKnown
<1> QED
  BY <1>2, <1>3, <1>4, OneRequest DEF Kept

LEMMA GetKeeps ==
  ASSUME ServiceInv, NEW id \in Ids, Get(id)
  PROVE  Kept
<1> DEFINE quotes == ExpireQuotes(request[id].quotes, None)
<1>1. QuotesOK(quotes) /\ QuotesLater(request[id].quotes, quotes)
  BY RequestKnown, ExpiredKeep
<1>2. request' = [request EXCEPT ![id].quotes = quotes] /\ UNCHANGED <<stored, task, now>>
  BY DEF Get
<1>3. TasksOK(task', request)
  BY <1>2 DEF ServiceInv
<1> HIDE DEF quotes
<1> QED
  BY <1>1, <1>2, <1>3, RequotedKeeps

LEMMA CancelKeeps ==
  ASSUME ServiceInv, NEW id \in Ids, Cancel(id)
  PROVE  Kept
<1>1. PICK r : r = ClosedAs(id, "cancelled")
  OBVIOUS
<1>2. RequestOK(r) /\ RequestLater(request[id], r) /\ (id \in stored => AcceptOK(r))
  BY <1>1, ClosedKeep DEF Closings
<1>3. request' = [request EXCEPT ![id] = r] /\ UNCHANGED <<stored, task, now>>
  BY <1>1 DEF Cancel
<1>4. TasksOK(task', request)
  BY <1>3 DEF ServiceInv
<1> QED
  BY <1>2, <1>3, <1>4, OneRequest DEF Kept

LEMMA MarkSettledKeeps ==
  ASSUME ServiceInv, NEW id \in Ids, id \in stored,
         request' = [request EXCEPT ![id] = Settled(ClosedAs(id, "settled"))],
         UNCHANGED <<stored, task, now>>
  PROVE  Kept
<1>1. PICK r : r = ClosedAs(id, "settled")
  OBVIOUS
<1>2. RequestOK(r) /\ RequestLater(request[id], r) /\ AcceptOK(r) /\ r.status # "open"
  BY <1>1, ClosedKeep DEF Closings
<1>3. PICK later : later = Settled(r)
  OBVIOUS
<1>4. RequestOK(later) /\ RequestLater(request[id], later) /\ AcceptOK(later)
  BY <1>2, <1>3, SettledKeep
<1>5. request' = [request EXCEPT ![id] = later]
  BY <1>1, <1>3
<1>6. TasksOK(task', request)
  BY DEF ServiceInv
<1> QED
  BY <1>4, <1>5, <1>6, OneRequest DEF Kept

LEMMA SweepKeeps ==
  ASSUME ServiceInv, Sweep
  PROVE  Kept
<1>1. \A id \in Ids :
        /\ RequestOK(request'[id]) /\ RequestLater(request[id], request'[id])
        /\ id \in stored => AcceptOK(request'[id])
  <2> SUFFICES ASSUME NEW id \in Ids
               PROVE  /\ RequestOK(request'[id]) /\ RequestLater(request[id], request'[id])
                      /\ id \in stored => AcceptOK(request'[id])
    OBVIOUS
  <2>1. request'[id] = ClosedAs(id, "expired") \/ request'[id] = request[id]
    BY DEF Sweep, Ids
  <2>2. RequestLater(request[id], request[id])
    BY SameQuotes DEF RequestLater
  <2>3. CASE request'[id] = request[id]
    BY <2>2, <2>3, RequestKnown
  <2>4. PICK r : r = ClosedAs(id, "expired")
    OBVIOUS
  <2>5. RequestOK(r) /\ RequestLater(request[id], r) /\ (id \in stored => AcceptOK(r))
    BY <2>4, ClosedKeep DEF Closings
  <2> QED
    BY <2>1, <2>3, <2>4, <2>5
<1>2. request' = [id \in DOMAIN request |-> request'[id]] /\ stored' \subseteq stored
      /\ UNCHANGED <<task, now>>
  BY DEF Sweep, Ids
<1>3. MoveTo(request, request', stored')
  BY <1>1, <1>2 DEF MoveTo, Ids
<1>4. RequestsOK(request', stored') /\ Grows(request, request')
  BY <1>2, <1>3, RequestsMoved DEF ServiceInv
<1>5. TasksOK(task', request')
  BY <1>2, <1>4, TasksLater DEF ServiceInv
<1> QED
  BY <1>2, <1>4, <1>5 DEF ServiceInv, Kept
LEMMA AcceptLedgerKeeps ==
  ASSUME ServiceInv, NEW slot \in Slots, NEW ledger, AcceptLedger(slot, ledger)
  PROVE  Kept
<1> DEFINE id == task[slot].id
           quotes == ExpireQuotes(request[id].quotes, ledger)
<1>1. task[slot] # None /\ id \in Ids
  BY Known DEF AcceptLedger
<1>2. request' = [request EXCEPT ![id].quotes = quotes] /\ UNCHANGED <<stored, now>>
  BY DEF AcceptLedger
<1>3. Resume(slot, "build") \/ Done(slot)
  BY DEF AcceptLedger
<1>4. QuotesOK(quotes) /\ QuotesLater(request[id].quotes, quotes)
  BY <1>1, RequestKnown, ExpiredKeep
<1>5. TasksOK(task', request)
  BY <1>1, <1>3, ResumedOK, EndedOK
<1> HIDE DEF quotes, id
<1> QED
  BY <1>1, <1>2, <1>4, <1>5, RequotedKeeps

LEMMA SubmitVerifiedKeeps ==
  ASSUME ServiceInv, NEW slot \in Slots, NEW lag, SubmitVerified(slot, lag)
  PROVE  Kept
<1> DEFINE id == task[slot].id
           f == task[slot].of
           quote == [signed |-> f, expiresAt |-> f.expiry - lag, status |-> "live"]
           quotes == PushQuote(request[id].quotes, quote)
<1>1. task[slot] # None /\ id \in Ids
  BY Known DEF SubmitVerified
<1>2. request' = [request EXCEPT ![id].quotes = quotes] /\ UNCHANGED <<stored, now>>
      /\ Done(slot)
  BY DEF SubmitVerified
<1>3. QuoteOK(quote)
  BY DEF QuoteOK
<1> HIDE DEF quote, id, f
<1>4. QuotesOK(quotes) /\ QuotesLater(request[id].quotes, quotes)
  BY <1>1, <1>3, RequestKnown, PushedKeep
<1>5. TasksOK(task', request)
  BY <1>2, EndedOK
<1> HIDE DEF quotes
<1> QED
  BY <1>1, <1>2, <1>4, <1>5, RequotedKeeps

(* The acceptance of a quote, also of a request that is closed by then.     *)
LEMMA AcceptedRequest ==
  ASSUME ServiceInv, NEW id \in Ids, NEW k \in DOMAIN request[id].quotes,
         NEW r, r = Accepted(id, k)
  PROVE  RequestOK(r) /\ RequestLater(request[id], r) /\ (id \in stored => AcceptOK(r))
<1> DEFINE quotes == AcceptQuoteOf(request[id].quotes, k)
<1>1. PICK c : c = ClosedAs(id, "accepted")
  OBVIOUS
<1>2. /\ RequestOK(c) /\ RequestLater(request[id], c) /\ c.quotes = request[id].quotes
      /\ id \in stored => c.status # "open"
      /\ c = request[id]
           \/ (request[id].status = "open" /\ id \in stored /\ c.status = "accepted")
  BY <1>1, ClosedKeep DEF Closings
<1>3. /\ QuotesOK(quotes) /\ QuotesLater(request[id].quotes, quotes)
      /\ quotes[k].status = "accepted" /\ k \in DOMAIN quotes
  <2>1. QuotesOK(quotes) /\ QuotesLater(request[id].quotes, quotes)
        /\ quotes[k].status = "accepted"
    BY RequestKnown, AcceptedKeep
  <2> QED
    BY <2>1 DEF QuotesLater
<1>4. r = [c EXCEPT !.status = IF Closed(id) THEN "accepted" ELSE c.status,
                    !.quotes = quotes, !.accepted = k]
  BY <1>1, <1>2 DEF Accepted
<1> HIDE DEF quotes
<1>5. PICK status : status = IF Closed(id) THEN "accepted" ELSE c.status
  OBVIOUS
<1>6. /\ c = [taker |-> c.taker, createdAt |-> c.createdAt, expiresAt |-> c.expiresAt,
              status |-> c.status, quotes |-> c.quotes, accepted |-> c.accepted,
              hash |-> c.hash, closings |-> c.closings]
      /\ c.expiresAt \in Nat /\ c.closings \in {0, 1} /\ (c.closings = 1 <=> c.status # "open")
  BY <1>2 DEF RequestOK
<1>7. r = [taker |-> c.taker, createdAt |-> c.createdAt, expiresAt |-> c.expiresAt,
           status |-> status, quotes |-> quotes, accepted |-> k,
           hash |-> c.hash, closings |-> c.closings]
  BY <1>4, <1>5, <1>6
<1>8. /\ status = "open" <=> c.status = "open"
      /\ id \in stored => status = "accepted"
  BY <1>2, <1>5 DEF Closed
<1>9. RequestOK(r)
  BY <1>3, <1>6, <1>7, <1>8 DEF RequestOK
<1>10. RequestLater(request[id], r)
  BY <1>2, <1>3, <1>7, <1>8 DEF RequestLater
<1>11. id \in stored => AcceptOK(r)
  BY <1>3, <1>7, <1>8 DEF AcceptOK
<1> QED
  BY <1>9, <1>10, <1>11

LEMMA AcceptBuiltKeeps ==
  ASSUME ServiceInv, NEW slot \in Slots, AcceptBuilt(slot)
  PROVE  Kept
<1> DEFINE id == task[slot].id
           k == task[slot].of
<1>1. id \in Ids /\ k \in DOMAIN request[id].quotes
  BY Known DEF AcceptBuilt
<1>2. request' = [request EXCEPT ![id] = Accepted(id, k)] /\ UNCHANGED <<stored, now>>
      /\ Done(slot)
  BY DEF AcceptBuilt
<1> HIDE DEF id, k
<1>3. PICK r : r = Accepted(id, k)
  OBVIOUS
<1>4. RequestOK(r) /\ RequestLater(request[id], r) /\ (id \in stored => AcceptOK(r))
  BY <1>1, <1>3, AcceptedRequest
<1>5. TasksOK(task', request)
  BY <1>2, EndedOK
<1>6. request' = [request EXCEPT ![id] = r]
  BY <1>2, <1>3
<1> QED
  BY <1>1, <1>2, <1>4, <1>5, <1>6, OneRequest DEF Kept

LEMMA HandlerKeeps ==
  ASSUME ServiceInv, NEW slot \in Slots,
         HostAccepts(slot) \/ Fail(slot) \/ \E ledger \in Ledgers(slot) : SubmitLedger(slot, ledger)
  PROVE  Kept
<1>1. CASE HostAccepts(slot)
  BY <1>1, ResumeKeeps DEF HostAccepts
<1>2. CASE Fail(slot)
  BY <1>2, DoneKeeps DEF Fail
<1>3. CASE \E ledger \in Ledgers(slot) : SubmitLedger(slot, ledger)
  <2>1. Resume(slot, "build") /\ At(slot, "submit", "ledger") /\ UNCHANGED <<request, stored, now>>
    BY <1>3 DEF SubmitLedger
  <2> QED
    BY <2>1, Known, ResumeKeeps
<1> QED
  BY <1>1, <1>2, <1>3

LEMMA ClockKeeps ==
  ASSUME ServiceInv,
         Tick \/ UNCHANGED <<request, stored, task, now>>
  PROVE  Kept
<1>1. UNCHANGED <<request, stored, task>> /\ now' \in Nat
  BY DEF Tick, ServiceInv
<1> QED
  BY <1>1, SameRequests DEF ServiceInv, Kept

(* A new request is the only one that was not there, and is open.           *)
Opened(r) ==
  [taker |-> r.of, createdAt |-> now, expiresAt |-> now + RequestTtl, status |-> "open",
   quotes |-> <<>>, accepted |-> None, hash |-> FALSE, closings |-> 0]

LEMMA InsertKeeps ==
  ASSUME ServiceInv, NEW slot \in Slots, InsertRequest(slot)
  PROVE  /\ ServiceInv' /\ Grows(request, request')
         /\ stored' \subseteq stored \union {Len(request) + 1}
         /\ Len(request) + 1 \notin Ids
<1>1. PICK r : r = Opened(task[slot])
  OBVIOUS
<1>2. request' = Append(request, r) /\ UNCHANGED now /\ Done(slot)
      /\ stored' = (stored \ Victims) \union {Len(request) + 1}
  BY <1>1 DEF InsertRequest, Opened
<1>3. RequestOK(r) /\ AcceptOK(r)
  <2>1. RequestTtl \in Nat
    BY RfqServiceAssumption
  <2>2. QuotesOK(<<>>)
    BY DEF QuotesOK, IsSeq, OneLive
  <2>3. r.expiresAt \in Nat
    BY <1>1, <2>1 DEF Opened, ServiceInv
  <2> QED
    BY <1>1, <2>2, <2>3 DEF Opened, RequestOK, AcceptOK
<1>4. PICK kept : kept = stored \ Victims
  OBVIOUS
<1>5. RequestsOK(request', stored') /\ Grows(request, request') /\ Len(request) + 1 \notin Ids
  <2>1. kept \subseteq stored
    BY <1>4
  <2> QED
    BY <1>2, <1>3, <1>4, <2>1, RequestAdded DEF ServiceInv, Ids
<1>6. TasksOK(task', request)
  BY <1>2, EndedOK
<1>7. TasksOK(task', request')
  BY <1>5, <1>6, TasksLater
<1>8. now' \in Nat
  BY <1>2 DEF ServiceInv
<1> QED
  BY <1>2, <1>5, <1>7, <1>8 DEF ServiceInv

LEMMA ServiceStarts ==
  ASSUME Init
  PROVE  ServiceInv
<1>1. request = <<>> /\ stored = {} /\ now = 0 /\ task = [slot \in Slots |-> None]
  BY DEF Init
<1>2. RequestsOK(request, stored)
  BY <1>1 DEF RequestsOK, IsSeq
<1>3. TasksOK(task, request)
  BY <1>1, NoTask DEF TasksOK
<1> QED
  BY <1>1, <1>2, <1>3 DEF ServiceInv

LEMMA ServiceKeeps ==
  ASSUME ServiceInv, Next
  PROVE  ServiceInv'
<1>1. stored \subseteq Ids
  BY DEF ServiceInv, RequestsOK, Ids
<1>2. ASSUME NEW slot \in Slots, NEW taker \in Takers, CreateRequest(slot, taker)
      PROVE  Kept
  BY <1>2, StartKeeps DEF CreateRequest
<1>3. ASSUME NEW slot \in Slots, NEW id \in stored, NEW k \in DOMAIN request[id].quotes,
             Accept(slot, id, k)
      PROVE  Kept
  BY <1>1, <1>3, StartKeeps DEF Accept
<1>4. ASSUME NEW slot \in Slots, NEW id \in stored, NEW f \in Signed, SubmitQuote(slot, id, f)
      PROVE  Kept
  BY <1>1, <1>4, StartKeeps DEF SubmitQuote
<1>5. ASSUME NEW slot \in Slots,
             AcceptBuilt(slot) \/ HostAccepts(slot) \/ Fail(slot)
               \/ \E ledger \in Ledgers(slot) :
                    AcceptLedger(slot, ledger) \/ SubmitLedger(slot, ledger)
      PROVE  Kept
  BY <1>5, AcceptBuiltKeeps, HandlerKeeps, AcceptLedgerKeeps
<1>6. ASSUME NEW slot \in Slots, NEW lag, SubmitVerified(slot, lag)
      PROVE  Kept
  BY <1>6, SubmitVerifiedKeeps
<1>7. ASSUME NEW id \in stored, Get(id) \/ Cancel(id) \/ MarkSettled(id)
      PROVE  Kept
  BY <1>1, <1>7, GetKeeps, CancelKeeps, MarkSettledKeeps DEF MarkSettled
<1>8. ASSUME Sweep \/ Tick \/ \E f \in Signed : UseNonce(f)
      PROVE  Kept
  BY <1>8, SweepKeeps, ClockKeeps DEF UseNonce
<1>9. ASSUME NEW slot \in Slots, InsertRequest(slot)
      PROVE  ServiceInv'
  BY <1>9, InsertKeeps
<1>10. Kept => ServiceInv'
  BY DEF Kept
<1>11. CASE Sweep \/ Tick \/ (\E f \in Signed : UseNonce(f))
            \/ \E id \in stored : Get(id) \/ Cancel(id) \/ MarkSettled(id)
  BY <1>7, <1>8, <1>10, <1>11
<1>12. ASSUME NEW slot \in Slots,
              \/ \E taker \in Takers : CreateRequest(slot, taker)
              \/ \E id \in stored :
                   \/ \E k \in DOMAIN request[id].quotes : Accept(slot, id, k)
                   \/ \E f \in Signed : SubmitQuote(slot, id, f)
       PROVE  ServiceInv'
  BY <1>2, <1>3, <1>4, <1>10, <1>12
<1>13. ASSUME NEW slot \in Slots,
              \/ InsertRequest(slot) \/ AcceptBuilt(slot) \/ HostAccepts(slot) \/ Fail(slot)
              \/ task[slot] # None /\ \E ledger \in Ledgers(slot) :
                   AcceptLedger(slot, ledger) \/ SubmitLedger(slot, ledger)
              \/ \E lag \in 0..MaxTime : SubmitVerified(slot, lag)
       PROVE  ServiceInv'
  BY <1>5, <1>6, <1>9, <1>10, <1>13
<1> QED
  BY <1>11, <1>12, <1>13 DEF Next

LEMMA ServiceInvMeans ==
  ASSUME ServiceInv
  PROVE  OneLivePerMaker /\ ClosingAnnouncedOnce /\ AcceptedReadsAccepted
<1>1. /\ stored \subseteq Ids
      /\ \A id \in Ids : RequestOK(request[id])
      /\ \A id \in stored : AcceptOK(request[id])
  BY DEF ServiceInv, RequestsOK, Ids
<1>2. OneLivePerMaker
  BY <1>1 DEF OneLivePerMaker, RequestOK, QuotesOK, OneLive
<1>3. ClosingAnnouncedOnce
  <2> SUFFICES ASSUME NEW id \in Ids
               PROVE  /\ request[id].closings <= 1
                      /\ id \in stored => (request[id].closings = 1 <=> Closed(id))
    BY DEF ClosingAnnouncedOnce
  <2>1. /\ request[id].closings \in {0, 1}
        /\ request[id].closings = 1 <=> request[id].status # "open"
    BY <1>1 DEF RequestOK
  <2>2. request[id].closings <= 1
    BY <2>1
  <2> QED
    BY <2>1, <2>2 DEF Closed
<1>4. AcceptedReadsAccepted
  BY <1>1 DEF AcceptedReadsAccepted, AcceptOK
<1> QED
  BY <1>2, <1>3, <1>4

LEMMA ServiceSafe == Spec => []ServiceInv
<1>1. ServiceInv /\ [Next]_vars => ServiceInv'
  <2> SUFFICES ASSUME ServiceInv, [Next]_vars PROVE ServiceInv'
    OBVIOUS
  <2>1. CASE UNCHANGED vars
    BY <2>1, ClockKeeps DEF vars, Kept
  <2> QED
    BY <2>1, ServiceKeeps
<1> QED
  BY <1>1, ServiceStarts, PTL DEF Spec

(* A maker never has two live quotes on a request, however many of its      *)
(* submissions cross: the store supersedes in the step that adds.           *)
THEOREM LiveQuotesSafe == Spec => []OneLivePerMaker
BY ServiceSafe, ServiceInvMeans, PTL

(* Whichever of cancel, accept, settled and sweep closes a request, and     *)
(* whatever a handler that resumes late does, its end is announced once.    *)
THEOREM ClosingSafe == Spec => []ClosingAnnouncedOnce
BY ServiceSafe, ServiceInvMeans, PTL

(* A request in the store with an accepted quote reads as accepted or       *)
(* settled, and that quote as accepted, also when it lapsed in between.     *)
THEOREM AcceptanceSafe == Spec => []AcceptedReadsAccepted
BY ServiceSafe, ServiceInvMeans, PTL
-----------------------------------------------------------------------------
(* What the maker bot hears                                                 *)

BotOK(b) ==
  /\ b = [up |-> b.up, frames |-> b.frames, quoted |-> b.quoted, jobs |-> b.jobs,
          prepared |-> b.prepared, drops |-> b.drops]
  /\ IsSeq(b.frames)

(* Connected, it has taken up what is open or has it in the stream.         *)
Hears(b, ids) == b.up => ids \subseteq b.quoted \union UNION ToSet(b.frames)

SameEars(b, after) ==
  BotOK(after) /\ after.up = b.up /\ after.frames = b.frames /\ after.quoted = b.quoted

LEMMA Rejobbed ==
  ASSUME BotOK(bot), NEW job, NEW jobs, Rejob(job, jobs)
  PROVE  SameEars(bot, bot')
<1>1. PICK b : b = bot'
  OBVIOUS
<1>2. PICK js : js = (bot.jobs \ {job}) \union jobs
  OBVIOUS
<1>3. b = [bot EXCEPT !.jobs = js]
  BY <1>1, <1>2 DEF Rejob
<1>4. b = [up |-> bot.up, frames |-> bot.frames, quoted |-> bot.quoted, jobs |-> js,
           prepared |-> bot.prepared, drops |-> bot.drops]
  BY <1>3 DEF BotOK
<1> QED
  BY <1>1, <1>4 DEF SameEars, BotOK

LEMMA StillHears ==
  ASSUME NEW b, NEW after, SameEars(b, after), NEW ids, Hears(b, ids), NEW later, later \subseteq ids
  PROVE  BotOK(after) /\ Hears(after, later)
BY DEF SameEars, Hears

(* Only a request that is inserted becomes open.                            *)
LEMMA NothingOpens ==
  ASSUME ServiceInv, Grows(request, request'), now' \in {now, now + 1}
  PROVE  \A id \in OpenIds' : id \in stored => id \in OpenIds
<1> SUFFICES ASSUME NEW taker \in Takers, NEW id \in OpenOf(taker)', id \in stored
             PROVE  id \in OpenOf(taker)
  BY DEF OpenIds
<1>1. /\ request'[id].status = "open" /\ request'[id].taker = taker
      /\ request'[id].expiresAt > now'
  BY DEF OpenOf
<1>2. id \in DOMAIN request /\ RequestLater(request[id], request'[id])
  BY DEF ServiceInv, RequestsOK, Grows
<1>3. request[id].expiresAt \in Nat /\ now \in Nat
  BY <1>2 DEF ServiceInv, RequestsOK, RequestOK
<1>4. PICK e \in Nat : e = request[id].expiresAt /\ e = request'[id].expiresAt
  BY <1>2, <1>3 DEF RequestLater
<1>5. e > now
  BY <1>1, <1>3, <1>4
<1> QED
  BY <1>1, <1>2, <1>4, <1>5 DEF OpenOf, RequestLater

Quiet == ServiceInv' /\ Grows(request, request') /\ OpenIds' \subseteq OpenIds

LEMMA KeptQuiet ==
  ASSUME ServiceInv, Kept, now' \in {now, now + 1}
  PROVE  Quiet
<1>1. OpenIds' \subseteq stored'
  BY DEF OpenIds, OpenOf
<1> QED
  BY <1>1, NothingOpens DEF Kept, Quiet

(* The stream's frames, read from the front and written at the back.        *)
LEMMA FrameRead ==
  ASSUME NEW s, IsSeq(s), s # <<>>
  PROVE  IsSeq(Tail(s)) /\ ToSet(s) \subseteq {Head(s)} \union ToSet(Tail(s))
<1> DEFINE t == Tail(s)
<1>1. s \in Seq(ToSet(s)) /\ Len(s) \in Nat /\ DOMAIN s = 1..Len(s) /\ Len(s) > 0
  BY DEF IsSeq
<1>2. /\ DOMAIN t = 1..(Len(s) - 1) /\ Len(s) - 1 \in Nat
      /\ \A i \in 1..(Len(s) - 1) : t[i] = s[i + 1]
      /\ t \in Seq(ToSet(s)) /\ Head(s) = s[1]
  BY <1>1
<1> HIDE DEF t
<1>3. IsSeq(t)
  <2> DEFINE n == Len(s) - 1
  <2>1. t = [i \in 1..n |-> t[i]] /\ n \in Nat
    BY <1>2
  <2>2. \A i \in 1..n : t[i] \in ToSet(t)
    BY <1>2 DEF ToSet
  <2> HIDE DEF n
  <2> QED
    BY <2>1, <2>2 DEF IsSeq
<1>4. ASSUME NEW x \in ToSet(s) PROVE x \in {Head(s)} \union ToSet(t)
  <2>1. PICK i \in 1..Len(s) : x = s[i]
    BY <1>1 DEF ToSet
  <2>2. CASE i = 1
    BY <2>1, <2>2, <1>2
  <2>3. CASE i # 1
    <3>1. i - 1 \in DOMAIN t /\ t[i - 1] = x
      BY <2>1, <2>3, <1>1, <1>2
    <3> QED
      BY <3>1 DEF ToSet
  <2> QED
    BY <2>2, <2>3
<1> QED
  BY <1>3, <1>4 DEF t

LEMMA FrameWritten ==
  ASSUME NEW s, IsSeq(s), NEW e
  PROVE  IsSeq(Append(s, e)) /\ ToSet(s) \union {e} \subseteq ToSet(Append(s, e))
<1> DEFINE a == Append(s, e)
<1>1. /\ IsSeq(a) /\ Len(s) \in Nat
      /\ DOMAIN s = 1..Len(s) /\ DOMAIN a = 1..(Len(s) + 1)
      /\ \A i \in DOMAIN s : a[i] = s[i]
      /\ a[Len(s) + 1] = e
  BY AppendedIsSeq
<1> HIDE DEF a
<1>2. Len(s) + 1 \in DOMAIN a /\ DOMAIN s \subseteq DOMAIN a
  BY <1>1
<1>3. ToSet(s) \union {e} \subseteq ToSet(a)
  BY <1>1, <1>2 DEF ToSet
<1> QED
  BY <1>1, <1>3 DEF a

BotInv == BotOK(bot) /\ Hears(bot, OpenIds)

LEMMA QuietBot ==
  ASSUME BotInv, Quiet, SameEars(bot, bot') \/ UNCHANGED bot
  PROVE  BotInv'
<1>1. SameEars(bot, bot')
  BY DEF BotInv, SameEars
<1> QED
  BY <1>1, StillHears DEF BotInv, Quiet

LEMMA BotConnectsKeeps ==
  ASSUME ServiceInv, BotInv, BotConnects
  PROVE  BotInv'
<1>1. PICK b : b = bot'
  OBVIOUS
<1>2. b = [bot EXCEPT !.up = TRUE, !.frames = <<OpenIds>>]
  BY <1>1 DEF BotConnects
<1>3. PICK fs : fs = <<OpenIds>>
  OBVIOUS
<1>4. b = [up |-> TRUE, frames |-> fs, quoted |-> bot.quoted, jobs |-> bot.jobs,
           prepared |-> bot.prepared, drops |-> bot.drops]
  BY <1>2, <1>3 DEF BotInv, BotOK
<1>5. IsSeq(fs) /\ OpenIds \in ToSet(fs)
  BY <1>3 DEF IsSeq, ToSet
<1>6. OpenIds' = OpenIds
  BY DEF BotConnects, vars, OpenIds, OpenOf
<1>7. BotOK(b) /\ Hears(b, OpenIds)
  BY <1>4, <1>5 DEF BotOK, Hears
<1> QED
  BY <1>1, <1>6, <1>7 DEF BotInv

LEMMA BotDropsKeeps ==
  ASSUME BotInv, BotDrops
  PROVE  BotInv'
<1>1. PICK b : b = bot'
  OBVIOUS
<1>2. PICK quoted, jobs, drops :
        b = [up |-> FALSE, frames |-> <<>>, quoted |-> quoted, jobs |-> jobs,
             prepared |-> bot.prepared, drops |-> drops]
  <2>1. bot = [up |-> bot.up, frames |-> bot.frames, quoted |-> bot.quoted, jobs |-> bot.jobs,
               prepared |-> bot.prepared, drops |-> bot.drops]
    BY DEF BotInv, BotOK
  <2>2. PICK d : d = bot.drops + 1
    OBVIOUS
  <2>3. CASE b = [bot EXCEPT !.up = FALSE, !.frames = <<>>, !.drops = d]
    BY <2>1, <2>3
  <2>4. CASE b = [bot EXCEPT !.up = FALSE, !.frames = <<>>, !.drops = d,
                             !.quoted = {}, !.jobs = {}]
    BY <2>1, <2>4
  <2> QED
    BY <1>1, <2>2, <2>3, <2>4 DEF BotDrops
<1>3. BotOK(b) /\ b.up = FALSE
  BY <1>2 DEF BotOK, IsSeq
<1> QED
  BY <1>1, <1>3 DEF BotInv, Hears

LEMMA BotHearsKeeps ==
  ASSUME ServiceInv, BotInv, BotHears
  PROVE  BotInv'
<1>1. PICK b : b = bot'
  OBVIOUS
<1> DEFINE heard == {id \in Head(bot.frames) : id \notin bot.quoted}
<1>2. PICK jobs, rest, quoted :
        /\ rest = Tail(bot.frames) /\ quoted = bot.quoted \union heard
        /\ b = [bot EXCEPT !.frames = rest, !.quoted = quoted, !.jobs = jobs]
  BY <1>1 DEF BotHears
<1>3. b = [up |-> bot.up, frames |-> rest, quoted |-> quoted, jobs |-> jobs,
           prepared |-> bot.prepared, drops |-> bot.drops]
  BY <1>2 DEF BotInv, BotOK
<1>4. IsSeq(rest) /\ ToSet(bot.frames) \subseteq {Head(bot.frames)} \union ToSet(rest)
  BY <1>2, FrameRead DEF BotInv, BotOK, BotHears
<1>5. Head(bot.frames) \subseteq quoted /\ bot.quoted \subseteq quoted
  BY <1>2
<1>6. OpenIds' = OpenIds
  BY DEF BotHears, vars, OpenIds, OpenOf
<1>7. BotOK(b)
  BY <1>3, <1>4 DEF BotOK
<1>8. Hears(b, OpenIds)
  BY <1>3, <1>4, <1>5 DEF Hears, BotInv
<1> QED
  BY <1>1, <1>6, <1>7, <1>8 DEF BotInv
-----------------------------------------------------------------------------
(* The desk's own steps, and the bot's                                      *)

LEMMA PrepareQuoteKeeps ==
  ASSUME ServiceInv, NEW slot \in Slots, NEW id, NEW maker, PrepareQuote(slot, id, maker)
  PROVE  Quiet
<1>1. Kept
  BY StartKeeps DEF PrepareQuote
<1> QED
  BY <1>1, KeptQuiet DEF PrepareQuote

LEMMA PrepareLedgerKeeps ==
  ASSUME ServiceInv, BotInv, NEW slot \in Slots, NEW ledger, PrepareLedger(slot, ledger)
  PROVE  Quiet /\ SameEars(bot, bot')
<1> DEFINE t == task[slot]
<1>1. PICK f : task' = [task EXCEPT ![slot].of = f, ![slot].at = "build"]
  BY DEF PrepareLedger
<1>2. PICK h : h = [t EXCEPT !.of = f, !.at = "build"]
  OBVIOUS
<1>3. task' = [task EXCEPT ![slot] = h]
  <2>1. task = [s \in Slots |-> task[s]]
    BY DEF ServiceInv, TasksOK
  <2>2. task' = [s \in Slots |-> IF s = slot THEN h ELSE task[s]]
    BY <1>1, <1>2, <2>1
  <2> QED
    BY <2>1, <2>2
<1>4. /\ t = [op |-> t.op, at |-> t.at, id |-> t.id, of |-> t.of, began |-> t.began]
      /\ t.op = "prepare"
  BY DEF PrepareLedger, At, ServiceInv, TasksOK, TaskOK
<1> HIDE DEF t
<1>5. h = [op |-> t.op, at |-> "build", id |-> t.id, of |-> f, began |-> t.began]
  BY <1>2, <1>4
<1>6. TaskOK(h, request)
  BY <1>4, <1>5 DEF TaskOK
<1>7. Kept
  BY <1>3, <1>6, OnlyTask DEF PrepareLedger, Kept
<1>8. Quiet
  BY <1>7, KeptQuiet DEF PrepareLedger
<1>9. SameEars(bot, bot')
  <2>1. PICK b : b = bot'
    OBVIOUS
  <2>2. PICK n : b = [bot EXCEPT !.prepared = n]
    BY <2>1 DEF PrepareLedger
  <2>3. b = [up |-> bot.up, frames |-> bot.frames, quoted |-> bot.quoted, jobs |-> bot.jobs,
             prepared |-> n, drops |-> bot.drops]
    BY <2>2 DEF BotInv, BotOK
  <2> QED
    BY <2>1, <2>3 DEF SameEars, BotOK, BotInv
<1> QED
  BY <1>8, <1>9

LEMMA ServerKeeps ==
  ASSUME ServiceInv, BotInv, ServerStep
  PROVE  Quiet /\ BotInv' /\ UNCHANGED <<panel, preview>>
<1>1. ASSUME NEW slot \in Slots, NEW ledger, PrepareLedger(slot, ledger)
      PROVE  Quiet /\ (SameEars(bot, bot') \/ UNCHANGED bot) /\ UNCHANGED <<panel, preview>>
  BY <1>1, PrepareLedgerKeeps DEF PrepareLedger
<1>2. ASSUME NEW slot \in Slots, UNCHANGED clientVars,
             HostAccepts(slot) \/ \E ledger \in Ledgers(slot) : SubmitLedger(slot, ledger)
      PROVE  Quiet /\ (SameEars(bot, bot') \/ UNCHANGED bot) /\ UNCHANGED <<panel, preview>>
  <2>1. Kept /\ now' = now
    BY <1>2, HandlerKeeps DEF HostAccepts, SubmitLedger
  <2> QED
    BY <1>2, <2>1, KeptQuiet DEF clientVars
<1>3. ASSUME Sweep \/ Tick, UNCHANGED clientVars
      PROVE  Quiet /\ (SameEars(bot, bot') \/ UNCHANGED bot) /\ UNCHANGED <<panel, preview>>
  <2>1. Kept /\ now' \in {now, now + 1}
    BY <1>3, SweepKeeps, ClockKeeps DEF Sweep, Tick
  <2> QED
    BY <1>3, <2>1, KeptQuiet DEF clientVars
<1>4. Quiet /\ (SameEars(bot, bot') \/ UNCHANGED bot) /\ UNCHANGED <<panel, preview>>
  BY <1>1, <1>2, <1>3 DEF ServerStep
<1> QED
  BY <1>4, QuietBot

LEMMA BotJobKeeps ==
  ASSUME ServiceInv, BotInv, NEW slot \in Slots, NEW job,
         \/ BotPrepares(slot, job) \/ BotSigns(slot, job) \/ BotPosts(slot, job)
         \/ BotRefused(slot, job) \/ \E lag \in 0..MaxTime : BotQuoted(slot, job, lag)
  PROVE  Quiet /\ SameEars(bot, bot') /\ UNCHANGED <<panel, preview>>
<1>1. CASE BotPrepares(slot, job)
  BY <1>1, PrepareQuoteKeeps, Rejobbed DEF BotPrepares, BotInv
<1>2. CASE BotSigns(slot, job)
  <2>1. Kept
    BY <1>2, DoneKeeps DEF BotSigns
  <2> QED
    BY <1>2, <2>1, KeptQuiet, Rejobbed DEF BotSigns, BotInv
<1>3. CASE BotPosts(slot, job)
  <2>1. job.id \in Ids
    BY <1>3 DEF BotPosts, ServiceInv, RequestsOK, Ids
  <2>2. Kept
    BY <1>3, <2>1, StartKeeps DEF BotPosts, SubmitQuote
  <2> QED
    BY <1>3, <2>2, KeptQuiet, Rejobbed DEF BotPosts, BotInv, SubmitQuote
<1>4. CASE BotRefused(slot, job)
  <2>1. Kept
    BY <1>4, HandlerKeeps DEF BotRefused
  <2> QED
    BY <1>4, <2>1, KeptQuiet, Rejobbed DEF BotRefused, BotInv, Fail
<1>5. ASSUME NEW lag, BotQuoted(slot, job, lag)
      PROVE  Quiet /\ SameEars(bot, bot') /\ UNCHANGED <<panel, preview>>
  <2>1. Kept
    BY <1>5, SubmitVerifiedKeeps DEF BotQuoted
  <2> QED
    BY <1>5, <2>1, KeptQuiet, Rejobbed DEF BotQuoted, BotInv, SubmitVerified
<1> QED
  BY <1>1, <1>2, <1>3, <1>4, <1>5

LEMMA BotKeeps ==
  ASSUME ServiceInv, BotInv, BotStep
  PROVE  ServiceInv' /\ Grows(request, request') /\ BotInv' /\ UNCHANGED <<panel, preview>>
<1>1. ASSUME UNCHANGED vars
      PROVE  Quiet
  <2>1. Kept
    BY <1>1, ClockKeeps DEF vars
  <2> QED
    BY <1>1, <2>1, KeptQuiet DEF vars
<1>2. CASE BotConnects
  BY <1>1, <1>2, BotConnectsKeeps DEF BotConnects, Quiet
<1>3. CASE BotDrops
  BY <1>1, <1>3, BotDropsKeeps DEF BotDrops, Quiet
<1>4. CASE BotHears
  BY <1>1, <1>4, BotHearsKeeps DEF BotHears, Quiet
<1>5. ASSUME NEW job, BotTooLate(job)
      PROVE  ServiceInv' /\ Grows(request, request') /\ BotInv' /\ UNCHANGED <<panel, preview>>
  <2>1. Quiet /\ SameEars(bot, bot')
    BY <1>1, <1>5, Rejobbed DEF BotTooLate, BotInv
  <2> QED
    BY <1>5, <2>1, QuietBot DEF BotTooLate, Quiet
<1>6. ASSUME NEW slot \in Slots, NEW job,
             \/ BotPrepares(slot, job) \/ BotSigns(slot, job) \/ BotPosts(slot, job)
             \/ BotRefused(slot, job) \/ \E lag \in 0..MaxTime : BotQuoted(slot, job, lag)
      PROVE  ServiceInv' /\ Grows(request, request') /\ BotInv' /\ UNCHANGED <<panel, preview>>
  BY <1>6, BotJobKeeps, QuietBot DEF Quiet
<1> QED
  BY <1>2, <1>3, <1>4, <1>5, <1>6 DEF BotStep
-----------------------------------------------------------------------------
(* The taker's panel                                                        *)

(* What was read of a request: as many quotes as it has had since.          *)
SnapOK(r, requests) ==
  /\ r = [id |-> r.id, status |-> r.status, quotes |-> r.quotes, expiresAt |-> r.expiresAt]
  /\ r.id \in DOMAIN requests /\ DOMAIN r.quotes \subseteq DOMAIN requests[r.id].quotes

(* Of every read under way.                                                 *)
ReadsOK(read, requests) ==
  /\ read = [n \in Polls |-> read[n]]
  /\ \A n \in Polls : read[n] # None => SnapOK(read[n], requests)

PanelOK(p, requests) ==
  /\ p = [phase |-> p.phase, active |-> p.active, shown |-> p.shown, poll |-> p.poll,
          read |-> p.read, opening |-> p.opening, accept |-> p.accept]
  /\ p.shown # None => SnapOK(p.shown, requests) /\ p.shown.id = p.active
  /\ ReadsOK(p.read, requests)

LEMMA SnapLater ==
  ASSUME NEW r, NEW requests, SnapOK(r, requests), NEW later, Grows(requests, later)
  PROVE  SnapOK(r, later)
BY DEF SnapOK, Grows, RequestLater, QuotesLater

LEMMA ReadsLater ==
  ASSUME NEW read, NEW requests, ReadsOK(read, requests), NEW later, Grows(requests, later)
  PROVE  ReadsOK(read, later)
BY SnapLater DEF ReadsOK

LEMMA ReadPlaced ==
  ASSUME NEW read, NEW requests, ReadsOK(read, requests), NEW later, Grows(requests, later),
         NEW n \in Polls, NEW r, r = None \/ SnapOK(r, later), NEW after,
         after = [read EXCEPT ![n] = r]
  PROVE  ReadsOK(after, later)
<1>1. after = [m \in Polls |-> IF m = n THEN r ELSE read[m]]
  BY DEF ReadsOK
<1>2. ASSUME NEW m \in Polls, after[m] # None
      PROVE  SnapOK(after[m], later)
  <2>1. CASE m = n
    BY <1>1, <1>2, <2>1
  <2>2. CASE m # n
    <3>1. after[m] = read[m]
      BY <1>1, <2>2
    <3>2. SnapOK(read[m], requests)
      BY <1>2, <3>1 DEF ReadsOK
    <3> QED
      BY <3>1, <3>2, SnapLater
  <2> QED
    BY <2>1, <2>2
<1>3. after = [m \in Polls |-> after[m]]
  BY <1>1
<1> QED
  BY <1>2, <1>3 DEF ReadsOK

LEMMA SnapTaken ==
  ASSUME NEW id \in Ids', NEW r, r = Snapshot(id, request'[id])
  PROVE  SnapOK(r, request') /\ r.id = id
BY DEF SnapOK, Snapshot, Ids

LEMMA PanelLater ==
  ASSUME NEW p, NEW requests, PanelOK(p, requests), NEW later, Grows(requests, later)
  PROVE  PanelOK(p, later)
BY SnapLater, ReadsLater DEF PanelOK

(* Steps that leave what the panel shows and reads alone.                   *)
SameView(p, after) ==
  \E phase, poll, opening, accept :
    after = [phase |-> phase, active |-> p.active, shown |-> p.shown, poll |-> poll,
             read |-> p.read, opening |-> opening, accept |-> accept]

LEMMA ViewKept ==
  ASSUME NEW p, NEW requests, PanelOK(p, requests), NEW after, SameView(p, after),
         NEW later, Grows(requests, later)
  PROVE  PanelOK(after, later)
<1>1. /\ after.shown = p.shown /\ after.active = p.active /\ after.read = p.read
      /\ after = [phase |-> after.phase, active |-> after.active, shown |-> after.shown,
                  poll |-> after.poll, read |-> after.read, opening |-> after.opening,
                  accept |-> after.accept]
  BY DEF SameView
<1> QED
  BY <1>1, SnapLater, ReadsLater DEF PanelOK

LEMMA ViewSame ==
  ASSUME NEW requests, PanelOK(panel, requests), NEW p, NEW slot,
         \/ \E opening : p = [panel EXCEPT !.phase = "requesting", !.poll = None, !.opening = opening]
         \/ \E opening : p = [panel EXCEPT !.phase = "error", !.opening = opening]
         \/ \E accept : p = [panel EXCEPT !.phase = "accepting", !.poll = None, !.accept = accept]
         \/ p = [Failed EXCEPT !.poll = None] \/ p = Failed \/ p = panel
         \/ \E accept : p = [panel EXCEPT !.accept = accept]
  PROVE  SameView(panel, p)
<1>1. panel = [phase |-> panel.phase, active |-> panel.active, shown |-> panel.shown,
               poll |-> panel.poll, read |-> panel.read, opening |-> panel.opening,
               accept |-> panel.accept]
  BY DEF PanelOK
<1> USE DEF SameView
<1>2. ASSUME NEW opening,
             p = [panel EXCEPT !.phase = "requesting", !.poll = None, !.opening = opening]
      PROVE  SameView(panel, p)
  <2>1. p = [phase |-> "requesting", active |-> panel.active, shown |-> panel.shown,
             poll |-> None, read |-> panel.read, opening |-> opening, accept |-> panel.accept]
    BY <1>1, <1>2
  <2> QED
    BY <2>1
<1>3. ASSUME NEW opening, p = [panel EXCEPT !.phase = "error", !.opening = opening]
      PROVE  SameView(panel, p)
  <2>1. p = [phase |-> "error", active |-> panel.active, shown |-> panel.shown,
             poll |-> panel.poll, read |-> panel.read, opening |-> opening,
             accept |-> panel.accept]
    BY <1>1, <1>3
  <2> QED
    BY <2>1
<1>4. ASSUME NEW accept,
             p = [panel EXCEPT !.phase = "accepting", !.poll = None, !.accept = accept]
      PROVE  SameView(panel, p)
  <2>1. p = [phase |-> "accepting", active |-> panel.active, shown |-> panel.shown,
             poll |-> None, read |-> panel.read, opening |-> panel.opening, accept |-> accept]
    BY <1>1, <1>4
  <2> QED
    BY <2>1
<1>5. PICK f : f = Failed
  OBVIOUS
<1>6. f = [phase |-> "error", active |-> panel.active, shown |-> panel.shown,
           poll |-> panel.poll, read |-> panel.read, opening |-> panel.opening, accept |-> None]
  BY <1>1, <1>5 DEF Failed
<1>7. ASSUME p = [f EXCEPT !.poll = None]
      PROVE  SameView(panel, p)
  <2>1. p = [phase |-> "error", active |-> panel.active, shown |-> panel.shown,
             poll |-> None, read |-> panel.read, opening |-> panel.opening, accept |-> None]
    BY <1>6, <1>7
  <2> QED
    BY <2>1
<1>8. ASSUME NEW accept, p = [panel EXCEPT !.accept = accept]
      PROVE  SameView(panel, p)
  <2>1. p = [phase |-> panel.phase, active |-> panel.active, shown |-> panel.shown,
             poll |-> panel.poll, read |-> panel.read, opening |-> panel.opening,
             accept |-> accept]
    BY <1>1, <1>8
  <2> QED
    BY <2>1
<1>9. p = f \/ p = panel => SameView(panel, p)
  BY <1>1, <1>6
<1> HIDE DEF SameView
<1> QED
  BY <1>2, <1>3, <1>4, <1>5, <1>7, <1>8, <1>9

PanelInv == PanelOK(panel, request)

(* A step of the desk on which nothing becomes open and the bot sleeps.     *)
LEMMA BotSleeps ==
  ASSUME BotInv, Quiet, UNCHANGED bot
  PROVE  ServiceInv' /\ Grows(request, request') /\ BotInv'
BY QuietBot DEF Quiet

LEMMA PanelStartsKeeps ==
  ASSUME ServiceInv, BotInv, PanelInv, NEW slot \in Slots, NEW taker, PanelStarts(slot, taker)
  PROVE  ServiceInv' /\ BotInv' /\ PanelInv'
<1>1. Quiet
  <2>1. Kept /\ now' = now
    BY StartKeeps DEF PanelStarts, CreateRequest
  <2> QED
    BY <2>1, KeptQuiet
<1>2. ServiceInv' /\ Grows(request, request') /\ BotInv'
  BY <1>1, BotSleeps DEF PanelStarts
<1>3. SameView(panel, panel')
  <2>1. PICK opening :
          panel' = [panel EXCEPT !.phase = "requesting", !.poll = None, !.opening = opening]
    BY DEF PanelStarts
  <2> QED
    BY <2>1, ViewSame DEF PanelInv
<1> QED
  BY <1>2, <1>3, ViewKept DEF PanelInv

LEMMA PanelRefusedKeeps ==
  ASSUME ServiceInv, BotInv, PanelInv, NEW slot \in Slots, PanelRefused(slot)
  PROVE  ServiceInv' /\ BotInv' /\ PanelInv'
<1>1. Quiet
  <2>1. Kept /\ now' = now
    BY HandlerKeeps DEF PanelRefused, Fail
  <2> QED
    BY <2>1, KeptQuiet
<1>2. ServiceInv' /\ Grows(request, request') /\ BotInv'
  BY <1>1, BotSleeps DEF PanelRefused
<1>3. SameView(panel, panel')
  <2>1. PICK opening : panel' = [panel EXCEPT !.phase = "error", !.opening = opening]
    BY DEF PanelRefused
  <2> QED
    BY <2>1, ViewSame DEF PanelInv
<1> QED
  BY <1>2, <1>3, ViewKept DEF PanelInv

LEMMA PanelAcceptsKeeps ==
  ASSUME ServiceInv, BotInv, PanelInv, NEW slot \in Slots, NEW k, PanelAccepts(slot, k)
  PROVE  ServiceInv' /\ BotInv' /\ PanelInv'
<1>1. Quiet
  <2>1. panel.shown # None /\ k \in DOMAIN panel.shown.quotes
    BY DEF PanelAccepts, Acceptable
  <2>2. panel.active \in Ids /\ k \in DOMAIN request[panel.active].quotes
    BY <2>1 DEF PanelInv, PanelOK, SnapOK, Ids
  <2>3. Kept /\ now' = now
    BY <2>2, StartKeeps DEF PanelAccepts, Accept
  <2> QED
    BY <2>3, KeptQuiet
<1>2. ServiceInv' /\ Grows(request, request') /\ BotInv'
  BY <1>1, BotSleeps DEF PanelAccepts
<1>3. SameView(panel, panel')
  <2>1. PICK accept :
          panel' = [panel EXCEPT !.phase = "accepting", !.poll = None, !.accept = accept]
    BY DEF PanelAccepts
  <2> QED
    BY <2>1, ViewSame DEF PanelInv
<1> QED
  BY <1>2, <1>3, ViewKept DEF PanelInv

LEMMA PanelRefusedQuoteKeeps ==
  ASSUME ServiceInv, BotInv, PanelInv, NEW slot \in Slots,
         PanelRefusedQuote(slot) \/ PanelToSign(slot)
  PROVE  ServiceInv' /\ BotInv' /\ PanelInv'
<1>1. Kept /\ now' = now
  BY HandlerKeeps, AcceptLedgerKeeps, AcceptBuiltKeeps
     DEF PanelRefusedQuote, PanelToSign, Fail, AcceptLedger, AcceptBuilt
<1>2. Quiet
  BY <1>1, KeptQuiet
<1>3. ServiceInv' /\ Grows(request, request') /\ BotInv'
  BY <1>2, BotSleeps DEF PanelRefusedQuote, PanelToSign
<1>4. SameView(panel, panel')
  <2>1. CASE PanelRefusedQuote(slot)
    BY <2>1, ViewSame DEF PanelInv, PanelRefusedQuote
  <2>2. CASE PanelToSign(slot)
    <3>1. PICK accept : panel' = [panel EXCEPT !.accept = accept]
      BY <2>2 DEF PanelToSign
    <3> QED
      BY <3>1, ViewSame DEF PanelInv
  <2> QED
    BY <2>1, <2>2
<1> QED
  BY <1>3, <1>4, ViewKept DEF PanelInv

LEMMA PanelGivesUpKeeps ==
  ASSUME ServiceInv, BotInv, PanelInv, PanelTooLate \/ PanelUnsettled
  PROVE  ServiceInv' /\ BotInv' /\ PanelInv'
<1>1. Kept /\ now' = now
  BY ClockKeeps DEF PanelTooLate, PanelUnsettled, vars
<1>2. Quiet
  BY <1>1, KeptQuiet
<1>3. ServiceInv' /\ Grows(request, request') /\ BotInv'
  BY <1>2, BotSleeps DEF PanelTooLate, PanelUnsettled
<1>4. SameView(panel, panel')
  BY ViewSame DEF PanelInv, PanelTooLate, PanelUnsettled
<1> QED
  BY <1>3, <1>4, ViewKept DEF PanelInv
(* A panel that shows nothing.                                              *)
LEMMA ResetsKeep ==
  ASSUME PanelInv, panel' = Resets, Grows(request, request')
  PROVE  PanelInv'
<1>1. PICK p : p = panel'
  OBVIOUS
<1>2. p = [panel EXCEPT !.phase = "idle", !.active = None, !.shown = None, !.poll = None]
  BY <1>1 DEF Resets
<1>3. p = [phase |-> "idle", active |-> None, shown |-> None, poll |-> None,
           read |-> panel.read, opening |-> panel.opening, accept |-> panel.accept]
  BY <1>2 DEF PanelInv, PanelOK
<1>4. PanelOK(p, request')
  BY <1>3, SnapLater, ReadsLater DEF PanelInv, PanelOK
<1> QED
  BY <1>1, <1>4 DEF PanelInv

LEMMA PanelResetsKeeps ==
  ASSUME ServiceInv, BotInv, PanelInv, PanelResets \/ PanelCancels
  PROVE  ServiceInv' /\ BotInv' /\ PanelInv'
<1>1. Kept /\ now' = now
  <2>1. CASE UNCHANGED vars
    BY <2>1, ClockKeeps DEF vars
  <2>2. CASE panel.active \in stored /\ Cancel(panel.active)
    <3>1. panel.active \in Ids
      BY <2>2 DEF ServiceInv, RequestsOK, Ids
    <3> QED
      BY <2>2, <3>1, CancelKeeps DEF Cancel
  <2> QED
    BY <2>1, <2>2 DEF PanelResets, PanelCancels
<1>2. Quiet
  BY <1>1, KeptQuiet
<1>3. ServiceInv' /\ Grows(request, request') /\ BotInv'
  BY <1>2, BotSleeps DEF PanelResets, PanelCancels
<1> QED
  BY <1>3, ResetsKeep DEF PanelResets, PanelCancels

LEMMA PollAnsweredKeeps ==
  ASSUME ServiceInv, BotInv, PanelInv, NEW n \in Polls, PollAnswered(n)
  PROVE  ServiceInv' /\ BotInv' /\ PanelInv'
<1>1. panel.poll \in Ids
  BY DEF PollAnswered, ServiceInv, RequestsOK, Ids
<1>2. Quiet
  <2>1. Kept /\ now' = now
    BY <1>1, GetKeeps DEF PollAnswered, Get
  <2> QED
    BY <2>1, KeptQuiet
<1>3. ServiceInv' /\ Grows(request, request') /\ BotInv'
  BY <1>2, BotSleeps DEF PollAnswered
<1>4. PICK r : r = Snapshot(panel.poll, request'[panel.poll])
  OBVIOUS
<1>5. SnapOK(r, request')
  <2>1. panel.poll \in Ids'
    BY <1>1, <1>3 DEF Grows, Ids
  <2> QED
    BY <1>4, <2>1, SnapTaken
<1>6. PICK p : p = panel'
  OBVIOUS
<1>7. PICK read : read = [panel.read EXCEPT ![n] = r]
  OBVIOUS
<1>10. p = [panel EXCEPT !.read = read]
  BY <1>4, <1>6, <1>7 DEF PollAnswered
<1>8. p = [phase |-> panel.phase, active |-> panel.active, shown |-> panel.shown,
           poll |-> panel.poll, read |-> read, opening |-> panel.opening, accept |-> panel.accept]
  BY <1>10 DEF PanelInv, PanelOK
<1>11. ReadsOK(read, request')
  BY <1>3, <1>5, <1>7, ReadPlaced DEF PanelInv, PanelOK
<1>9. PanelOK(p, request')
  BY <1>3, <1>8, <1>11, SnapLater, ReadsLater DEF PanelInv, PanelOK
<1> QED
  BY <1>3, <1>6, <1>9 DEF PanelInv

LEMMA PollArrivesKeeps ==
  ASSUME ServiceInv, BotInv, PanelInv, NEW n \in Polls, PollArrives(n)
  PROVE  ServiceInv' /\ BotInv' /\ PanelInv'
<1>1. Quiet
  <2>1. Kept /\ now' = now
    BY ClockKeeps DEF PollArrives, vars
  <2> QED
    BY <2>1, KeptQuiet
<1>2. ServiceInv' /\ Grows(request, request') /\ BotInv'
  BY <1>1, BotSleeps DEF PollArrives
<1>3. PICK p : p = panel'
  OBVIOUS
<1>4. panel = [phase |-> panel.phase, active |-> panel.active, shown |-> panel.shown,
               poll |-> panel.poll, read |-> panel.read, opening |-> panel.opening,
               accept |-> panel.accept]
  BY DEF PanelInv, PanelOK
<1>7. PICK read : read = [panel.read EXCEPT ![n] = None]
  OBVIOUS
<1>8. ReadsOK(read, request')
  BY <1>2, <1>7, ReadPlaced DEF PanelInv, PanelOK
<1>5. CASE panel.read[n].id = panel.active
  <2>1. p = ShownAs(n)
    BY <1>3, <1>5 DEF PollArrives
  <2>2. PICK poll, phase :
          p = [panel EXCEPT !.read = read, !.shown = panel.read[n], !.poll = poll, !.phase = phase]
    BY <1>7, <2>1 DEF ShownAs
  <2>3. p = [phase |-> phase, active |-> panel.active, shown |-> panel.read[n], poll |-> poll,
             read |-> read, opening |-> panel.opening, accept |-> panel.accept]
    BY <1>4, <2>2
  <2>4. SnapOK(panel.read[n], request)
    BY DEF PanelInv, PanelOK, ReadsOK, PollArrives
  <2> QED
    BY <1>2, <1>3, <1>5, <1>8, <2>3, <2>4, SnapLater, ReadsLater DEF PanelInv, PanelOK
<1>6. CASE panel.read[n].id # panel.active
  <2>1. p = [panel EXCEPT !.read = read]
    BY <1>3, <1>6, <1>7 DEF PollArrives
  <2>2. p = [phase |-> panel.phase, active |-> panel.active, shown |-> panel.shown,
             poll |-> panel.poll, read |-> read, opening |-> panel.opening,
             accept |-> panel.accept]
    BY <1>4, <2>1
  <2> QED
    BY <1>2, <1>3, <1>8, <2>2, SnapLater, ReadsLater DEF PanelInv, PanelOK
<1> QED
  BY <1>5, <1>6

LEMMA PanelOpenedKeeps ==
  ASSUME ServiceInv, BotInv, PanelInv, NEW slot \in Slots, PanelOpened(slot)
  PROVE  ServiceInv' /\ BotInv' /\ PanelInv'
<1> DEFINE id == Len(request) + 1
<1>1. /\ ServiceInv' /\ Grows(request, request')
      /\ stored' \subseteq stored \union {id} /\ now' = now
  BY InsertKeeps DEF PanelOpened, InsertRequest
<1>2. OpenIds' \subseteq OpenIds \union {id}
  <2>1. OpenIds' \subseteq stored'
    BY DEF OpenIds, OpenOf
  <2> QED
    BY <1>1, <2>1, NothingOpens
<1>3. id \in Ids'
  BY DEF PanelOpened, InsertRequest, ServiceInv, RequestsOK, Ids, IsSeq
<1> HIDE DEF id
<1>4. BotInv'
  <2>1. PICK b : b = bot'
    OBVIOUS
  <2>2. PICK fs : fs = Append(bot.frames, {id})
    OBVIOUS
  <2>3. b = [bot EXCEPT !.frames = IF bot.up THEN fs ELSE bot.frames]
    BY <2>1, <2>2 DEF PanelOpened, Announced, id
  <2>4. IsSeq(fs) /\ ToSet(bot.frames) \union {{id}} \subseteq ToSet(fs)
    BY <2>2, FrameWritten DEF BotInv, BotOK
  <2>5. b = [up |-> bot.up, frames |-> IF bot.up THEN fs ELSE bot.frames,
             quoted |-> bot.quoted, jobs |-> bot.jobs,
             prepared |-> bot.prepared, drops |-> bot.drops]
    BY <2>3 DEF BotInv, BotOK
  <2>6. BotOK(b)
    BY <2>4, <2>5 DEF BotOK, BotInv
  <2>7. Hears(b, OpenIds')
    BY <1>2, <2>4, <2>5 DEF Hears, BotInv
  <2> QED
    BY <2>1, <2>6, <2>7 DEF BotInv
<1>5. PICK r : r = Snapshot(id, request'[id])
  OBVIOUS
<1>6. SnapOK(r, request') /\ r.id = id
  BY <1>3, <1>5, SnapTaken
<1>7. PICK p : p = panel'
  OBVIOUS
<1>8. PICK opening :
        p = [panel EXCEPT !.phase = "open", !.active = id, !.poll = id, !.shown = r,
                          !.opening = opening]
  BY <1>5, <1>7 DEF PanelOpened, id
<1>9. p = [phase |-> "open", active |-> id, shown |-> r, poll |-> id, read |-> panel.read,
           opening |-> opening, accept |-> panel.accept]
  BY <1>8 DEF PanelInv, PanelOK
<1>10. PanelOK(p, request')
  BY <1>1, <1>6, <1>9, SnapLater, ReadsLater DEF PanelInv, PanelOK
<1> QED
  BY <1>1, <1>4, <1>7, <1>10 DEF PanelInv

LEMMA PanelSettlesKeeps ==
  ASSUME ServiceInv, BotInv, PanelInv, PanelSettles
  PROVE  ServiceInv' /\ BotInv' /\ PanelInv'
<1>1. Kept /\ now' = now
  <2>1. CASE UNCHANGED request
    BY <2>1, ClockKeeps DEF PanelSettles
  <2>2. ASSUME NEW id, id \in stored,
               request' = [request EXCEPT ![id] = Settled(ClosedAs(id, "settled"))]
        PROVE  Kept
    <3>1. id \in Ids
      BY <2>2 DEF ServiceInv, RequestsOK, Ids
    <3> QED
      BY <2>2, <3>1, MarkSettledKeeps DEF PanelSettles
  <2> QED
    BY <2>1, <2>2 DEF PanelSettles
<1>2. Quiet
  BY <1>1, KeptQuiet
<1>3. ServiceInv' /\ Grows(request, request') /\ BotInv'
  BY <1>2, BotSleeps DEF PanelSettles
<1>4. PICK shown : shown = IF panel.shown = None THEN None
                           ELSE [panel.shown EXCEPT !.status = "settled"]
  OBVIOUS
<1>5. shown # None => SnapOK(shown, request') /\ shown.id = panel.active
  <2> SUFFICES ASSUME panel.shown # None
               PROVE  SnapOK(shown, request') /\ shown.id = panel.active
    BY <1>4
  <2> DEFINE q == panel.shown
  <2>1. SnapOK(q, request') /\ q.id = panel.active
    BY <1>3, SnapLater, ReadsLater DEF PanelInv, PanelOK
  <2>2. shown = [q EXCEPT !.status = "settled"]
    BY <1>4
  <2> HIDE DEF q
  <2>3. shown = [id |-> q.id, status |-> "settled", quotes |-> q.quotes,
                 expiresAt |-> q.expiresAt]
    BY <2>1, <2>2 DEF SnapOK
  <2> QED
    BY <2>1, <2>3 DEF SnapOK
<1>6. PICK p : p = panel'
  OBVIOUS
<1>7. p = [panel EXCEPT !.phase = "done", !.accept = None, !.shown = shown]
  BY <1>4, <1>6 DEF PanelSettles
<1>8. p = [phase |-> "done", active |-> panel.active, shown |-> shown, poll |-> panel.poll,
           read |-> panel.read, opening |-> panel.opening, accept |-> None]
  BY <1>7 DEF PanelInv, PanelOK
<1>9. PanelOK(p, request')
  BY <1>3, <1>5, <1>8, SnapLater, ReadsLater DEF PanelInv, PanelOK
<1> QED
  BY <1>3, <1>6, <1>9 DEF PanelInv

LEMMA PanelKeeps ==
  ASSUME ServiceInv, BotInv, PanelInv, PanelStep
  PROVE  ServiceInv' /\ BotInv' /\ PanelInv' /\ UNCHANGED preview
<1>1. ASSUME NEW slot \in Slots,
             \/ \E taker \in Takers : PanelStarts(slot, taker)
             \/ PanelOpened(slot) \/ PanelRefused(slot)
             \/ \E k \in Acceptable : PanelAccepts(slot, k)
             \/ PanelRefusedQuote(slot) \/ PanelToSign(slot)
      PROVE  ServiceInv' /\ BotInv' /\ PanelInv' /\ UNCHANGED preview
  <2>1. UNCHANGED preview
    BY <1>1 DEF PanelStarts, PanelOpened, PanelRefused, PanelAccepts, PanelRefusedQuote,
                PanelToSign
  <2> QED
    BY <1>1, <2>1, PanelStartsKeeps, PanelOpenedKeeps, PanelRefusedKeeps, PanelAcceptsKeeps,
       PanelRefusedQuoteKeeps
<1>3. ASSUME NEW n \in Polls, PollAnswered(n) \/ PollArrives(n)
      PROVE  ServiceInv' /\ BotInv' /\ PanelInv' /\ UNCHANGED preview
  BY <1>3, PollAnsweredKeeps, PollArrivesKeeps DEF PollAnswered, PollArrives
<1>2. ASSUME \/ PanelResets \/ PanelCancels
               \/ PanelTooLate \/ PanelUnsettled \/ PanelSettles
      PROVE  ServiceInv' /\ BotInv' /\ PanelInv' /\ UNCHANGED preview
  <2>1. UNCHANGED preview
    BY <1>2 DEF PanelResets, PanelCancels, PanelTooLate,
                PanelUnsettled, PanelSettles
  <2> QED
    BY <1>2, <2>1, PanelResetsKeeps, PanelGivesUpKeeps,
       PanelSettlesKeeps
<1> QED
  BY <1>1, <1>2, <1>3 DEF PanelStep

-----------------------------------------------------------------------------
(* What is typed, and the price shown of it                                 *)

(* Only the last question asked can be answered, and it is what is typed.   *)
PreviewOK(p) ==
  /\ p = [seq |-> p.seq, want |-> p.want, timer |-> p.timer, asked |-> p.asked,
          shown |-> p.shown, loading |-> p.loading]
  /\ p.seq \in Nat
  /\ \A ask \in p.asked :
       ask[1] \in Nat /\ ask[1] <= p.seq /\ (ask[1] = p.seq => ask[2] = p.want)
  /\ p.shown # None /\ ~p.loading => p.shown = p.want

PreviewInv == PreviewOK(preview)

LEMMA PreviewKeeps ==
  ASSUME PreviewInv, PreviewStep
  PROVE  PreviewInv' /\ UNCHANGED <<vars, bot, panel>>
<1> DEFINE q == preview
<1>1. PICK p : p = preview'
  OBVIOUS
<1>2. /\ q = [seq |-> q.seq, want |-> q.want, timer |-> q.timer, asked |-> q.asked,
              shown |-> q.shown, loading |-> q.loading]
      /\ q.seq \in Nat
      /\ \A ask \in q.asked :
           ask[1] \in Nat /\ ask[1] <= q.seq /\ (ask[1] = q.seq => ask[2] = q.want)
      /\ q.shown # None /\ ~q.loading => q.shown = q.want
  BY DEF PreviewInv, PreviewOK
<1>3. ASSUME NEW params, PreviewFor(params)
      PROVE  PreviewOK(p)
  <2>1. PICK n, shown, loading :
          /\ n = q.seq + 1 /\ loading = (params # None)
          /\ shown = IF params = None THEN None ELSE q.shown
          /\ p = [q EXCEPT !.seq = n, !.want = params, !.timer = loading, !.loading = loading,
                           !.shown = shown]
    BY <1>1, <1>3 DEF PreviewFor
  <2> HIDE DEF q
  <2>2. p = [seq |-> n, want |-> params, timer |-> loading, asked |-> q.asked,
             shown |-> shown, loading |-> loading]
    BY <1>2, <2>1
  <2>3. /\ n \in Nat
        /\ \A ask \in q.asked :
             ask[1] \in Nat /\ ask[1] <= n /\ (ask[1] = n => ask[2] = params)
    BY <1>2, <2>1
  <2>4. shown # None /\ ~loading => shown = params
    BY <2>1
  <2> QED
    BY <2>2, <2>3, <2>4 DEF PreviewOK
<1>4. ASSUME PreviewAsked
      PROVE  PreviewOK(p)
  <2>1. PICK asked :
          /\ asked = q.asked \union {<<q.seq, q.want>>}
          /\ p = [q EXCEPT !.timer = FALSE, !.asked = asked]
    BY <1>1, <1>4 DEF PreviewAsked
  <2> HIDE DEF q
  <2>2. p = [seq |-> q.seq, want |-> q.want, timer |-> FALSE, asked |-> asked,
             shown |-> q.shown, loading |-> q.loading]
    BY <1>2, <2>1
  <2>3. \A ask \in asked :
          ask[1] \in Nat /\ ask[1] <= q.seq /\ (ask[1] = q.seq => ask[2] = q.want)
    BY <1>2, <2>1
  <2> QED
    BY <1>2, <2>2, <2>3 DEF PreviewOK
<1>5. ASSUME NEW ask \in preview.asked, NEW answer \in {ask[2], None}, PreviewArrives(ask, answer)
      PROVE  PreviewOK(p)
  <2>1. PICK asked : asked = q.asked \ {ask}
    OBVIOUS
  <2>2. CASE ask[1] = preview.seq
    <3>1. p = [q EXCEPT !.asked = asked, !.shown = answer, !.loading = FALSE] /\ ask[2] = q.want
      BY <1>1, <1>2, <1>5, <2>1, <2>2 DEF PreviewArrives
    <3> HIDE DEF q
    <3>2. p = [seq |-> q.seq, want |-> q.want, timer |-> q.timer, asked |-> asked,
               shown |-> answer, loading |-> FALSE]
      BY <1>2, <3>1
    <3> QED
      BY <1>2, <1>5, <2>1, <3>1, <3>2 DEF PreviewOK
  <2>3. CASE ask[1] # preview.seq
    <3>1. p = [q EXCEPT !.asked = asked]
      BY <1>1, <1>5, <2>1, <2>3 DEF PreviewArrives
    <3> HIDE DEF q
    <3>2. p = [seq |-> q.seq, want |-> q.want, timer |-> q.timer, asked |-> asked,
               shown |-> q.shown, loading |-> q.loading]
      BY <1>2, <3>1
    <3> QED
      BY <1>2, <2>1, <3>2 DEF PreviewOK
  <2> QED
    BY <2>2, <2>3
<1>6. UNCHANGED <<vars, bot, panel>>
  BY DEF PreviewStep, PreviewFor, PreviewAsked, PreviewArrives
<1> QED
  BY <1>1, <1>3, <1>4, <1>5, <1>6 DEF PreviewStep, PreviewInv
-----------------------------------------------------------------------------
(* The desk with its clients                                                *)

DeskInv == ServiceInv /\ BotInv /\ PanelInv /\ PreviewInv

LEMMA DeskStarts ==
  ASSUME DeskInit
  PROVE  DeskInv
<1>1. ServiceInv /\ stored = {}
  BY ServiceStarts DEF DeskInit, Init
<1>2. BotInv
  BY <1>1 DEF DeskInit, BotInv, BotOK, Hears, IsSeq
<1>3. PanelInv
  <2>1. ReadsOK([n \in Polls |-> None], request)
    BY DEF ReadsOK
  <2>2. panel = Blank
    BY DEF DeskInit
  <2> HIDE DEF ReadsOK
  <2> QED
    BY <2>1, <2>2 DEF PanelInv, PanelOK, Blank
<1>4. PreviewInv
  BY DEF DeskInit, PreviewInv, PreviewOK, NoPreview
<1> QED
  BY <1>1, <1>2, <1>3, <1>4 DEF DeskInv

LEMMA DeskKeeps ==
  ASSUME DeskInv, DeskNext
  PROVE  DeskInv'
<1>1. ServiceInv /\ BotInv /\ PanelInv /\ PreviewInv
  BY DEF DeskInv
<1>2. ASSUME Grows(request, request'), UNCHANGED panel
      PROVE  PanelInv'
  BY <1>1, <1>2, PanelLater DEF PanelInv
<1>3. ASSUME UNCHANGED preview
      PROVE  PreviewInv'
  BY <1>1, <1>3 DEF PreviewInv
<1>4. CASE BotStep
  BY <1>1, <1>2, <1>3, <1>4, BotKeeps DEF DeskInv
<1>5. CASE PanelStep
  BY <1>1, <1>3, <1>5, PanelKeeps DEF DeskInv
<1>6. CASE PreviewStep
  <2>1. PreviewInv' /\ UNCHANGED <<vars, bot, panel>>
    BY <1>1, <1>6, PreviewKeeps
  <2>2. Quiet
    <3>1. Kept /\ now' = now
      BY <1>1, <2>1, ClockKeeps DEF vars
    <3> QED
      BY <1>1, <3>1, KeptQuiet
  <2>3. ServiceInv' /\ Grows(request, request') /\ BotInv'
    BY <1>1, <2>1, <2>2, BotSleeps
  <2> QED
    BY <1>2, <2>1, <2>3 DEF DeskInv
<1>7. CASE ServerStep
  <2>1. Quiet /\ BotInv' /\ UNCHANGED <<panel, preview>>
    BY <1>1, <1>7, ServerKeeps
  <2> QED
    BY <1>2, <1>3, <2>1 DEF DeskInv, Quiet
<1> QED
  BY <1>4, <1>5, <1>6, <1>7 DEF DeskNext

LEMMA DeskStutters ==
  ASSUME DeskInv, UNCHANGED deskVars
  PROVE  DeskInv'
<1>1. UNCHANGED <<vars, bot, panel, preview>>
  BY DEF deskVars
<1>2. Quiet
  <2>1. Kept /\ now' = now
    BY <1>1, ClockKeeps DEF vars, DeskInv
  <2> QED
    BY <2>1, KeptQuiet DEF DeskInv
<1>3. ServiceInv' /\ BotInv'
  BY <1>1, <1>2, BotSleeps DEF DeskInv
<1>4. PanelInv' /\ PreviewInv'
  BY <1>1 DEF vars, DeskInv, PanelInv, PreviewInv
<1> QED
  BY <1>3, <1>4 DEF DeskInv

LEMMA DeskInvMeans ==
  ASSUME DeskInv
  PROVE  NoRequestMissed /\ PanelIsCurrent
<1>1. NoRequestMissed
  BY DEF DeskInv, BotInv, Hears, NoRequestMissed, ToSet
<1>2. PanelIsCurrent
  BY DEF DeskInv, PanelInv, PanelOK, PreviewInv, PreviewOK, PanelIsCurrent
<1> QED
  BY <1>1, <1>2

LEMMA DeskSafe == DeskSpec => []DeskInv
<1>1. DeskInv /\ [DeskNext]_deskVars => DeskInv'
  BY DeskKeeps, DeskStutters
<1> QED
  BY <1>1, DeskStarts, PTL DEF DeskSpec

(* However the bot's connection and process come and go between requests,   *)
(* no open request is missed: what it has not taken up is in its stream.    *)
THEOREM BotSafe == DeskSpec => []NoRequestMissed
BY DeskSafe, DeskInvMeans, PTL

(* Late answers, to polls and to what was typed, are never shown as of      *)
(* another request or another pair.                                         *)
THEOREM PanelSafe == DeskSpec => []PanelIsCurrent
BY DeskSafe, DeskInvMeans, PTL

(* With its clients connected the desk keeps what it keeps by itself: the   *)
(* panel never accepts a quote that the request does not have.              *)
THEOREM DrivenDeskSafe ==
  DeskSpec => [](OneLivePerMaker /\ ClosingAnnouncedOnce /\ AcceptedReadsAccepted)
<1>1. DeskInv => OneLivePerMaker /\ ClosingAnnouncedOnce /\ AcceptedReadsAccepted
  BY ServiceInvMeans DEF DeskInv
<1> QED
  BY <1>1, DeskSafe, PTL

-----------------------------------------------------------------------------
(* The restocker                                                            *)

Funding == {"again", "sign", "refresh", "resign"}

OrderOK(o) ==
  o = [bond |-> o.bond, status |-> o.status, tx |-> o.tx, paid |-> o.paid] /\ o.paid \in {0, 1}

TickOK(k) == k = [at |-> k.at, left |-> k.left, low |-> k.low, id |-> k.id, tx |-> k.tx]

(* An order that a tick is funding is its own, and not paid.                *)
FundingOK(ticks, orders) ==
  /\ \A t \in Ticks : ticks[t].at \in Funding =>
       ticks[t].id \in DOMAIN orders /\ orders[ticks[t].id].paid = 0
  /\ \A t, u \in Ticks :
       ticks[t].at \in Funding /\ ticks[u].at \in Funding /\ ticks[t].id = ticks[u].id => t = u

TicksOK(ticks) == ticks = [t \in Ticks |-> ticks[t]] /\ \A t \in Ticks : TickOK(ticks[t])
OrdersOK(orders) == IsSeq(orders) /\ \A id \in DOMAIN orders : OrderOK(orders[id])

RestockInv == TicksOK(tick) /\ OrdersOK(order) /\ FundingOK(tick, order)

(* What a tick that gets on may do: pay for its order as it lets go of it,  *)
(* keep the one it has, or take one that no tick has had.                   *)
PaysOnly(k, after, orders, later) ==
  /\ DOMAIN orders \subseteq DOMAIN later
  /\ \A id \in DOMAIN orders :
       later[id].paid = orders[id].paid
         \/ (k.at \in Funding /\ id = k.id /\ after.at \notin Funding)

TakesOnly(k, after, orders, later) ==
  after.at \in Funding =>
    /\ after.id \in DOMAIN later /\ later[after.id].paid = 0
    /\ (k.at \in Funding /\ after.id = k.id) \/ after.id \notin DOMAIN orders

LEMMA TickGetsOn ==
  ASSUME RestockInv, NEW t \in Ticks, NEW k, TickOK(k), tick' = [tick EXCEPT ![t] = k],
         OrdersOK(order'), PaysOnly(tick[t], k, order, order'),
         TakesOnly(tick[t], k, order, order')
  PROVE  RestockInv'
<1>1. /\ tick' = [u \in Ticks |-> tick'[u]] /\ tick'[t] = k
      /\ \A u \in Ticks : u # t => tick'[u] = tick[u]
  BY DEF RestockInv, TicksOK
<1>2. TicksOK(tick')
  BY <1>1 DEF RestockInv, TicksOK
<1>3. ASSUME NEW u \in Ticks, tick'[u].at \in Funding
      PROVE  tick'[u].id \in DOMAIN order' /\ order'[tick'[u].id].paid = 0
  <2>1. CASE u = t
    BY <1>1, <1>3, <2>1 DEF TakesOnly
  <2>2. CASE u # t
    <3>1. /\ tick'[u] = tick[u] /\ tick[u].id \in DOMAIN order
          /\ order[tick[u].id].paid = 0
      BY <1>1, <1>3, <2>2 DEF RestockInv, FundingOK
    <3>2. ~(tick[t].at \in Funding /\ tick[u].id = tick[t].id)
      BY <1>3, <2>2, <3>1 DEF RestockInv, FundingOK
    <3> QED
      BY <3>1, <3>2 DEF PaysOnly
  <2> QED
    BY <2>1, <2>2
<1>4. ASSUME NEW u \in Ticks, u # t, tick[u].at \in Funding, k.at \in Funding
      PROVE  tick[u].id # k.id
  <2>1. tick[u].id \in DOMAIN order /\ (tick[t].at \in Funding => tick[u].id # tick[t].id)
    BY <1>4 DEF RestockInv, FundingOK
  <2> QED
    BY <1>4, <2>1 DEF TakesOnly
<1>5. ASSUME NEW u \in Ticks, NEW v \in Ticks, tick'[u].at \in Funding, tick'[v].at \in Funding,
             tick'[u].id = tick'[v].id
      PROVE  u = v
  <2>1. CASE u # t /\ v # t
    BY <1>1, <1>5, <2>1 DEF RestockInv, FundingOK
  <2>2. CASE u = t /\ v # t
    BY <1>1, <1>4, <1>5, <2>2
  <2>3. CASE v = t /\ u # t
    BY <1>1, <1>4, <1>5, <2>3
  <2> QED
    BY <2>1, <2>2, <2>3
<1>6. FundingOK(tick', order')
  BY <1>3, <1>5 DEF FundingOK
<1> QED
  BY <1>2, <1>6 DEF RestockInv

(* A tick that leaves the orders alone, and has the one it had or none.     *)
LEMMA TickOnly ==
  ASSUME RestockInv, NEW t \in Ticks, NEW k, TickOK(k), tick' = [tick EXCEPT ![t] = k],
         k.at \in Funding => tick[t].at \in Funding /\ k.id = tick[t].id,
         UNCHANGED order
  PROVE  RestockInv'
<1>1. OrdersOK(order') /\ PaysOnly(tick[t], k, order, order')
  BY DEF RestockInv, PaysOnly
<1>2. TakesOnly(tick[t], k, order, order')
  BY DEF TakesOnly, RestockInv, FundingOK
<1> QED
  BY <1>1, <1>2, TickGetsOn

LEMMA OneFromOK ==
  ASSUME NEW left, NEW low, NEW waiting, NEW k, k = OneFrom(left, low, waiting)
  PROVE  TickOK(k) /\ k.at \notin Funding
BY DEF OneFrom, TickOK, NotTicking, Funding

LEMMA NotTickingOK == TickOK(NotTicking) /\ NotTicking.at \notin Funding
BY DEF TickOK, NotTicking, Funding

(* The bond done with, the next is not being funded yet.                    *)
LEMMA NextIsFree ==
  ASSUME NEW t \in Ticks, NEW waiting, NextTarget(t, waiting)
  PROVE  \E k : TickOK(k) /\ k.at \notin Funding /\ tick' = [tick EXCEPT ![t] = k]
<1>1. PICK k : k = OneFrom(Tail(tick[t].left), tick[t].low, waiting)
  OBVIOUS
<1>2. tick' = [tick EXCEPT ![t] = k]
  BY <1>1 DEF NextTarget
<1> QED
  BY <1>1, <1>2, OneFromOK

LEMMA StepTaken ==
  ASSUME RestockInv, NEW t \in Ticks, NEW step, Goto(t, step)
  PROVE  \E k : /\ TickOK(k) /\ k.at = step /\ k.id = tick[t].id
                /\ tick' = [tick EXCEPT ![t] = k]
<1> DEFINE q == tick[t]
<1>1. PICK k : k = [q EXCEPT !.at = step]
  OBVIOUS
<1>2. tick' = [tick EXCEPT ![t] = k]
  BY <1>1 DEF Goto
<1>3. TickOK(q)
  BY DEF RestockInv, TicksOK
<1> HIDE DEF q
<1>4. k = [at |-> step, left |-> q.left, low |-> q.low, id |-> q.id, tx |-> q.tx]
  BY <1>1, <1>3 DEF TickOK
<1>5. TickOK(k) /\ k.at = step /\ k.id = q.id
  BY <1>4 DEF TickOK
<1> QED
  BY <1>2, <1>5 DEF q

(* The orders, as the issuer changes one without its payment.               *)
LEMMA OrderRevised ==
  ASSUME NEW orders, OrdersOK(orders), NEW id \in DOMAIN orders,
         NEW o, OrderOK(o),
         NEW later, later = [orders EXCEPT ![id] = o]
  PROVE  /\ OrdersOK(later) /\ DOMAIN later = DOMAIN orders
         /\ later[id] = o /\ \A i \in DOMAIN orders : i # id => later[i] = orders[i]
<1>1. later = [i \in DOMAIN orders |-> later[i]]
  OBVIOUS
<1>2. IsSeq(later)
  BY <1>1, MappedIsSeq DEF OrdersOK
<1> QED
  BY <1>1, <1>2 DEF OrdersOK

LEMMA IssuerKeeps ==
  ASSUME RestockInv, NEW id \in DOMAIN order, NEW o, OrderOK(o), o.paid = order[id].paid,
         order' = [order EXCEPT ![id] = o], UNCHANGED tick
  PROVE  RestockInv'
<1>1. /\ OrdersOK(order') /\ DOMAIN order' = DOMAIN order
      /\ order'[id] = o /\ \A i \in DOMAIN order : i # id => order'[i] = order[i]
  BY OrderRevised DEF RestockInv
<1>2. \A i \in DOMAIN order : order'[i].paid = order[i].paid
  BY <1>1
<1>3. FundingOK(tick, order')
  BY <1>1, <1>2 DEF RestockInv, FundingOK
<1> QED
  BY <1>1, <1>3 DEF RestockInv

(* A payment, by the tick that has the order and lets go of it.             *)
LEMMA PaidOnce ==
  ASSUME RestockInv, NEW t \in Ticks, tick[t].at \in Funding, Pays(t),
         NEW k, TickOK(k), k.at \notin Funding, tick' = [tick EXCEPT ![t] = k]
  PROVE  RestockInv'
<1> DEFINE id == tick[t].id
           q == order[id]
<1>1. id \in DOMAIN order /\ q.paid = 0 /\ OrderOK(q)
  BY DEF RestockInv, FundingOK, OrdersOK
<1>2. order' = [order EXCEPT ![id].paid = q.paid + 1]
  BY DEF Pays
<1>3. PICK o : o = [q EXCEPT !.paid = q.paid + 1]
  OBVIOUS
<1>4. order' = [order EXCEPT ![id] = o]
  BY <1>2, <1>3
<1> HIDE DEF q
<1>5. o = [bond |-> q.bond, status |-> q.status, tx |-> q.tx, paid |-> 1]
  BY <1>1, <1>3 DEF OrderOK
<1>6. OrderOK(o)
  BY <1>5 DEF OrderOK
<1>7. /\ OrdersOK(order') /\ DOMAIN order' = DOMAIN order
      /\ \A i \in DOMAIN order : i # id => order'[i] = order[i]
  BY <1>1, <1>4, <1>6, OrderRevised DEF RestockInv
<1>8. PaysOnly(tick[t], k, order, order') /\ TakesOnly(tick[t], k, order, order')
  BY <1>7 DEF PaysOnly, TakesOnly
<1> QED
  BY <1>7, <1>8, TickGetsOn

(* An order made, for the tick that asked or for none.                      *)
LEMMA OrderMade ==
  ASSUME RestockInv, NEW t \in Ticks, NEW bond, NEW tx, order' = Made(bond, tx),
         NEW k, TickOK(k), tick' = [tick EXCEPT ![t] = k],
         k.at \in Funding => k.id = Len(order) + 1
  PROVE  RestockInv'
<1>1. PICK o : o = [bond |-> bond, status |-> "created", tx |-> tx, paid |-> 0]
  OBVIOUS
<1>2. order' = Append(order, o) /\ OrderOK(o) /\ o.paid = 0
  BY <1>1 DEF Made, OrderOK
<1>3. PICK later : later = Append(order, o)
  OBVIOUS
<1>4. /\ IsSeq(later) /\ Len(order) \in Nat
      /\ DOMAIN order = 1..Len(order) /\ DOMAIN later = 1..(Len(order) + 1)
      /\ \A i \in DOMAIN order : later[i] = order[i]
      /\ later[Len(order) + 1] = o
  BY <1>3, AppendedIsSeq DEF RestockInv, OrdersOK
<1>5. /\ \A i \in DOMAIN later : i \in DOMAIN order \/ i = Len(order) + 1
      /\ DOMAIN order \subseteq DOMAIN later
      /\ Len(order) + 1 \in DOMAIN later /\ Len(order) + 1 \notin DOMAIN order
  BY <1>4
<1>6. \A i \in DOMAIN later : OrderOK(later[i])
  BY <1>2, <1>4, <1>5 DEF RestockInv, OrdersOK
<1>7. OrdersOK(later) /\ PaysOnly(tick[t], k, order, later)
  BY <1>4, <1>5, <1>6 DEF OrdersOK, PaysOnly
<1>8. TakesOnly(tick[t], k, order, later)
  BY <1>2, <1>4, <1>5 DEF TakesOnly
<1> QED
  BY <1>2, <1>3, <1>7, <1>8, TickGetsOn
LEMMA NextKeeps ==
  ASSUME RestockInv, NEW t \in Ticks, NEW waiting, NextTarget(t, waiting), UNCHANGED order
  PROVE  RestockInv'
BY NextIsFree, TickOnly

LEMMA StopKeeps ==
  ASSUME RestockInv, NEW t \in Ticks, tick' = [tick EXCEPT ![t] = NotTicking], UNCHANGED order
  PROVE  RestockInv'
BY NotTickingOK, TickOnly

LEMMA GotoKeeps ==
  ASSUME RestockInv, NEW t \in Ticks, NEW step, Goto(t, step), UNCHANGED order,
         step \in Funding => tick[t].at \in Funding
  PROVE  RestockInv'
BY StepTaken, TickOnly

LEMMA StartTickKeeps ==
  ASSUME RestockInv, NEW t \in Ticks, StartTick(t)
  PROVE  RestockInv'
<1>1. PICK k : k = [NotTicking EXCEPT !.at = "balances"]
  OBVIOUS
<1>2. TickOK(k) /\ k.at \notin Funding
  BY <1>1 DEF NotTicking, TickOK, Funding
<1> QED
  BY <1>1, <1>2, TickOnly DEF StartTick

LEMMA BalancesKeeps ==
  ASSUME RestockInv, NEW t \in Ticks, Balances(t)
  PROVE  RestockInv'
<1>1. PICK k : k = OneFrom(Targets, short, pending)
  OBVIOUS
<1>2. tick' = [tick EXCEPT ![t] = k] /\ UNCHANGED order
  BY <1>1 DEF Balances
<1> QED
  BY <1>1, <1>2, OneFromOK, TickOnly

LEMMA PassKeeps ==
  ASSUME RestockInv, NEW t \in Ticks, Status(t) \/ Quote(t)
  PROVE  RestockInv'
<1>1. UNCHANGED order
  BY DEF Status, Quote
<1>2. (\E waiting : NextTarget(t, waiting)) \/ Goto(t, "quote") \/ Goto(t, "create")
  BY DEF Status, Quote
<1> QED
  BY <1>1, <1>2, NextKeeps, GotoKeeps DEF Funding

LEMMA CreateOrderKeeps ==
  ASSUME RestockInv, NEW t \in Ticks, CreateOrder(t)
  PROVE  RestockInv'
<1> DEFINE q == tick[t]
<1>1. PICK tx, at, id :
        /\ order' = Made(Bond(t), tx) /\ id = Len(order) + 1
        /\ tick' = [tick EXCEPT ![t] = [q EXCEPT !.at = at, !.id = id, !.tx = tx]]
  BY DEF CreateOrder
<1>2. PICK k : k = [q EXCEPT !.at = at, !.id = id, !.tx = tx]
  OBVIOUS
<1>3. TickOK(q)
  BY DEF RestockInv, TicksOK
<1> HIDE DEF q
<1>4. k = [at |-> at, left |-> q.left, low |-> q.low, id |-> id, tx |-> tx]
  BY <1>2, <1>3 DEF TickOK
<1>5. TickOK(k) /\ k.id = id
  BY <1>4 DEF TickOK
<1> QED
  BY <1>1, <1>2, <1>5, OrderMade

(* The ticks' records, with a step and a transaction of their own.          *)
LEMMA Resigned ==
  ASSUME RestockInv, NEW t \in Ticks, NEW at, NEW tx,
         tick' = [tick EXCEPT ![t].at = at, ![t].tx = tx], UNCHANGED order,
         tick[t].at \in Funding
  PROVE  RestockInv'
<1> DEFINE q == tick[t]
<1>1. PICK k : k = [q EXCEPT !.at = at, !.tx = tx]
  OBVIOUS
<1>2. tick = [u \in Ticks |-> tick[u]] /\ TickOK(q)
  BY DEF RestockInv, TicksOK
<1>3. tick' = [tick EXCEPT ![t] = k]
  <2>1. tick' = [u \in Ticks |-> IF u = t THEN k ELSE tick[u]]
    BY <1>1, <1>2
  <2> QED
    BY <1>2, <2>1
<1> HIDE DEF q
<1>4. k = [at |-> at, left |-> q.left, low |-> q.low, id |-> q.id, tx |-> tx]
  BY <1>1, <1>2 DEF TickOK
<1>5. TickOK(k) /\ k.id = q.id
  BY <1>4 DEF TickOK
<1> QED
  BY <1>3, <1>5, TickOnly DEF q

LEMMA AgainKeeps ==
  ASSUME RestockInv, NEW t \in Ticks, Again(t)
  PROVE  RestockInv'
<1>1. UNCHANGED order /\ tick[t].at \in Funding
  BY DEF Again, AtStep, Funding
<1>2. \/ \E waiting : NextTarget(t, waiting)
      \/ \E tx : tick' = [tick EXCEPT ![t].at = "sign", ![t].tx = tx]
  BY DEF Again
<1> QED
  BY <1>1, <1>2, NextKeeps, Resigned

LEMMA RefreshKeeps ==
  ASSUME RestockInv, NEW t \in Ticks, Refresh(t)
  PROVE  RestockInv'
<1>1. UNCHANGED order /\ tick[t].at \in Funding
  BY DEF Refresh, AtStep, Funding
<1>2. \/ \E waiting : NextTarget(t, waiting)
      \/ \E tx : tick' = [tick EXCEPT ![t].at = "resign", ![t].tx = tx]
  BY DEF Refresh
<1> QED
  BY <1>1, <1>2, NextKeeps, Resigned

LEMMA BadSequenceKeeps ==
  ASSUME RestockInv, NEW t \in Ticks, BadSequence(t)
  PROVE  RestockInv'
<1>1. UNCHANGED order /\ tick[t].at \in Funding
  BY DEF BadSequence, Funding
<1>2. \/ tick' = [tick EXCEPT ![t] = NotTicking] \/ Goto(t, "refresh")
      \/ NextTarget(t, Waiting(t))
  BY DEF BadSequence
<1>3. CASE NextTarget(t, Waiting(t))
  <2>1. PICK k : TickOK(k) /\ k.at \notin Funding /\ tick' = [tick EXCEPT ![t] = k]
    BY <1>3, NextIsFree
  <2> QED
    BY <1>1, <2>1, TickOnly
<1> QED
  BY <1>1, <1>2, <1>3, StopKeeps, GotoKeeps

LEMMA FundedKeeps ==
  ASSUME RestockInv, NEW t \in Ticks, Funded(t)
  PROVE  RestockInv'
<1>1. tick[t].at \in Funding /\ Pays(t) /\ NextTarget(t, Waiting(t))
  BY DEF Funded, Funding
<1> QED
  BY <1>1, NextIsFree, PaidOnce

LEMMA SubmissionLostKeeps ==
  ASSUME RestockInv, NEW t \in Ticks, SubmissionLost(t)
  PROVE  RestockInv'
<1>1. tick[t].at \in Funding /\ (Pays(t) \/ UNCHANGED order)
  BY DEF SubmissionLost, AtStep, Funding
<1>2. NextTarget(t, Waiting(t)) \/ tick' = [tick EXCEPT ![t] = NotTicking]
  BY DEF SubmissionLost
<1>3. PICK k : TickOK(k) /\ k.at \notin Funding /\ tick' = [tick EXCEPT ![t] = k]
  BY <1>2, NextIsFree, NotTickingOK
<1> QED
  BY <1>1, <1>3, PaidOnce, TickOnly

LEMMA ThrowKeeps ==
  ASSUME RestockInv, NEW t \in Ticks, Throw(t)
  PROVE  RestockInv'
<1>1. tick' = [tick EXCEPT ![t] = NotTicking]
  BY DEF Throw
<1>2. UNCHANGED order \/ order' = Made(Bond(t), sequence)
  BY DEF Throw
<1> QED
  BY <1>1, <1>2, NotTickingOK, OrderMade, StopKeeps

LEMMA IssuerStepKeeps ==
  ASSUME RestockInv, NEW id \in Orders, Prepare(id) \/ Observe(id) \/ Complete(id) \/ GiveUp(id)
  PROVE  RestockInv'
<1> DEFINE q == order[id]
<1>1. OrderOK(q) /\ id \in DOMAIN order /\ UNCHANGED tick
  BY DEF RestockInv, OrdersOK, Orders, Prepare, Observe, Complete, GiveUp
<1>2. PICK tx, status :
        \/ order' = [order EXCEPT ![id].tx = tx]
        \/ order' = [order EXCEPT ![id].status = status]
  BY DEF Prepare, Observe, Complete, GiveUp
<1>3. PICK o : \/ o = [q EXCEPT !.tx = tx] /\ order' = [order EXCEPT ![id] = o]
               \/ o = [q EXCEPT !.status = status] /\ order' = [order EXCEPT ![id] = o]
  BY <1>2
<1> HIDE DEF q
<1>4. \/ o = [bond |-> q.bond, status |-> q.status, tx |-> tx, paid |-> q.paid]
      \/ o = [bond |-> q.bond, status |-> status, tx |-> q.tx, paid |-> q.paid]
  BY <1>1, <1>3 DEF OrderOK
<1>5. OrderOK(o) /\ o.paid = q.paid
  BY <1>1, <1>4 DEF OrderOK
<1>6. order' = [order EXCEPT ![id] = o]
  BY <1>3
<1> QED
  BY <1>1, <1>5, <1>6, IssuerKeeps DEF q

LEMMA RestockKeeps ==
  ASSUME RestockInv, [RestockNext]_restockVars
  PROVE  RestockInv'
<1>1. ASSUME NEW t \in Ticks, StartTick(t) \/ RestockStep(t)
      PROVE  RestockInv'
  BY <1>1, StartTickKeeps, BalancesKeeps, PassKeeps, CreateOrderKeeps, AgainKeeps, FundedKeeps,
     BadSequenceKeeps, SubmissionLostKeeps, RefreshKeeps, ThrowKeeps DEF RestockStep
<1>2. ASSUME NEW id \in Orders, Prepare(id) \/ Observe(id) \/ Complete(id) \/ GiveUp(id)
      PROVE  RestockInv'
  BY <1>2, IssuerStepKeeps
<1>3. ASSUME UNCHANGED <<tick, order>>
      PROVE  RestockInv'
  BY <1>3 DEF RestockInv
<1>4. ASSUME NEW b \in Assets, Sell(b)
      PROVE  UNCHANGED <<tick, order>>
  BY <1>4 DEF Sell
<1>5. UNCHANGED restockVars => UNCHANGED <<tick, order>>
  BY DEF restockVars
<1> QED
  BY <1>1, <1>2, <1>3, <1>4, <1>5 DEF RestockNext

LEMMA RestockStarts ==
  ASSUME RestockInit
  PROVE  RestockInv
<1>1. tick = [t \in Ticks |-> NotTicking] /\ order = <<>>
  BY DEF RestockInit
<1>2. TicksOK(tick) /\ OrdersOK(order)
  BY <1>1, NotTickingOK DEF TicksOK, OrdersOK, IsSeq
<1>3. FundingOK(tick, order)
  BY <1>1, NotTickingOK DEF FundingOK
<1> QED
  BY <1>2, <1>3 DEF RestockInv

(* However the ticks overlap and their submissions are refused, lost or     *)
(* prepared afresh, the issuer is paid at most once for an order.           *)
THEOREM RestockSafe == RestockSpec => []NoOrderPaidTwice
<1>1. RestockInv => NoOrderPaidTwice
  BY DEF RestockInv, OrdersOK, OrderOK, NoOrderPaidTwice, Orders
<1> QED
  BY <1>1, RestockStarts, RestockKeeps, PTL DEF RestockSpec
=============================================================================
