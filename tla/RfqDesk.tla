------------------------------- MODULE RfqDesk -------------------------------
(***************************************************************************)
(* The desk with its clients: the maker bot that hears of requests on the   *)
(* stream and answers each with a quote, and the taker's panel in the       *)
(* browser, which opens a request, polls it and settles one of its quotes.  *)
(* Both talk to the desk over HTTP; a call is under way as long as its      *)
(* handler has a slot, and what the client has become by then is what the   *)
(* answer meets.                                                            *)
(***************************************************************************)
EXTENDS RfqService

CONSTANTS
  Bot,                        \* the bot's key
  QUOTE_ACCEPT_GRACE_LEDGERS,
  PollGrace,                  \* how long past the deadline the panel polls
  Polls,                      \* reads of a request that are under way: a bound
  Previews,                   \* pairs and amounts a taker types
  MaxPrepared, MaxDrops, MaxTyped   \* bounds on the bot's quotes, on its lost
                              \* connections and restarts, and on what is typed

ASSUME RfqDeskAssumption ==
  {QUOTE_ACCEPT_GRACE_LEDGERS, PollGrace, MaxPrepared, MaxDrops, MaxTyped} \subseteq Nat

VARIABLES bot, panel, preview
deskVars == <<vars, bot, panel, preview>>
clientVars == <<bot, panel, preview>>

OpenIds == UNION {OpenOf(taker) : taker \in Takers}

-----------------------------------------------------------------------------
(* The desk prepares what a maker is to sign                                *)

PrepareQuote(slot, id, maker) ==
  /\ id \in OpenIds
  /\ maker # request[id].taker
  /\ Start(slot, Handler("prepare", "ledger", id, maker))
  /\ UNCHANGED <<request, stored, now, used>>

(* The quote outlives the request by a grace, within the contract's limit.  *)
QuoteTtl(id) ==
  Min({MAX_QUOTE_TTL_LEDGERS,
       Max({MIN_QUOTE_TTL_LEDGERS, request[id].expiresAt - now + QUOTE_ACCEPT_GRACE_LEDGERS})})

PrepareLedger(slot, ledger) ==
  LET id == task[slot].id
      f == [maker |-> task[slot].of, taker |-> request[id].taker,
            expiry |-> ledger + QuoteTtl(id), nonce |-> bot.prepared + 1]
  IN /\ At(slot, "prepare", "ledger")
     /\ bot.prepared < MaxPrepared
     /\ task' = [task EXCEPT ![slot].of = f, ![slot].at = "build"]
     /\ bot' = [bot EXCEPT !.prepared = @ + 1]
     /\ UNCHANGED <<request, stored, now, used, panel, preview>>

-----------------------------------------------------------------------------
(* The maker bot                                                            *)

Job(id) == [id |-> id, at |-> "ask", slot |-> None, quote |-> None, again |-> FALSE]
Waits(job, slot) == job \in bot.jobs /\ job.slot = slot
Rejob(job, jobs) == bot' = [bot EXCEPT !.jobs = (@ \ {job}) \union jobs]

(* Faulty: the stream begins with what comes, not with what is open.        *)
BotConnectsAfresh ==
  /\ ~bot.up
  /\ bot' = [bot EXCEPT !.up = TRUE, !.frames = <<{}>>]
  /\ UNCHANGED <<vars, panel, preview>>

(* The stream opens with a snapshot of the open requests and subscribes.    *)
BotConnects ==
  /\ ~bot.up
  /\ bot' = [bot EXCEPT !.up = TRUE, !.frames = <<OpenIds>>]
  /\ UNCHANGED <<vars, panel, preview>>

(* External: the connection is lost, or the process begins anew.            *)
BotDrops ==
  /\ bot.drops < MaxDrops
  /\ \/ bot' = [bot EXCEPT !.up = FALSE, !.frames = <<>>, !.drops = @ + 1]
     \/ bot' = [bot EXCEPT !.up = FALSE, !.frames = <<>>, !.drops = @ + 1,
                           !.quoted = {}, !.jobs = {}]
  /\ UNCHANGED <<vars, panel, preview>>

Announced(id) ==
  [bot EXCEPT !.frames = IF bot.up THEN Append(@, {id}) ELSE @]

(* A request is marked before anything is tried; the pair, the size or a    *)
(* missing reference price may make the bot leave it.                       *)
BotHears ==
  /\ bot.frames # <<>>
  /\ LET heard == {id \in Head(bot.frames) : id \notin bot.quoted}
     IN \E wanted \in SUBSET {id \in heard : request[id].taker # Bot} :
          bot' = [bot EXCEPT !.frames = Tail(@), !.quoted = @ \union heard,
                             !.jobs = @ \union {Job(id) : id \in wanted}]
  /\ UNCHANGED <<vars, panel, preview>>

BotPrepares(slot, job) ==
  /\ job.at = "ask"
  /\ PrepareQuote(slot, job.id, Bot)
  /\ Rejob(job, {[job EXCEPT !.at = "asked", !.slot = slot]})
  /\ UNCHANGED <<panel, preview>>

(* The answer is signed at once; the post has a retry of its own.           *)
BotSigns(slot, job) ==
  /\ At(slot, "prepare", "built") /\ Waits(job, slot)
  /\ Rejob(job, {[job EXCEPT !.at = "post", !.slot = None, !.again = FALSE,
                             !.quote = task[slot].of]})
  /\ Done(slot)
  /\ UNCHANGED <<request, stored, now, used, panel, preview>>

BotPosts(slot, job) ==
  /\ job.at = "post" /\ job.id \in stored
  /\ SubmitQuote(slot, job.id, job.quote)
  /\ Rejob(job, {[job EXCEPT !.at = "posted", !.slot = slot]})
  /\ UNCHANGED <<panel, preview>>

(* One retry after a 5xx.                                                   *)
Retry(job) ==
  IF job.again THEN {}
  ELSE {[job EXCEPT !.at = IF @ = "asked" THEN "ask" ELSE "post", !.slot = None, !.again = TRUE]}

BotRefused(slot, job) ==
  /\ Waits(job, slot) /\ job.at \in {"asked", "posted"}
  /\ Fail(slot)
  /\ Rejob(job, {}) \/ Rejob(job, Retry(job))
  /\ UNCHANGED <<panel, preview>>

(* The quote is in; the answer may be lost to a 5xx on the way.             *)
BotQuoted(slot, job, lag) ==
  /\ Waits(job, slot)
  /\ SubmitVerified(slot, lag)
  /\ Rejob(job, {}) \/ Rejob(job, Retry(job))
  /\ UNCHANGED <<panel, preview>>

(* Refused before any await: the request is closed, lapsed or forgotten.    *)
BotTooLate(job) ==
  /\ job \in bot.jobs /\ job.slot = None /\ job.id \notin OpenIds
  /\ Rejob(job, {})
  /\ UNCHANGED <<vars, panel, preview>>

BotStep ==
  \/ BotConnects \/ BotDrops \/ BotHears
  \/ \E job \in bot.jobs :
       \/ BotTooLate(job)
       \/ \E slot \in Slots :
            \/ BotPrepares(slot, job) \/ BotSigns(slot, job) \/ BotPosts(slot, job)
            \/ BotRefused(slot, job)
            \/ \E lag \in 0..MaxTime : BotQuoted(slot, job, lag)

-----------------------------------------------------------------------------
(* The taker's panel                                                        *)

Blank == [phase |-> "idle", active |-> None, shown |-> None, poll |-> None, read |-> [n \in Polls |-> None],
          opening |-> {}, accept |-> None]

Snapshot(id, r) == [id |-> id, status |-> r.status, quotes |-> r.quotes, expiresAt |-> r.expiresAt]

(* Live by what the panel was told, with time left by its own clock.        *)
Acceptable ==
  IF panel.shown = None THEN {}
  ELSE {k \in DOMAIN panel.shown.quotes :
          panel.shown.quotes[k].status = "live" /\ panel.shown.quotes[k].expiresAt > now}

Collecting == panel.phase = "open" /\ panel.shown.expiresAt > now
Busy == panel.accept # None

PanelStarts(slot, taker) ==
  /\ ~Busy /\ panel.phase # "requesting"
  /\ panel.phase \in {"open", "closed"} => Acceptable = {} /\ ~Collecting
  /\ CreateRequest(slot, taker)
  /\ panel' = [panel EXCEPT !.phase = "requesting", !.poll = None, !.opening = @ \union {slot}]
  /\ UNCHANGED <<bot, preview>>

(* Whatever the taker did in between, the request that was opened is shown. *)
PanelOpened(slot) ==
  /\ slot \in panel.opening
  /\ InsertRequest(slot)
  /\ LET id == Len(request) + 1
     IN /\ bot' = Announced(id)
        /\ panel' = [panel EXCEPT !.phase = "open", !.active = id, !.poll = id,
                                  !.shown = Snapshot(id, request'[id]),
                                  !.opening = @ \ {slot}]
  /\ UNCHANGED preview

PanelRefused(slot) ==
  /\ slot \in panel.opening
  /\ Fail(slot)
  /\ panel' = [panel EXCEPT !.phase = "error", !.opening = @ \ {slot}]
  /\ UNCHANGED <<bot, preview>>

(* A poll, from the desk's answer to its arrival: the interval starts one    *)
(* whether or not those before it have come in, in whatever order they do.  *)
PollAnswered(n) ==
  /\ panel.poll # None /\ panel.poll = panel.active /\ panel.poll \in stored
  /\ panel.read[n] = None
  /\ Get(panel.poll)
  /\ panel' = [panel EXCEPT !.read = [@ EXCEPT ![n] = Snapshot(panel.poll, request'[panel.poll])]]
  /\ UNCHANGED <<bot, preview>>

PollsOn(r) == now <= r.expiresAt + PollGrace /\ r.status \notin {"accepted", "settled"}

ShownAs(n) ==
  LET r == panel.read[n]
  IN [panel EXCEPT !.read = [@ EXCEPT ![n] = None], !.shown = r,
                   !.poll = IF PollsOn(r) THEN @ ELSE None,
                   !.phase = IF r.status # "open" /\ @ = "open" THEN "closed" ELSE @]

(* Faulty: the answer is shown whatever request the panel is on by then.    *)
PollArrivesAnyway(n) ==
  /\ panel.read[n] # None
  /\ panel' = ShownAs(n)
  /\ UNCHANGED <<vars, bot, preview>>

(* An answer for a request that is no longer the panel's is dropped.        *)
PollArrives(n) ==
  /\ panel.read[n] # None
  /\ panel' = IF panel.read[n].id = panel.active THEN ShownAs(n)
              ELSE [panel EXCEPT !.read = [@ EXCEPT ![n] = None]]
  /\ UNCHANGED <<vars, bot, preview>>

Resets == [panel EXCEPT !.phase = "idle", !.active = None, !.shown = None, !.poll = None]

(* Another pair, another amount, or the DEX route instead.                  *)
PanelResets ==
  /\ panel.phase # "idle"
  /\ panel' = Resets
  /\ UNCHANGED <<vars, bot, preview>>

(* Start over, offered once nobody answered; the desk is told if it can be. *)
PanelCancels ==
  /\ panel.shown # None /\ Acceptable = {} /\ ~Collecting
  /\ panel.phase \notin {"idle", "accepting", "done"}
  /\ panel' = Resets
  /\ IF panel.active \in stored THEN Cancel(panel.active) ELSE UNCHANGED vars
  /\ UNCHANGED <<bot, preview>>

PanelAccepts(slot, k) ==
  /\ ~Busy /\ k \in Acceptable /\ panel.active \in stored
  /\ Accept(slot, panel.active, k)
  /\ panel' = [panel EXCEPT !.phase = "accepting", !.poll = None,
                            !.accept = [id |-> panel.active, slot |-> slot, quote |-> None]]
  /\ UNCHANGED <<bot, preview>>

AcceptingIn(slot) == Busy /\ panel.accept.slot = slot
Failed == [panel EXCEPT !.phase = "error", !.accept = None]

(* The request was closed or forgotten since it was shown.                  *)
PanelTooLate ==
  /\ ~Busy /\ Acceptable # {}
  /\ panel.active \in stored => request[panel.active].status \notin {"open", "expired"}
  /\ panel' = [Failed EXCEPT !.poll = None]
  /\ UNCHANGED <<vars, bot, preview>>

PanelRefusedQuote(slot) ==
  /\ AcceptingIn(slot)
  /\ Fail(slot) \/ \E ledger \in Ledgers(slot) : AcceptLedger(slot, ledger)
  /\ panel' = IF task'[slot] = None THEN Failed ELSE panel
  /\ UNCHANGED <<bot, preview>>

PanelToSign(slot) ==
  /\ AcceptingIn(slot)
  /\ AcceptBuilt(slot)
  /\ LET id == panel.accept.id
     IN panel' = [panel EXCEPT !.accept =
                    [@ EXCEPT !.slot = None, !.quote = request[id].quotes[task[slot].of].signed]]
  /\ UNCHANGED <<bot, preview>>

Signing == Busy /\ panel.accept.quote # None

(* The wallet declines, or the ledger does.                                 *)
PanelUnsettled ==
  /\ Signing
  /\ panel' = Failed
  /\ UNCHANGED <<vars, bot, preview>>

(* The transaction lands and the desk is told of it, if it can be.          *)
PanelSettles ==
  /\ Signing
  /\ Settleable(panel.accept.quote)
  /\ used' = used \union {Key(panel.accept.quote)}
  /\ panel' = [panel EXCEPT !.phase = "done", !.accept = None,
                            !.shown = IF @ = None THEN None ELSE [@ EXCEPT !.status = "settled"]]
  /\ LET id == panel.accept.id
     IN \/ UNCHANGED request
        \/ id \in stored /\ request' = [request EXCEPT ![id] = Settled(ClosedAs(id, "settled"))]
  /\ UNCHANGED <<stored, task, now, bot, preview>>

PanelStep ==
  \/ \E slot \in Slots :
       \/ \E taker \in Takers : PanelStarts(slot, taker)
       \/ PanelOpened(slot) \/ PanelRefused(slot)
       \/ \E k \in Acceptable : PanelAccepts(slot, k)
       \/ PanelRefusedQuote(slot) \/ PanelToSign(slot)
  \/ \E n \in Polls : PollAnswered(n) \/ PollArrives(n)
  \/ PanelResets \/ PanelCancels
  \/ PanelTooLate \/ PanelUnsettled \/ PanelSettles

-----------------------------------------------------------------------------
(* What the taker sees while typing                                         *)

NoPreview == [seq |-> 0, want |-> None, timer |-> FALSE, asked |-> {}, shown |-> None, loading |-> FALSE]

(* Each change of what is typed stops the timer and takes a number.         *)
PreviewFor(params) ==
  /\ preview.seq < MaxTyped
  /\ preview' = [preview EXCEPT !.seq = @ + 1, !.want = params, !.timer = params # None,
                                !.loading = params # None,
                                !.shown = IF params = None THEN None ELSE @]
  /\ UNCHANGED <<vars, bot, panel>>

PreviewAsked ==
  /\ preview.timer
  /\ preview' = [preview EXCEPT !.timer = FALSE, !.asked = @ \union {<<preview.seq, preview.want>>}]
  /\ UNCHANGED <<vars, bot, panel>>

(* The answer, or None when there is no price; stale ones are dropped.      *)
PreviewArrives(ask, answer) ==
  /\ preview' = IF ask[1] = preview.seq
                THEN [preview EXCEPT !.asked = @ \ {ask}, !.shown = answer, !.loading = FALSE]
                ELSE [preview EXCEPT !.asked = @ \ {ask}]
  /\ UNCHANGED <<vars, bot, panel>>

PreviewStep ==
  \/ \E params \in Previews \union {None} : PreviewFor(params)
  \/ PreviewAsked
  \/ \E ask \in preview.asked : \E answer \in {ask[2], None} : PreviewArrives(ask, answer)

-----------------------------------------------------------------------------
DeskInit ==
  /\ Init
  /\ bot = [up |-> FALSE, frames |-> <<>>, quoted |-> {}, jobs |-> {}, prepared |-> 0, drops |-> 0]
  /\ panel = Blank
  /\ preview = NoPreview

(* The desk's own steps, between the clients'.                              *)
ServerStep ==
  \/ \E slot \in Slots :
       /\ task[slot] # None
       /\ \/ \E ledger \in Ledgers(slot) :
               \/ PrepareLedger(slot, ledger)
               \/ SubmitLedger(slot, ledger) /\ UNCHANGED clientVars
          \/ HostAccepts(slot) /\ UNCHANGED clientVars
  \/ (Sweep \/ Tick) /\ UNCHANGED clientVars

DeskNext == BotStep \/ PanelStep \/ PreviewStep \/ ServerStep

DeskSpec == DeskInit /\ [][DeskNext]_deskVars

-----------------------------------------------------------------------------
(* However its connection comes and goes between requests, a bot that is    *)
(* connected and has read its stream has taken up every open request.       *)
NoRequestMissed ==
  (bot.up /\ bot.frames = <<>>) => OpenIds \subseteq bot.quoted

(* What the panel shows is of the request it is on, and its price of what   *)
(* is typed, whichever late answers come in after a change.                 *)
PanelIsCurrent ==
  /\ panel.shown # None => panel.shown.id = panel.active
  /\ (preview.shown # None /\ ~preview.loading) => preview.shown = preview.want
=============================================================================
