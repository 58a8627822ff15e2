------------------------------ MODULE Discovery ------------------------------
(***************************************************************************)
(* The token universe: what the venues list, swept by the server over       *)
(* several requests each and merged into one list of tokens beside the      *)
(* curated ones.  A sweep is begun at an interval, whether or not the one   *)
(* before has ended, while the venues go on listing and delisting.          *)
(***************************************************************************)
EXTENDS Naturals, FiniteSets, Sequences, SequencesExt

CONSTANTS
  Contracts, SymbolOf, IssuerOf, DecimalsOf,     \* a token; NoIssuer: no classic asset
  NoIssuer,
  Curated,                    \* the table's tokens: [symbol, issuer, sacAddress]
  NoContract,                 \* the address of a curated token that has none yet
  AquaPools, SushiPools, CurvePools, CoinsOf,    \* pools, and the tokens in each
  Quiet,                      \* Aqua pools of fewer transactions than the floor
  Classic, MaxDecimals,       \* decimals of a classic asset; the most believed
  Listings,                   \* what the venues may list when the server starts
  Sweeps, MaxMoves, MaxLapses                    \* bounds

ASSUME DiscoveryAssumption ==
  /\ \A c \in Contracts : IssuerOf[c] # NoIssuer => DecimalsOf[c] = Classic
  /\ Quiet \subseteq AquaPools

VARIABLES
  listed,          \* the venues' own: [aqua, curve : sequences, sushi : a set]
  pools,           \* the last sweep's, of each venue
  discovered, decimalsCache, tokenMetaCache,
  sweep,           \* of each sweep and venue: how far it is
  moves, lapses    \* not in the code: counts, bounded

universe == <<pools, discovered, decimalsCache, tokenMetaCache>>
discoveryVars == <<listed, universe, sweep, moves, lapses>>

Venues == {"aqua", "sushi", "curve"}
Nothing == [c \in {} |-> Classic]
CoinsIn(ps) == UNION {CoinsOf[p] : p \in ps}

-----------------------------------------------------------------------------
(* The map of discovered tokens.  An entry knows its issuer if its source   *)
(* names one.                                                               *)

Token(source, c, decimals) ==
  [source |-> source, decimals |-> decimals,
   issuer |-> IF source = "sushi" THEN NoIssuer ELSE IssuerOf[c]]

(* Faulty: what the Curve sweep found is not kept.                          *)
RebuiltWithoutCurve(tokens) ==
  LET kept == {c \in DOMAIN discovered : discovered[c].source = "sushi"}
  IN [c \in DOMAIN tokens \union kept |->
        IF c \in DOMAIN tokens THEN tokens[c] ELSE discovered[c]]

Rebuilt(tokens) ==
  LET kept == {c \in DOMAIN discovered : discovered[c].source \in {"sushi", "curve"}}
  IN [c \in DOMAIN tokens \union kept |->
        IF c \in DOMAIN tokens THEN tokens[c] ELSE discovered[c]]

Extended(tokens) ==
  [c \in DOMAIN discovered \union DOMAIN tokens |->
     IF c \in DOMAIN discovered THEN discovered[c] ELSE tokens[c]]

-----------------------------------------------------------------------------
(* Sweeps                                                                   *)

NoSweep == [at |-> "none", next |-> 0, count |-> 0, pools |-> {},
            tokens |-> Nothing, left |-> {}]
Asking(at) == [NoSweep EXCEPT !.at = at, !.next = 1]
Ended(k, v) == [sweep EXCEPT ![k][v] = NoSweep]

Lapse(ok) ==
  /\ ok \/ lapses < MaxLapses
  /\ lapses' = lapses + IF ok THEN 0 ELSE 1

Refresh(k) ==
  /\ \A v \in Venues : sweep[k][v].at = "none"
  /\ sweep' = [sweep EXCEPT ![k] =
       [aqua |-> Asking("page"), sushi |-> Asking("query"), curve |-> Asking("count")]]
  /\ UNCHANGED <<listed, universe, moves, lapses>>

(* Aqua, page by page, then the decimals of each token of no issuer that    *)
(* the cache does not have.  A read that fails, or gives none or too many,  *)
(* leaves those of a classic asset until the next sweep, which asks again.  *)
Believed(d) == d \in 1..MaxDecimals

KnownOrClassic(c) == IF c \in DOMAIN decimalsCache THEN decimalsCache[c] ELSE Classic
Sighted(ps) == [c \in CoinsIn(ps \ Quiet) |-> Token("aqua", c, KnownOrClassic(c))]
Unread(cs) == {c \in cs : IssuerOf[c] = NoIssuer /\ c \notin DOMAIN decimalsCache}

AquaFound(k, ps, tokens) ==
  /\ pools' = [pools EXCEPT !.aqua = ps]
  /\ discovered' = Rebuilt(tokens)
  /\ sweep' = Ended(k, "aqua")

AquaGoesOn(k, s) ==
  /\ sweep' = [sweep EXCEPT ![k].aqua = s]
  /\ UNCHANGED <<pools, discovered>>

AquaPage(k) ==
  LET s == sweep[k].aqua
      swept == s.pools \union {listed.aqua[i] : i \in DOMAIN listed.aqua \intersect {s.next}}
      tokens == Sighted(swept)
      unread == Unread(DOMAIN tokens)
  IN /\ s.at = "page"
     /\ IF s.next < Len(listed.aqua)
        THEN AquaGoesOn(k, [s EXCEPT !.next = @ + 1, !.pools = swept])
        ELSE IF unread = {} THEN AquaFound(k, swept, tokens)
        ELSE AquaGoesOn(k, [s EXCEPT !.at = "decimals", !.pools = swept,
                                     !.tokens = tokens, !.left = unread])
     /\ UNCHANGED <<listed, decimalsCache, tokenMetaCache, moves, lapses>>

ReadDecimals(k, ok) ==
  LET s == sweep[k].aqua
      c == CHOOSE c \in s.left : TRUE
      read == {d \in {c} : ok /\ Believed(DecimalsOf[d])}
      left == Unread(s.left \ {c})
      tokens == [t \in DOMAIN s.tokens |->
        IF t \in read THEN [s.tokens[t] EXCEPT !.decimals = DecimalsOf[c]]
        ELSE IF t \in s.left \ (left \union {c})
        THEN [s.tokens[t] EXCEPT !.decimals = decimalsCache[t]]
        ELSE s.tokens[t]]
  IN /\ s.at = "decimals" /\ Lapse(ok)
     /\ decimalsCache' = [t \in DOMAIN decimalsCache \union read |-> DecimalsOf[t]]
     /\ IF left = {} THEN AquaFound(k, s.pools, tokens)
        ELSE AquaGoesOn(k, [s EXCEPT !.left = left, !.tokens = tokens])
     /\ UNCHANGED <<listed, tokenMetaCache, moves>>

(* Sushi, in one request.                                                   *)
SushiFound(k) ==
  /\ sweep[k].sushi.at = "query"
  /\ pools' = [pools EXCEPT !.sushi = listed.sushi]
  /\ discovered' =
       Extended([c \in CoinsIn(listed.sushi) |-> Token("sushi", c, DecimalsOf[c])])
  /\ sweep' = Ended(k, "sushi")
  /\ UNCHANGED <<listed, decimalsCache, tokenMetaCache, moves, lapses>>

(* A sweep of either that fails is over, and keeps the one before.          *)
SweepFails(k) ==
  /\ Lapse(FALSE)
  /\ \/ sweep[k].aqua.at = "page" /\ sweep' = Ended(k, "aqua")
     \/ sweep[k].sushi.at = "query" /\ sweep' = Ended(k, "sushi")
  /\ UNCHANGED <<listed, universe, moves>>

(* Curve, from its factory's registry: a read that fails is an empty answer. *)
CurveFound(k, ps, tokens) ==
  /\ pools' = [pools EXCEPT !.curve = ps]
  /\ discovered' = Extended(tokens)
  /\ sweep' = Ended(k, "curve")

CurveCount(k, ok) ==
  LET n == IF ok THEN Len(listed.curve) ELSE 0
  IN /\ sweep[k].curve.at = "count" /\ Lapse(ok)
     /\ IF n = 0 THEN CurveFound(k, {}, Nothing)
        ELSE /\ sweep' = [sweep EXCEPT ![k].curve =
                  [@ EXCEPT !.at = "registration", !.count = n]]
             /\ UNCHANGED <<pools, discovered>>
     /\ UNCHANGED <<listed, decimalsCache, tokenMetaCache, moves>>

CurveRegistration(k, ok, unnamed) ==
  LET s == sweep[k].curve
      p == listed.curve[s.next]
      named == IF ok THEN CoinsOf[p] \ unnamed ELSE {}
      found == IF ok THEN s.pools \union {p} ELSE s.pools
      tokens == [c \in DOMAIN s.tokens \union named |-> Token("curve", c, DecimalsOf[c])]
  IN /\ s.at = "registration" /\ Lapse(ok /\ unnamed = {})
     /\ unnamed \subseteq CoinsOf[p] \ tokenMetaCache
     /\ tokenMetaCache' = tokenMetaCache \union named
     /\ IF s.next = s.count THEN CurveFound(k, found, tokens)
        ELSE /\ sweep' = [sweep EXCEPT ![k].curve =
                  [s EXCEPT !.next = @ + 1, !.pools = found, !.tokens = tokens]]
             /\ UNCHANGED <<pools, discovered>>
     /\ UNCHANGED <<listed, decimalsCache, moves>>

-----------------------------------------------------------------------------
(* The list served                                                          *)

AutoFillSac(t) ==
  LET matching == {c \in DOMAIN discovered :
                     SymbolOf[c] = t.symbol /\ discovered[c].issuer = t.issuer}
  IN IF t.issuer = NoIssuer \/ matching = {} THEN NoContract
     ELSE CHOOSE c \in matching : TRUE
SacOf(t) == IF t.sacAddress = NoContract THEN AutoFillSac(t) ELSE t.sacAddress

Extras ==
  {c \in DOMAIN discovered :
     \A t \in Curated : SacOf(t) # c /\ t.symbol # SymbolOf[c]}

GetTokens ==
  {[sacAddress |-> SacOf(t), symbol |-> t.symbol, decimals |-> t.decimals,
    verified |-> TRUE, duplicateSymbol |-> FALSE] : t \in Curated}
  \union
  {[sacAddress |-> c, symbol |-> SymbolOf[c], decimals |-> discovered[c].decimals,
    verified |-> FALSE,
    duplicateSymbol |-> \E d \in Extras \ {c} : SymbolOf[d] = SymbolOf[c]] : c \in Extras}

GetAquaPools == pools.aqua \ Quiet

-----------------------------------------------------------------------------
(* The venues                                                               *)

Moves == moves < MaxMoves /\ moves' = moves + 1 /\ UNCHANGED <<universe, sweep, lapses>>

AquaLists(p) ==
  /\ p \in AquaPools \ Range(listed.aqua)
  /\ listed' = [listed EXCEPT !.aqua = <<p>> \o @] /\ Moves
AquaDelists(p) ==
  /\ p \in Range(listed.aqua)
  /\ listed' = [listed EXCEPT !.aqua = Remove(@, p)] /\ Moves
SushiLists(p) ==
  /\ p \in SushiPools \ listed.sushi
  /\ listed' = [listed EXCEPT !.sushi = @ \union {p}] /\ Moves
SushiDelists(p) ==
  /\ p \in listed.sushi
  /\ listed' = [listed EXCEPT !.sushi = @ \ {p}] /\ Moves
CurveRegisters(p) ==
  /\ p \in CurvePools \ Range(listed.curve)
  /\ listed' = [listed EXCEPT !.curve = Append(@, p)] /\ Moves

DiscoveryInit ==
  /\ listed \in Listings
  /\ pools = [v \in Venues |-> {}] /\ discovered = Nothing
  /\ decimalsCache = Nothing /\ tokenMetaCache = {}
  /\ sweep = [k \in Sweeps |-> [v \in Venues |-> NoSweep]]
  /\ moves = 0 /\ lapses = 0

SweepStep(k) ==
  \/ AquaPage(k) \/ SushiFound(k) \/ SweepFails(k)
  \/ \E ok \in BOOLEAN :
       \/ ReadDecimals(k, ok) \/ CurveCount(k, ok)
       \/ \E unnamed \in SUBSET Contracts : CurveRegistration(k, ok, unnamed)

DiscoveryNext ==
  \/ \E k \in Sweeps : Refresh(k) \/ SweepStep(k)
  \/ \E p \in AquaPools : AquaLists(p) \/ AquaDelists(p)
  \/ \E p \in SushiPools : SushiLists(p) \/ SushiDelists(p)
  \/ \E p \in CurvePools : CurveRegisters(p)

-----------------------------------------------------------------------------
Offered == CoinsIn((Range(listed.aqua) \ Quiet) \union listed.sushi \union Range(listed.curve))

(* A token of a curated symbol: the curated one, or taken for it if Aqua    *)
(* names its issuer.                                                        *)
Genuine(c, t) ==
  \/ t.sacAddress = c
  \/ t.sacAddress = NoContract /\ t.issuer = IssuerOf[c]
       /\ c \in CoinsIn(Range(listed.aqua) \ Quiet)

(* Aqua does not say what a token's decimals are, and its word goes first.  *)
Trusted(c) ==
  IF c \in CoinsIn(Range(listed.aqua) \ Quiet) /\ ~Believed(DecimalsOf[c])
  THEN Classic ELSE DecimalsOf[c]

InOrder(c) ==
  LET entries == {e \in GetTokens : e.sacAddress = c}
      namesakes == {t \in Curated : t.symbol = SymbolOf[c]}
      rivals == {d \in Offered \ {c} : SymbolOf[d] = SymbolOf[c]}
  IN IF \E t \in namesakes : Genuine(c, t)
     THEN Cardinality(entries) = 1 /\ \A e \in entries : e.verified
     ELSE IF namesakes # {} THEN \A e \in entries : e.verified
     ELSE /\ Cardinality(entries) = 1
          /\ \A e \in entries :
               /\ ~e.verified /\ e.decimals = Trusted(c)
               /\ rivals # {} => e.duplicateSymbol

(* Whatever overlapped, failed, or was listed and delisted in the middle of *)
(* a sweep: once the venues rest and answer, the server comes to have their *)
(* pools, and to serve each token they list once, as verified if it is a    *)
(* curated one, under a bare symbol only if no other listed token claims it,*)
(* and never under the symbol of a curated token; by its own decimals, but  *)
(* by a classic asset's for one that Aqua lists and whose own are 0, or     *)
(* more than the server believes.                                           *)
UniverseSettles ==
  <>[](/\ pools.sushi = listed.sushi /\ pools.curve = Range(listed.curve)
       /\ GetAquaPools = Range(listed.aqua) \ Quiet
       /\ \A c \in Offered : InOrder(c))
=============================================================================
