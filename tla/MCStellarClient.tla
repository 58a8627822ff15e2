--------------------------- MODULE MCStellarClient ---------------------------
(***************************************************************************)
(* The server at the network's edge: two submissions of one account through *)
(* a primary and a fallback endpoint; or the sweeps of what the venues      *)
(* list.  SOL and CUR are claimed by two contracts each: one of SOL's has no*)
(* decimals, one of CUR's is a curated token whose address the table has not*)
(* got.                                                                     *)
(***************************************************************************)
EXTENDS StellarClient, Discovery, TLC

CONSTANTS e1, e2, t1, t2, sol, fake, cur, cheat, usdx, none

MCEndpoints == <<e1, e2>>

MCContracts == {sol, fake, cur, cheat, usdx}
MCSymbolOf ==
  sol :> "SOL" @@ fake :> "SOL" @@ cur :> "CUR" @@ cheat :> "CUR" @@ usdx :> "USDX"
MCIssuerOf == cur :> "issuer" @@ cheat :> "other" @@ [c \in MCContracts |-> none]
MCDecimalsOf == sol :> 8 @@ fake :> 0 @@ [c \in MCContracts |-> 7]
MCCurated == {[symbol |-> "CUR", issuer |-> "issuer", sacAddress |-> none, decimals |-> 7]}
MCCoinsOf ==
  "a1" :> {cur, sol} @@ "a2" :> {cheat, fake} @@ "a3" :> {usdx}
    @@ "s1" :> {sol, cur} @@ "k1" :> {fake}

NothingListed == [aqua |-> <<>>, sushi |-> {}, curve |-> <<>>]
Open == [aqua |-> <<"a1", "a2">>, sushi |-> {"s1"}, curve |-> <<"k1">>]
MCListings == {NothingListed, Open}

VARIABLE scenario

EdgeInit ==
  /\ ClientInit /\ DiscoveryInit
  /\ scenario \in {"relay", "discovery"}
  /\ scenario = "discovery" <=> listed = Open

EdgeNext ==
  /\ UNCHANGED scenario
  /\ \/ scenario = "relay" /\ ClientNext /\ UNCHANGED discoveryVars
     \/ scenario = "discovery" /\ DiscoveryNext /\ UNCHANGED clientVars

edgeVars == <<clientVars, discoveryVars, scenario>>

(* Every request has a timeout, and the interval goes off again and again.  *)
EdgeSpec ==
  /\ EdgeInit /\ [][EdgeNext]_edgeVars
  /\ \A t \in Txs : WF_clientVars(Progress(t))
  /\ WF_edgeVars(scenario = "discovery" /\ UNCHANGED <<clientVars, scenario>>
                   /\ \E k \in Sweeps : Refresh(k))
  /\ \A k \in Sweeps :
       WF_edgeVars(scenario = "discovery" /\ UNCHANGED <<clientVars, scenario>> /\ SweepStep(k))
=============================================================================
