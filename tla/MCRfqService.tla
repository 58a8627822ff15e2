---------------------------- MODULE MCRfqService ----------------------------
(* One taker, two makers; alpha quotes twice.  The desk is driven directly, *)
(* or by its clients, or the maker's restocker works for itself.            *)
EXTENDS RfqDesk, Restock, TLC

CONSTANTS taker, alpha, beta, corridor, reversed, b1, b2, p1, p2

VARIABLE scenario   \* which of them a behaviour is about

F(maker, expiry, nonce) == [maker |-> maker, taker |-> taker, expiry |-> expiry, nonce |-> nonce]
TwoMakers == {F(alpha, 2, 1), F(beta, 2, 1)}
Requotes == {F(alpha, 2, 1), F(alpha, 1, 2)}
TwoBonds == <<b1, b2>>

(* Bound: quotes are for a request that is alone, and the store fills up    *)
(* with requests that have none, one handler at a time.                     *)
Direct ==
  /\ Next /\ UNCHANGED <<clientVars, restockVars>>
  /\ \/ Len(request') <= 1
     \/ /\ \A id \in DOMAIN request' : request'[id].quotes = <<>>
        /\ \A slot \in Slots : task'[slot] # None => task'[slot].op = "create"

(* Bound: the connection fails, or a second request is opened and quotes    *)
(* settled, or the taker types: one of them in a behaviour.  A second read  *)
(* of a request starts only behind a first one, the connection being good   *)
(* and the bot having nothing to do.                                        *)
SecondRead == panel.read[p2] = None /\ panel'.read[p2] # None
Clients ==
  /\ DeskNext /\ UNCHANGED restockVars /\ Len(request') <= 2 /\ now' <= 2
  /\ SecondRead => panel.read[p1] # None
  /\ panel'.read[p2] # None => bot'.drops = 0 /\ bot'.jobs = {}
  /\ \/ preview' = NoPreview /\ bot'.drops = 0
     \/ preview' = NoPreview /\ Len(request') <= 1 /\ panel'.accept = None
     \/ request' = <<>> /\ task' = task /\ panel' = Blank /\ bot' = bot

Restocks == RestockNext /\ UNCHANGED deskVars

MCVars == <<deskVars, restockVars, scenario>>
MCInit == DeskInit /\ RestockInit /\ scenario \in {"direct", "clients", "restock"}
DirectSpec == MCInit /\ [][scenario = "direct" /\ Direct /\ UNCHANGED scenario]_MCVars
MCNext ==
  /\ UNCHANGED scenario
  /\ \/ scenario = "direct" /\ Direct
     \/ scenario = "clients" /\ Clients
     \/ scenario = "restock" /\ Restocks
MCSpec == MCInit /\ [][MCNext]_MCVars
=============================================================================
