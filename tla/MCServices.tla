----------------------------- MODULE MCServices -----------------------------
(***************************************************************************)
(* The services of the server that share no state, side by side: the       *)
(* initial state chooses which of them runs.                               *)
(***************************************************************************)
EXTENDS ForumLoad, RateLimiter, AdminAccess, Accounts, ServerStart, GroupMessages,
        PeerPins, PeerQueries, Decoys, Receipts, TLC

CONSTANTS p1, p2, k1, k2, k3

VARIABLE service

serverVars == <<loadVars, limiterVars, adminVars, accountsVars, startVars>>
peerVars == <<groupVars, pinVars, queryVars, decoyVars, receiptVars>>
servicesVars == <<service, serverVars, peerVars>>

\* With a DHT one UUID is registered, with two keys in turn; without one, two
\* UUIDs are, which a connection may log in with one after the other.
KeysTried == [d \in BOOLEAN |-> IF d THEN (p1 :> {k1, k2}) @@ (p2 :> {})
                                ELSE (p1 :> {k1}) @@ (p2 :> {k3})]

\* One of two users writes to the other; the servers have different rates.
TrafficUsed == {CHOOSE pair \in Users \X Users : pair[1] # pair[2]}
RateUsed == CHOOSE rate \in [Servers -> {1, 2}] : rate # [s \in Servers |-> 1]

\* What a service that does not run starts with does not matter.
ServicesInit ==
    /\ service \in {"load", "limiter", "admin", "accounts", "start", "texts", "pins", "queries",
                    "decoys", "receipts"}
    /\ LoadInit /\ LimiterInit /\ AdminInit /\ AccountsInit /\ StartInit
    /\ MessagesInit /\ PinsInit /\ QueriesInit /\ DecoysInit
    /\ ReceiptsInit
    /\ service # "limiter" => \A r \in Rates, b \in Bursts : r <= globalRate /\ b <= burst
    /\ service # "accounts" => ~dht
    /\ service # "texts" => ~federated

ServicesNext ==
    \/ /\ service = "load" /\ LoadNext
       /\ UNCHANGED <<service, limiterVars, adminVars, accountsVars, startVars, peerVars>>
    \/ /\ service = "limiter" /\ LimiterNext
       /\ UNCHANGED <<service, loadVars, adminVars, accountsVars, startVars, peerVars>>
    \/ /\ service = "admin" /\ AdminNext
       /\ UNCHANGED <<service, loadVars, limiterVars, accountsVars, startVars, peerVars>>
    \/ /\ service = "accounts" /\ AccountsNext
       /\ UNCHANGED <<service, loadVars, limiterVars, adminVars, startVars, peerVars>>
    \/ /\ service = "start" /\ StartNext
       /\ UNCHANGED <<service, loadVars, limiterVars, adminVars, accountsVars, peerVars>>
    \/ /\ service = "texts" /\ MessagesNext
       /\ UNCHANGED <<service, serverVars, pinVars, queryVars, decoyVars, receiptVars>>
    \/ /\ service = "pins" /\ PinsNext
       /\ UNCHANGED <<service, serverVars, groupVars, queryVars, decoyVars, receiptVars>>
    \/ /\ service = "queries" /\ QueriesNext
       /\ UNCHANGED <<service, serverVars, groupVars, pinVars, decoyVars, receiptVars>>
    \/ /\ service = "decoys" /\ DecoysNext
       /\ UNCHANGED <<service, serverVars, groupVars, pinVars, queryVars, receiptVars>>
    \/ /\ service = "receipts" /\ ReceiptsNext
       /\ UNCHANGED <<service, serverVars, groupVars, pinVars, queryVars, decoyVars>>

ServicesSpec == ServicesInit /\ [][ServicesNext]_servicesVars

\* Connections are told apart by equality only.
LinkSymmetry == Permutations(Links)

=============================================================================
