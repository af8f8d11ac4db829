-------------------------- MODULE MCHostCollector --------------------------
(* Model-checking instances of HostCollector. *)
EXTENDS HostCollector

(* The first release knows both contracts, the second only the newer one. *)
MCFits == {<<1, 1>>, <<1, 2>>, <<2, 2>>}

MCContractInterval == [c \in Contracts |-> 3]

(* The first policy selects services, the second one is disabled. *)
MCPolicyInterval == [r \in Policies |-> IF r = 1 THEN 1 ELSE 0]
=============================================================================
