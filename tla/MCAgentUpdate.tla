---------------------------- MODULE MCAgentUpdate ----------------------------
(* Model-checking instance of AgentUpdate: 1.0.0-rc.2, 1.0.0-rc.10, which   *)
(* a comparison of texts would put first, 1.0.0+1, the malformed 1.0, and   *)
(* 1.0.0-rc.-2, which semantic versioning puts above the first two and      *)
(* strconv.Atoi below.                                                      *)
EXTENDS AgentUpdate

Version(core, pre, build) == [core |-> core, pre |-> pre, build |-> build]

MCName ==
    <<Version(<<"1", "0", "0">>, <<"rc", "2">>, FALSE),
      Version(<<"1", "0", "0">>, <<"rc", "10">>, FALSE),
      Version(<<"1", "0", "0">>, <<>>, TRUE),
      Version(<<"1", "0">>, <<>>, FALSE),
      Version(<<"1", "0", "0">>, <<"rc", "-2">>, FALSE)>>

MCValue == [x \in Digits |-> CASE x = "0" -> 0 [] x = "1" -> 1 [] x = "2" -> 2 [] x = "10" -> 10
                               [] x = "100" -> 100]

MCNumber == [x \in Numeric |-> IF x = "-2" THEN -2 ELSE MCValue[x]]

MCRank == [x \in Identifiers |->
    CASE x = "-2" -> 0 [] x = "0" -> 1 [] x = "1" -> 2 [] x = "10" -> 3 [] x = "100" -> 4
      [] x = "2" -> 5 [] x = "rc" -> 6]
=============================================================================
