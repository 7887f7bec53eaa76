---------------------------- MODULE MCRunRegistry ----------------------------
(* Four sessions of one transfer each.                                      *)
EXTENDS RunRegistry
CONSTANTS r1, r2, r3

\* an experiment; a manual invocation; a sweep of two experiments to which
\* --run-id gives one id
MCKindOf == <<"auto", "manual", "auto", "auto">>
MCRunIdOf == <<r1, r2, r3, r3>>
MCProtocolOf == <<"mqtt", "grpc", "mqtt", "grpc">>
MCNumTransfers == <<1, 1, 1, 1>>
=============================================================================
