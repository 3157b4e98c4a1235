------------------------------- MODULE MCJobs -------------------------------
(* Small instances of WorkflowJobs.                                        *)
EXTENDS WorkflowJobs, TLC

MCEngineKinds == <<"unmarked", "pure", "local">>
MCEffectKinds == <<"remote">>
MCRouteToStep == <<"step", "step", "none">>
MCRouteToEnd == <<"end">>
MCWorkerSymmetry == Permutations(Workers)
=============================================================================
