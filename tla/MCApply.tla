------------------------------ MODULE MCApply ------------------------------
(* Two operators and files of four kinds: mme.yaml and mme.conf, which       *)
(* RESTART_MAP has under one container of the core, ausf.yaml, which it      *)
(* lacks, island.zone, read by a service, and lis-geometry.json, which       *)
(* nothing reads.                                                            *)
EXTENDS Apply, TLC

CONSTANTS op1, op2, mmeYaml, mmeConf, ausfYaml, zone, lis, mme, ausf, dns

Readers ==
    (mmeYaml :> mme) @@ (mmeConf :> mme) @@ (ausfYaml :> ausf)
        @@ (zone :> dns) @@ (lis :> NoContainer)

Interchangeable == Permutations({op1, op2}) \cup Permutations({mmeYaml, mmeConf})
=============================================================================
