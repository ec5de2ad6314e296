---------------------------- MODULE MCCollector ----------------------------
(* The collector on three samples.  The runs check liveness, which a       *)
(* symmetry of the samples would not preserve, so that none is declared.   *)
EXTENDS Collector
=============================================================================
