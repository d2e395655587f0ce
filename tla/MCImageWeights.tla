---------------------------- MODULE MCImageWeights ----------------------------
(* Instances for TLC of ImageWeights: two threads, two linears of the text     *)
(* encoder and one of the transformer, over fewer addresses than buffers.      *)
EXTENDS ImageWeights
CONSTANTS ra, rb

MCRenderers == {ra, rb}
WeightHost(d, s, r, n) == [device |-> d, source |-> s, resident |-> r, sessions |-> n]
MCHosts == {WeightHost("cuda", "npy", FALSE, 2), WeightHost("cuda", "mlx", FALSE, 1),
            WeightHost("cuda", "mlx", TRUE, 2),
            WeightHost("metal", "npy", FALSE, 1), WeightHost("metal", "mlx", TRUE, 1)}
\* A divergence, with a run of its own.
StaleHosts == {WeightHost("metal", "mlx", FALSE, 1)}
=============================================================================
