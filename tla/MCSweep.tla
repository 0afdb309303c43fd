------------------------------ MODULE MCSweep ------------------------------
(* Three symbols and two configurations, on pools of two and three         *)
(* processes and on the serial path: batches of one and of several         *)
(* futures, a full call queue, a failure beside a cancellation.            *)
EXTENDS Sweep
CONSTANTS s1, s2, s3, c1, c2
ThreeSymbols == <<s1, s2, s3>>
TwoConfigs   == <<c1, c2>>
SomeRequests == {NoValue, 0, 5}
=============================================================================
