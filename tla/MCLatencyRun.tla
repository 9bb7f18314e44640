---------------------------- MODULE MCLatencyRun ----------------------------
(* LatencyRun for TLC: Run with two readers and every producer, Hetero with *)
(* its slow reader, and RunPipeline with two stages of one reader.          *)
EXTENDS LatencyRun, TLC

CONSTANTS a, b

MCReaders == {a, b}
OneStage  == [r \in MCReaders |-> 1]
TwoStages == a :> 1 @@ b :> 2

MCScenarios ==
  [shape: Shapes, stageOf: {OneStage, TwoStages}, perEvent: {{}}]
    \cup {[shape |-> "fixed", stageOf |-> OneStage, perEvent |-> {b}]}
=============================================================================
