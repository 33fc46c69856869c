---------------------------- MODULE MCNeuralWorker ----------------------------
(* NeuralWorker on a small instance; all of its constants are numbers.     *)
EXTENDS NeuralWorker
=============================================================================
