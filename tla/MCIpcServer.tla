----------------------------- MODULE MCIpcServer -----------------------------
(* IpcServer on small instances: f is a file job, b a batch job.  *)
EXTENDS IpcLifecycle, TLC

CONSTANTS f, b, c1, c2

FileAndBatch == {f, b}
OnlyBatch == {b}
SamePriority == [j \in Jobs |-> 0]
OneClient == {c1}
TwoClients == {c1, c2}
AnyClient == Permutations(Clients)
=============================================================================
