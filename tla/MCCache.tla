------------------------------ MODULE MCCache ------------------------------
(* Instances of Cache for TLC: the logs, processes and policies of handles,  *)
(* and snapshot file names on which all keys collide.                        *)
EXTENDS Cache, TLC

CONSTANTS h1, h2, w1, w2, p1, n1

TwoLogs == h1 :> w1 @@ h2 :> w2
OneLog == [h \in Handles |-> w1]
OneProc == [h \in Handles |-> p1]
Collide == [k \in Keys |-> n1]

OnFlush == [h \in Handles |-> "OnFlush"]
Mixed == h1 :> "EveryCommit" @@ h2 :> "OnFlush"

\* Keys that share one file name behave alike.
KeySymmetry == Permutations(Keys)
============================================================================
