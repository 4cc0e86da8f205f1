--------------------------- MODULE PromptHistory ---------------------------
(***************************************************************************)
(* PromptShell with a history variable: the jobs whose pipeline was ever   *)
(* started. The server itself forgets a job when its pipeline is over, and *)
(* all of them when it dies, so nothing in its state tells that a job has  *)
(* run before.                                                             *)
(***************************************************************************)
EXTENDS PromptShell

VARIABLE started

historyVars == <<vars, started>>

HistoryInit == Init /\ started = {}

\* A pipeline starts by resolving its sentence.
Starting == {j \in Runs : pc[j] # "resolve" /\ pc'[j] = "resolve"}

HistoryNext == Next /\ started' = started \cup Starting

HistorySpec == HistoryInit /\ [][HistoryNext]_historyVars
HistoryFairSpec == HistorySpec /\ Fairness

(* A job runs once: no stream opened again, whether its pipeline runs, is over, was given up or died
   with the process, starts a second one, and when the one is over its row is final. A pruned job or
   one the server has forgotten is never taken for a new one.
   (BuildJobQueue.stream, runPendingJob's finally, pruneExpiredPendingJobs) *)
RunsOnce ==
    [][\A j \in started : /\ j \notin Starting
                          /\ pc[j] = "none" => pc'[j] = "none" /\ row'[j] = row[j]]_historyVars
=============================================================================
