----------------------------- MODULE MCJobQueue -----------------------------
EXTENDS JobQueue
CONSTANTS w1, w2, j1, j2
MCJobs == {j1, j2}
MCWorkers == {w1, w2}
MCNameOf == [w \in MCWorkers |-> IF w = w1 THEN "oracle" ELSE "gcp"]
MCNames == {"oracle", "gcp"}
\* One job has no try to spare, the other has one.
MCMaxAttempts == [j \in MCJobs |-> IF j = j1 THEN 1 ELSE 2]
=============================================================================
