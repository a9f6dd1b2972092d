---------------------------- MODULE MCWorkerJobs ----------------------------
EXTENDS WorkerJobs

MCKindOf == [j \in Jobs |->
    CASE j \in {"t1", "t2"} -> "tick" [] j = "h" -> "health" [] j = "s" -> "scan"
      [] j = "b" -> "backfill" [] j = "x" -> "extract"]
MCAutomationList == <<"broken", "daily", "digest">>
MCActionOf == [a \in {"broken", "daily", "digest"} |->
    CASE a = "broken" -> "unknown" [] a = "daily" -> "send" [] a = "digest" -> "notify"]
MCProviderList == <<"p">>

MCMixes == {[slots |-> {"t1", "t2"}, faults |-> 1], [slots |-> {"t1"}, faults |-> 2],
            [slots |-> {"h"}, faults |-> 3], [slots |-> {"s"}, faults |-> 2],
            [slots |-> {"x"}, faults |-> 3], [slots |-> {"x", "b"}, faults |-> 1]}
=============================================================================
