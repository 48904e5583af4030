----------------------------- MODULE MCPerfRuns -----------------------------
(***************************************************************************)
(* The measurements TLC runs: each kind of flow, real and simulated;       *)
(* perf record beside those with many jobs and with few; and UDP and SCTP, *)
(* whose tweaks do not depend on what is measured, with iperf alone.       *)
(***************************************************************************)
EXTENDS PerfRuns

MCSetups ==
    {s \in AllSetups :
        /\ s.perf => s.kind \in {"Iperf", "TRex", "TcRun", "XDPRedirectCPU"}
        /\ s.type # "tcp" => ~s.perf /\ ~s.simulate}
=============================================================================
