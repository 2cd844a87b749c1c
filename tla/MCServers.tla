----------------------------- MODULE MCServers -----------------------------
(***************************************************************************)
(* Runs the two servers of exercise08: the HTTP server of task3 and the    *)
(* TCP server of task2 with its clients.  `program` says which of them is  *)
(* running; the other one stays in its initial states.                     *)
(***************************************************************************)
EXTENDS HttpServer, DonationServer

VARIABLE program

MCInit == program \in {"http", "tcp"} /\ Init /\ TcpInit

InHttp == program = "http" /\ UNCHANGED <<tcp_vars, program>>
InTcp  == program = "tcp" /\ UNCHANGED <<vars, program>>

MCNext == (InHttp /\ Next) \/ (InTcp /\ TcpNext)

MCVars == <<vars, tcp_vars, program>>

\* The fairness of each program, while it is the one that runs.
MCFairness ==
    /\ WF_MCVars(InHttp /\ MainStep) /\ SF_MCVars(InHttp /\ MainFrame /\ MainLocks)
    /\ \A h \in Handlers : WF_MCVars(InHttp /\ Step(h)) /\ SF_MCVars(InHttp /\ Locking(h))
    /\ WF_MCVars(InTcp /\ Server) /\ \A k \in Donors : WF_MCVars(InTcp /\ Donor(k))

MCSpec == MCInit /\ [][MCNext]_MCVars /\ MCFairness
=============================================================================
