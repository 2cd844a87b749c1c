--------------------------- MODULE DonationServer ---------------------------
(***************************************************************************)
(* exercise08/task2 with the server of task1: a TCP server that serves one *)
(* client after the other, and a client that sends a line and waits for    *)
(* the reply.  A donation is one line; only their number is kept.          *)
(***************************************************************************)
EXTENDS Integers, Sequences

CONSTANTS Donors,            \* the clients
          MAX_FDS,           \* descriptors the server has for connections
          MaxLines,          \* bound: lines a user enters
          MaxCounted         \* bound: a line is sent again while fewer have been added

ASSUME DonationAssumption ==
    MAX_FDS \in Nat \ {0} /\ MaxLines \in Nat /\ MaxCounted \in Nat

VARIABLES spc, tcp_running, backlog, peer, fds,   \* the server; peer is its client_socket
          counted,                              \* the lines added for each client
          cpc, entered,                         \* the clients; the lines their users entered
          sent,                                 \* what each client has sent last, unread
          eof                                   \* the clients whose input has ended

tcp_vars == <<spc, tcp_running, backlog, peer, fds, counted, cpc, entered, sent, eof>>

TcpInit ==
    /\ spc = "loop" /\ tcp_running = TRUE /\ backlog = <<>> /\ fds = 0
    /\ peer = (CHOOSE k \in Donors : TRUE)   \* not set yet, and not read
    /\ counted = [k \in Donors |-> 0] /\ cpc = [k \in Donors |-> "out"]
    /\ entered = [k \in Donors |-> 0] /\ sent = [k \in Donors |-> "nothing"] /\ eof = {}

-----------------------------------------------------------------------------
(* The server. *)

ServerGoes(from, to) == spc = from /\ spc' = to /\ UNCHANGED <<entered, eof>>

\* while (running)
Loop == /\ ServerGoes("loop", IF tcp_running THEN "accept" ELSE "exit")
        /\ UNCHANGED <<tcp_running, backlog, peer, fds, counted, cpc, sent>>

AcceptDonor ==
    /\ ServerGoes("accept", "read") /\ backlog # <<>> /\ fds < MAX_FDS
    /\ peer' = Head(backlog) /\ backlog' = Tail(backlog) /\ fds' = fds + 1
    /\ UNCHANGED <<tcp_running, counted, cpc, sent>>

\* All descriptors are in use: accept fails.
TooManyOpen == /\ ServerGoes("accept", "exit") /\ fds = MAX_FDS
               /\ UNCHANGED <<tcp_running, backlog, peer, fds, counted, cpc, sent>>

\* Another error of accept or read.
Fails == /\ ServerGoes("accept", "exit") \/ ServerGoes("read", "exit")
         /\ UNCHANGED <<tcp_running, backlog, peer, fds, counted, cpc, sent>>

\* Mutant of AfterEnd: without the break.
ReadsOn  == "read"
AfterEnd == "loop"

\* The connection of a client that has gone is not closed: fds stays.
ReadEnd == /\ ServerGoes("read", AfterEnd) /\ sent[peer] = "end"
           /\ UNCHANGED <<tcp_running, backlog, peer, fds, counted, cpc, sent>>

ReadShutdown == /\ ServerGoes("read", "exit") /\ sent[peer] = "shutdown"
                /\ UNCHANGED <<tcp_running, backlog, peer, fds, counted, cpc, sent>>

\* Mutant of Donation: whatever the client has sent.
AnyLine  == 1
Donation == IF sent[peer] = "line" THEN 1 ELSE 0

\* A donation is added, anything else is rejected; both are answered, and the client
\* prompts again, or leaves if CTRL-C has reset its running.
ReadLine ==
    /\ ServerGoes("read", "read") /\ sent[peer] \in {"line", "zero"}
    /\ counted' = [counted EXCEPT ![peer] = @ + Donation]
    /\ cpc' = [cpc EXCEPT ![peer] = IF @ = "reply" THEN "prompt" ELSE "left"]
    /\ sent' = [sent EXCEPT ![peer] = IF cpc[peer] = "reply" THEN "nothing" ELSE "end"]
    /\ UNCHANGED <<tcp_running, backlog, peer, fds>>

\* SIGINT interrupts accept and read, which is an error; between them it is not
\* noticed before the loop is tested again.
Interrupt == /\ spc # "exit" /\ tcp_running' = FALSE
             /\ \/ spc' = spc
                \/ spc \in {"accept", "read"} /\ spc' = "exit"
             /\ UNCHANGED <<backlog, peer, fds, counted, cpc, entered, sent, eof>>

-----------------------------------------------------------------------------
(* A client. *)

DonorGoes(k, from, to, sends) ==
    /\ cpc[k] = from /\ cpc' = [cpc EXCEPT ![k] = to]
    /\ sent' = [sent EXCEPT ![k] = sends]
    /\ UNCHANGED <<spc, tcp_running, peer, fds, counted>>

ConnectDonor(k) == /\ DonorGoes(k, "out", "prompt", "nothing")
                   /\ backlog' = Append(backlog, k) /\ UNCHANGED <<entered, eof>>

\* fgets returns a line of the user.
Enter(k) == /\ DonorGoes(k, "prompt", "reply", "line") /\ entered[k] < MaxLines
            /\ k \notin eof /\ entered' = [entered EXCEPT ![k] = @ + 1]
            /\ UNCHANGED <<backlog, eof>>

Leave(k) == /\ \E last \in {"end", "shutdown"} : DonorGoes(k, "prompt", "left", last)
            /\ k \notin eof /\ UNCHANGED <<backlog, entered, eof>>

\* The user's input ends.
EndOfInput(k) == /\ cpc[k] = "prompt" /\ k \notin eof /\ eof' = eof \cup {k}
                 /\ UNCHANGED <<spc, tcp_running, backlog, peer, fds, counted, cpc,
                                entered, sent>>

\* A failing fgets leaves msg as it was: the line before, or "0" before the first one.
LastLine(k) == IF entered[k] > 0 THEN "line" ELSE "zero"

\* At the end of the input fgets fails every time, and running is still 1.
SendAgain(k) == /\ DonorGoes(k, "prompt", "reply", LastLine(k))
                /\ k \in eof /\ counted[k] < MaxCounted
                /\ UNCHANGED <<backlog, entered, eof>>

\* CTRL-C interrupts fgets, and msg is sent once more, or the read of the reply, or
\* arrives just before running is tested.
CtrlC(k) == /\ \/ DonorGoes(k, "prompt", "last", LastLine(k))
               \/ DonorGoes(k, "reply", "last", sent[k])
               \/ DonorGoes(k, "prompt", "left", "end")
            /\ UNCHANGED <<backlog, entered, eof>>

-----------------------------------------------------------------------------
Server == Loop \/ AcceptDonor \/ TooManyOpen \/ ReadEnd \/ ReadShutdown \/ ReadLine

Donor(k) == spc # "exit" /\ (Enter(k) \/ Leave(k) \/ SendAgain(k))

Event(k) == spc # "exit" /\ (ConnectDonor(k) \/ EndOfInput(k) \/ CtrlC(k))

TcpNext == \/ Server \/ Fails \/ Interrupt
           \/ \E k \in Donors : Donor(k) \/ Event(k)

\* The server runs, and a connected user goes on until he leaves, while his input lasts.
\* Nothing makes an error other than the end of the descriptors happen.
TcpFairness == WF_tcp_vars(Server) /\ \A k \in Donors : WF_tcp_vars(Donor(k))

TcpSpec == TcpInit /\ [][TcpNext]_tcp_vars /\ TcpFairness

-----------------------------------------------------------------------------
(* Properties. *)

InBacklog(k) == \E j \in DOMAIN backlog : backlog[j] = k

\* A client that waits while another one is served is accepted in the end, unless the
\* server ends, or serves for ever a client whose input has ended (server.c:71-113,
\* client.c:65-83).
NobodyWaitsForEver ==
    \/ <>[](spc = "read" /\ peer \in eof)
    \/ \A k \in Donors : InBacklog(k) ~> (~InBacklog(k) \/ spc = "exit")

\* "when /quit is entered or CTRL+C is pressed: clean up and exit"
\* (exercise08/README.md): leaving donates nothing.  While his input lasts, a user
\* donates the lines he has entered.
CountedOnce == \A k \in Donors \ eof : counted[k] <= entered[k]

\* What holds of it: nothing is added before a client's turn (server.c:71-76) nor for a
\* user who has entered nothing, and of a client that prompts or has left all lines have
\* been added.  While the input of a user lasts a client that prompts has had each line
\* added once, and CTRL-C has added at most the last one again; after its end the last
\* one is added any number of times (client.c:63-83).
CountsLines ==
    \A k \in Donors :
      /\ cpc[k] = "out" \/ InBacklog(k) \/ entered[k] = 0 => counted[k] = 0
      /\ counted[k] >= entered[k] - 1
      /\ cpc[k] \in {"prompt", "left"} \/ k \in eof => counted[k] >= entered[k]
      /\ k \notin eof => counted[k] <= entered[k] + (IF cpc[k] = "left" THEN 1 ELSE 0)
=============================================================================
