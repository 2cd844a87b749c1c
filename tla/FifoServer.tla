----------------------------- MODULE FifoServer -----------------------------
(***************************************************************************)
(* exercise04/task3: a server that reads expressions from one FIFO per     *)
(* client, and the clients.  A FIFO holds bytes, of which only newlines    *)
(* matter: a read whose first byte is one means that the client has left.  *)
(* What the server adds up is left out.                                    *)
(***************************************************************************)
EXTENDS Integers, Sequences, FiniteSets

CONSTANTS n_clients,
          PIPE_BUF,      \* the size of the buffers of both programs
          MaxBytes       \* bound: the bytes a FIFO holds

ASSUME FifoAssumption ==
    n_clients \in Nat \ {0} /\ PIPE_BUF \in Nat \ {0, 1} /\ MaxBytes \in Nat

VARIABLES server, i,     \* the server and its loop variable
          fifo,          \* whether the file of each client exists
          reads,         \* whether the server has each FIFO open
          revents, closed,
          client, msg,   \* each client, and what it has read from its user
          pipe,          \* the bytes it has written that are unread
          torn           \* history: how often a read has ended in front of the newline of
                         \* a line that is not its client's last

fifo_vars == <<server, i, fifo, reads, revents, closed, client, msg, pipe, torn>>

Digit   == "digit"
Newline == "newline"

Clients == 1..n_clients

\* An earlier run may have left FIFOs behind.
FifoInit ==
    /\ server = "mkfifo" /\ i = 1 /\ fifo \in [Clients -> BOOLEAN]
    /\ reads = [c \in Clients |-> FALSE] /\ revents = [c \in Clients |-> {}]
    /\ closed = 0 /\ torn = 0
    /\ client = [c \in Clients |-> "new"]
    /\ msg = [c \in Clients |-> <<>>] /\ pipe = [c \in Clients |-> <<>>]

-----------------------------------------------------------------------------
(* The server. *)

\* The next client of a `for` loop, or what comes after the loop.
Advance(after) == /\ i' = IF i < n_clients THEN i + 1 ELSE 1
                  /\ server' = IF i < n_clients THEN server ELSE after

MkFifo == /\ server = "mkfifo"
          /\ IF fifo[i] THEN server' = "failed" /\ UNCHANGED <<i, fifo>>
                        ELSE Advance("open") /\ fifo' = [fifo EXCEPT ![i] = TRUE]
          /\ UNCHANGED <<reads, revents, closed, client, msg, pipe, torn>>

\* The open of the server and the one of the client wait for each other.
OpenFifo == /\ server = "open" /\ client[i] = "opening" /\ Advance("poll")
            /\ client' = [client EXCEPT ![i] = "connected"] /\ reads' = [reads EXCEPT ![i] = TRUE]
            /\ UNCHANGED <<fifo, revents, closed, msg, pipe, torn>>

OpenFails == /\ server = "open" /\ server' = "failed"
             /\ UNCHANGED <<i, fifo, reads, revents, closed, client, msg, pipe, torn>>

HungUp(c) == client[c] \in {"closed", "killed"}

\* A descriptor that has been closed has neither event.
Poll == /\ server = "poll"
        /\ IF closed < n_clients THEN server' = "visit" ELSE server' = "unlink"
        /\ revents' = [c \in Clients |-> {e \in {"POLLIN", "POLLHUP"} :
                          reads[c] /\ IF e = "POLLIN" THEN pipe[c] # <<>> ELSE HungUp(c)}]
        /\ UNCHANGED <<i, fifo, reads, closed, client, msg, pipe, torn>>

\* Mutant of HangupCounts: a client that hangs up has left.
CountHangup  == 1
HangupCounts == 0

HasLeft(c) == client[c] \in {"leaving", "closed"}

\* The next read begins with a newline, which is not the empty line of one who leaves.
IsTorn(c, bytes) == /\ bytes # <<>> /\ Head(bytes) = Newline
                    /\ ~(HasLeft(c) /\ Len(bytes) = 1)

\* One read takes what is there, up to the size of its buffer.  After the newline of one
\* who leaves, the others have to wait for the next poll.
Visit ==
    LET in    == "POLLIN" \in revents[i]
        rest  == SubSeq(pipe[i], PIPE_BUF + 1, Len(pipe[i]))
        leave == in /\ Head(pipe[i]) = Newline
        hup   == "POLLHUP" \in revents[i] /\ ~leave
    IN  /\ server = "visit"
        /\ pipe' = IF in THEN [pipe EXCEPT ![i] = rest] ELSE pipe
        /\ torn' = IF in /\ IsTorn(i, rest) THEN torn + 1 ELSE torn
        /\ reads' = [reads EXCEPT ![i] = @ /\ ~hup]
        /\ closed' = closed + (IF leave THEN 1 ELSE IF hup THEN HangupCounts ELSE 0)
        /\ IF leave THEN i' = 1 /\ server' = "poll" ELSE Advance("poll")
        /\ UNCHANGED <<fifo, revents, client, msg>>

Unlink == /\ server = "unlink" /\ server' = "exit" /\ fifo' = [c \in Clients |-> FALSE]
          /\ UNCHANGED <<i, reads, revents, closed, client, msg, pipe, torn>>

-----------------------------------------------------------------------------
(* A client. *)

ClientGoes(c, from, to) == /\ client[c] = from /\ client' = [client EXCEPT ![c] = to]
                           /\ UNCHANGED <<server, i, reads, revents, closed, torn>>

Open(c) == /\ ClientGoes(c, "new", IF fifo[c] THEN "opening" ELSE "failed")
           /\ UNCHANGED <<fifo, msg, pipe>>

\* fgets takes one byte less than the buffer has: a line, or the part of a longer line
\* that fits; or what comes before the end of the input.
Digits(d) == [j \in 1..d |-> Digit]
Parts     == {Append(Digits(d), Newline) : d \in 1..(PIPE_BUF - 2)} \cup {Digits(PIPE_BUF - 1)}
Unended   == {Digits(d) : d \in 1..(PIPE_BUF - 2)}

Writes(c, bytes) == /\ Len(pipe[c]) + Len(bytes) <= MaxBytes /\ UNCHANGED fifo
                    /\ pipe' = [pipe EXCEPT ![c] = @ \o bytes]

WriteLine(c) == /\ ClientGoes(c, "connected", "connected")
                /\ \E p \in Parts : Writes(c, p) /\ msg' = [msg EXCEPT ![c] = p]

\* The empty line, or a newline that did not fit, is written, and the loop ends.
Quit(c) == ClientGoes(c, "connected", "leaving") /\ Writes(c, <<Newline>>) /\ UNCHANGED msg

\* The input ends.  fgets then fails every time and leaves msg as it was, which is written
\* again and again.
EndOfInput(c) == /\ ClientGoes(c, "connected", "ended")
                 /\ \E p \in Unended \cup ({msg[c]} \ {<<>>}) : msg' = [msg EXCEPT ![c] = p]
                 /\ UNCHANGED <<fifo, pipe>>

WriteAgain(c) == ClientGoes(c, "ended", "ended") /\ Writes(c, msg[c]) /\ UNCHANGED msg

CloseFifo(c) == /\ ClientGoes(c, "leaving", "closed")
                /\ fifo' = [fifo EXCEPT ![c] = FALSE] /\ UNCHANGED <<msg, pipe>>

Killed(c) == /\ ClientGoes(c, "connected", "killed") \/ ClientGoes(c, "ended", "killed")
             /\ UNCHANGED <<fifo, msg, pipe>>

-----------------------------------------------------------------------------
Server == MkFifo \/ OpenFifo \/ OpenFails \/ Poll \/ Visit \/ Unlink

FifoClient(c) == \/ Open(c) \/ WriteLine(c) \/ Quit(c) \/ EndOfInput(c) \/ WriteAgain(c)
                 \/ CloseFifo(c) \/ Killed(c)

FifoNext == Server \/ \E c \in Clients : FifoClient(c)

FifoSpec == FifoInit /\ [][FifoNext]_fifo_vars

-----------------------------------------------------------------------------
(* Properties. *)

\* The server counts no client as gone that is connected or has been killed, and none
\* twice, although a client can be seen by POLLIN and by POLLHUP, in one poll or in two
\* (server.c:43-77), except for one each time a read has ended just before a newline: as
\* long as that has not happened, it ends its loop only when every client has left.
CountsLeavers == closed <= Cardinality({c \in Clients : HasLeft(c)}) + torn
=============================================================================
