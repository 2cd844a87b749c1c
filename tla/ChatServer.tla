----------------------------- MODULE ChatServer -----------------------------
(***************************************************************************)
(* exercise09/task1/server.c: the chat server.  The main thread spins on   *)
(* running, a listener accepts clients and creates a thread for each, and  *)
(* an admin's /shutdown (or SIGINT) clears running; main then cancels and  *)
(* joins the listener and, slot by slot, the client threads.               *)
(*                                                                         *)
(* A client stands for its socket and for its thread.  A thread that main  *)
(* is joining has been cancelled; it ends at a cancellation point: always  *)
(* in accept, read and close, and in printf when it has to write.          *)
(***************************************************************************)
EXTENDS Integers, FiniteSets

CONSTANTS Clients,           \* who may connect
          Admins,            \* those whose username is in admin_usernames
          MAX_CONNECTIONS

Slots    == 0..(MAX_CONNECTIONS - 1)
Nobody   == "nobody"
Listener == "listener"
Stale    == "stale"     \* a pthread_t whose thread was never started

ASSUME ChatServerAssumption ==
    /\ IsFiniteSet(Clients) /\ Admins \subseteq Clients /\ MAX_CONNECTIONS \in Nat \ {0}
    /\ Clients \cap {Nobody, Listener, Stale} = {}

VARIABLES
    backlog,          \* the clients that wait to be accepted
    running, clients_mutex, client_count,
    client_threads,   \* the thread that each slot names
    client_sockets,   \* the client whose socket is in each slot
    lpc, accepted,    \* the listener and its client_socket
    cpc,              \* the client threads
    mpc, slot         \* the main thread and its i

table     == <<client_count, client_threads, client_sockets>>
listener  == <<lpc, accepted>>
main_vars == <<mpc, slot>>
chat_vars == <<backlog, running, clients_mutex, table, listener, cpc, main_vars>>

ChatInit == /\ backlog = {}
            /\ running = 1 /\ clients_mutex = Nobody
            /\ client_count = 0 /\ client_threads = [s \in Slots |-> Nobody]
            /\ client_sockets = [s \in Slots |-> Nobody]
            /\ lpc = "none" /\ accepted = Nobody /\ cpc = [k \in Clients |-> "none"]
            /\ mpc = "start" /\ slot = 0

Alive == mpc \notin {"exit", "failed"}

\* Whose cancellation is pending.
ListenerIsCancelled == mpc = "join_listener"
IsCancelled(k)      == mpc = "join" /\ client_threads[slot] = k

-----------------------------------------------------------------------------
(* The clients and the user at the terminal. *)

Connect(k) ==
    /\ mpc # "start" /\ Alive /\ cpc[k] = "none" /\ k \notin backlog /\ accepted # k
    /\ backlog' = backlog \cup {k}
    /\ UNCHANGED <<running, clients_mutex, table, listener, cpc, main_vars>>

\* SIGINT.  The handler clears running, in whichever thread it is run: accept then
\* fails with EINTR and goes round its loop, and a client's read ends its loop.
Interrupt ==
    /\ mpc # "start" /\ Alive /\ running' = 0
    /\ \/ UNCHANGED <<lpc, cpc>>
       \/ lpc = "accept" /\ lpc' = "check" /\ UNCHANGED cpc
       \/ \E k \in Clients : /\ cpc[k] = "read"
                             /\ cpc' = [cpc EXCEPT ![k] = "close"] /\ UNCHANGED lpc
    /\ UNCHANGED <<backlog, clients_mutex, table, accepted, main_vars>>

-----------------------------------------------------------------------------
(* listener_thread. *)

ListenerFrame == UNCHANGED <<running, main_vars>>
ListenerGoes(from, to) == lpc = from /\ lpc' = to

\* while (running)
CheckRunning ==
    /\ ListenerGoes("check", IF running = 1 THEN "accept" ELSE "done")
    /\ UNCHANGED <<backlog, clients_mutex, table, accepted, cpc>>

Accept ==
    /\ ~ListenerIsCancelled /\ ListenerGoes("accept", "lock")
    /\ \E k \in backlog : accepted' = k /\ backlog' = backlog \ {k}
    /\ UNCHANGED <<clients_mutex, table, cpc>>

AcceptFails ==
    /\ ~ListenerIsCancelled /\ ListenerGoes("accept", "done")
    /\ UNCHANGED <<backlog, clients_mutex, table, accepted, cpc>>

\* Mutant of MayLock: the listener does not wait for it.
LocksAnyway == TRUE
MayLock     == clients_mutex = Nobody

ListenerLocks ==
    /\ ListenerGoes("lock", "cap") \/ ListenerGoes("lock2", "insert")
    /\ MayLock /\ clients_mutex' = Listener
    /\ UNCHANGED <<backlog, table, accepted, cpc>>

\* Mutant of Full: > for >=.
TooFull == client_count > MAX_CONNECTIONS
Full    == client_count >= MAX_CONNECTIONS

\* The capacity is tested in a critical section of its own.
TestCapacity ==
    /\ ListenerGoes("cap", IF Full THEN "refuse" ELSE "username")
    /\ clients_mutex' = Nobody /\ UNCHANGED <<backlog, table, accepted, cpc>>

Refuse ==
    /\ ~ListenerIsCancelled /\ ListenerGoes("refuse", "check") /\ accepted' = Nobody
    /\ UNCHANGED <<backlog, clients_mutex, table, cpc>>

\* The username is what makes the client an admin or not.
ReadUsername ==
    /\ ~ListenerIsCancelled /\ ListenerGoes("username", "lock2")
    /\ UNCHANGED <<backlog, clients_mutex, table, accepted, cpc>>

\* The slots that name the new thread: the one that client_count says, and any of those
\* with a dangling pthread_t, as the library reuses its thread descriptors.
\* Mutant of Named: the new thread is not stored.
NotStored == {{}}
Named     == {{client_count} \cup S : S \in SUBSET {s \in Slots : client_threads[s] = Stale}}

InsertGoes(pc) ==
    /\ ListenerGoes("insert", "print") /\ client_count' = client_count + 1
    /\ client_sockets' = [client_sockets EXCEPT ![client_count] = accepted]
    /\ cpc' = [cpc EXCEPT ![accepted] = pc]
    /\ accepted' = Nobody /\ UNCHANGED <<backlog, clients_mutex>>

Insert ==
    /\ InsertGoes("read")
    /\ \E N \in Named :
          client_threads' = [s \in Slots |-> IF s \in N THEN accepted ELSE client_threads[s]]

\* pthread_create fails, which is not noticed: the client is counted, and nothing or a
\* dangling pthread_t is stored.
InsertFails ==
    /\ InsertGoes("failed")
    /\ \/ UNCHANGED client_threads
       \/ client_threads' = [client_threads EXCEPT ![client_count] = Stale]

ListenerUnlocks ==
    /\ ListenerGoes("print", "check") /\ clients_mutex' = Nobody
    /\ UNCHANGED <<backlog, table, accepted, cpc>>

\* The listener ends where it is; at "print" it holds the mutex.
ListenerCancelled ==
    /\ ListenerIsCancelled
    /\ \E at \in {"accept", "refuse", "username", "print"} : ListenerGoes(at, "done")
    /\ UNCHANGED <<backlog, clients_mutex, table, accepted, cpc>>

-----------------------------------------------------------------------------
(* client_thread. *)

ClientFrame == UNCHANGED <<backlog, client_threads, client_sockets, listener, main_vars>>
ClientGoes(k, from, to) == cpc[k] = from /\ cpc' = [cpc EXCEPT ![k] = to]

\* Mutant of AfterLoop: the end of the connection returns at once.
NoCleanup == "done"
AfterLoop == "close"

\* What the client sends, if it sends something: a message (an admin's /shutdown
\* leaves the loop, and so does the end of the connection).
Read(k) ==
    /\ ~IsCancelled(k)
    /\ \/ ClientGoes(k, "read", "read")
       \/ k \in Admins /\ ClientGoes(k, "read", "lock")
       \/ ClientGoes(k, "read", AfterLoop)
    /\ UNCHANGED <<running, clients_mutex, client_count>>

\* main has closed the socket this thread reads from.
ReadFails(k) ==
    /\ mpc = "cancel" /\ client_sockets[slot] = k /\ ClientGoes(k, "read", "close")
    /\ UNCHANGED <<running, clients_mutex, client_count>>

Lock(k) ==
    /\ ClientGoes(k, "lock", "print") \/ ClientGoes(k, "lock2", "count")
    /\ clients_mutex = Nobody /\ clients_mutex' = k
    /\ UNCHANGED <<running, client_count>>

\* "Waiting for ... clients" is printed before the mutex is released.
Unlock(k) ==
    /\ ClientGoes(k, "print", "stop") \/ ClientGoes(k, "unlock", "done")
    /\ clients_mutex' = Nobody /\ UNCHANGED <<running, client_count>>

\* Mutant of Stopped: the admin only leaves.
GoesOn    == running
Stopped   == 0

Stop(k) ==
    /\ ClientGoes(k, "stop", "close") /\ running' = Stopped
    /\ UNCHANGED <<clients_mutex, client_count>>

Close(k) ==
    /\ ~IsCancelled(k) /\ ClientGoes(k, "close", "lock2")
    /\ UNCHANGED <<running, clients_mutex, client_count>>

CountDown(k) ==
    /\ ClientGoes(k, "count", "unlock") /\ client_count' = client_count - 1
    /\ UNCHANGED <<running, clients_mutex>>

\* The thread ends where it is; at "print" it holds the mutex.
Cancelled(k) ==
    /\ IsCancelled(k)
    /\ \E at \in {"read", "print", "close"} : ClientGoes(k, at, "cancelled")
    /\ UNCHANGED <<running, clients_mutex, client_count>>

-----------------------------------------------------------------------------
(* main. *)

MainFrame == UNCHANGED <<backlog, running, clients_mutex, table, accepted, cpc>>
MainGoes(from, to) == mpc = from /\ mpc' = to

StartListener == MainGoes("start", "spin") /\ lpc' = "check" /\ UNCHANGED slot

\* socket, bind, listen or pthread_create fails.
StartFails == MainGoes("start", "failed") /\ UNCHANGED <<lpc, slot>>

\* The loop without a body ends, and the listener is cancelled.
CancelListener == running = 0 /\ MainGoes("spin", "join_listener") /\ UNCHANGED <<lpc, slot>>

JoinListener == lpc = "done" /\ MainGoes("join_listener", "loop") /\ UNCHANGED <<lpc, slot>>

\* i < client_count, read without the mutex in every iteration; close the socket.
CloseSocket == /\ MainGoes("loop", IF slot < client_count THEN "cancel" ELSE "exit")
               /\ UNCHANGED <<lpc, slot>>

CancelClient == MainGoes("cancel", "join") /\ UNCHANGED <<lpc, slot>>

\* The slot names a thread that has not been joined.
Joinable == /\ client_threads[slot] \in Clients
            /\ \A s \in 0..(slot - 1) : client_threads[s] # client_threads[slot]

JoinClient ==
    /\ MainGoes("join", "loop") /\ Joinable
    /\ cpc[client_threads[slot]] \in {"done", "cancelled"}
    /\ slot' = slot + 1 /\ UNCHANGED lpc

\* pthread_cancel and pthread_join of what is no thread, or no more: the program crashes,
\* surely if the pthread_t is still 0, or nothing happens.
JoinNobody ==
    /\ mpc = "join" /\ ~Joinable /\ UNCHANGED lpc
    /\ \/ mpc' = "failed" /\ UNCHANGED slot
       \/ client_threads[slot] # Nobody /\ mpc' = "loop" /\ slot' = slot + 1

-----------------------------------------------------------------------------
MainStep == /\ MainFrame
            /\ \/ StartListener \/ CancelListener \/ JoinListener
               \/ CloseSocket \/ CancelClient \/ JoinClient \/ JoinNobody

ListenerStep ==
    /\ Alive /\ ListenerFrame
    /\ \/ CheckRunning \/ Accept \/ ListenerLocks \/ TestCapacity \/ Refuse
       \/ ReadUsername \/ Insert \/ ListenerUnlocks \/ ListenerCancelled

ClientStep(k) ==
    /\ Alive /\ ClientFrame
    /\ \/ Lock(k) \/ Unlock(k) \/ Stop(k) \/ Close(k) \/ CountDown(k) \/ Cancelled(k)

Failure == \/ MainFrame /\ StartFails
           \/ Alive /\ ListenerFrame /\ (AcceptFails \/ InsertFails)

ChatNext == \/ MainStep \/ ListenerStep \/ Failure \/ Interrupt
            \/ \E k \in Clients : \/ Connect(k) \/ ClientStep(k)
                                  \/ Alive /\ ClientFrame /\ (Read(k) \/ ReadFails(k))

(***************************************************************************)
(* The threads are scheduled and get clients_mutex when it is free again   *)
(* and again.  No client has to connect or say anything, but one that      *)
(* connects sends its username.                                            *)
(***************************************************************************)
ChatFairness == /\ WF_chat_vars(MainStep) /\ WF_chat_vars(ListenerStep)
                /\ SF_chat_vars(Alive /\ ListenerFrame /\ ListenerLocks)
                /\ \A k \in Clients : /\ WF_chat_vars(ClientStep(k))
                                      /\ SF_chat_vars(Alive /\ ClientFrame /\ Lock(k))

ChatSpec == ChatInit /\ [][ChatNext]_chat_vars /\ ChatFairness

-----------------------------------------------------------------------------
(* Properties. *)

\* Every variable has its type: the globals of server.c and the threads' locals.
ChatTypeOK ==
    /\ backlog \subseteq Clients
    /\ running \in {0, 1}
    /\ clients_mutex \in Clients \cup {Listener, Nobody}
    /\ client_count \in 0..MAX_CONNECTIONS
    /\ client_threads \in [Slots -> Clients \cup {Nobody, Stale}]
    /\ client_sockets \in [Slots -> Clients \cup {Nobody}]
    /\ lpc \in {"none", "check", "accept", "lock", "cap", "refuse", "username",
                "lock2", "insert", "print", "done"}
    /\ accepted \in Clients \cup {Nobody}
    /\ cpc \in [Clients -> {"none", "read", "lock", "print", "stop", "close", "lock2",
                           "count", "unlock", "done", "cancelled", "failed"}]
    /\ mpc \in {"start", "spin", "join_listener", "loop", "cancel", "join", "exit", "failed"}
    /\ slot \in 0..MAX_CONNECTIONS

\* client_count counts the clients that were let in and have not been counted out.  That
\* is more than the threads there are: those that were cancelled never count themselves
\* out, nor do those that could not be created (server.c:58-60, 104-109).
Counted == {k \in Clients : cpc[k] \notin {"none", "unlock", "done"}}
CountIsExact == client_count = Cardinality(Counted)

\* A client is never put behind the end of client_threads, although between the
\* test of the capacity and the insertion the mutex is free (server.c:80-86, 104-107).
SlotInBounds == lpc = "insert" => client_count \in Slots

\* The slots main goes through name as many threads as there are slots, but for one for
\* each thread that could not be created: although slots are given out by a count that
\* shrinks when any client leaves, no other slot is empty or names a thread that another
\* one names, and is joined twice (server.c:105-107, 181-185).
NoThread == {k \in Clients : cpc[k] = "failed"}
InSlots  == {client_threads[s] : s \in 0..(client_count - 1)} \cap Clients
SlotsAreThreads == client_count <= Cardinality(InSlots) + Cardinality(NoThread)

\* clients_mutex is held by whoever is between lock and unlock, and by nobody else
\* but a thread that was cancelled there (server.c:46-48, 58-60, 80-86, 104-109).
MutexOwner ==
    /\ lpc \in {"cap", "insert", "print"} => clients_mutex = Listener
    /\ \A k \in Clients : cpc[k] \in {"print", "count", "unlock"} => clients_mutex = k
    /\ clients_mutex = Listener => lpc \in {"cap", "insert", "print", "done"}
    /\ \A k \in Clients :
          clients_mutex = k => cpc[k] \in {"print", "count", "unlock", "cancelled"}

\* An admin's /shutdown stops the server, whoever else is using clients_mutex
\* (server.c:43-51).
AdminStops == \A k \in Admins : (cpc[k] = "lock") ~> (running = 0)

\* "The server waits until the listener thread and all client threads have
\* terminated, cleans up and exits" (exercise09/README.md:25).  A thread that has
\* counted itself out is taken for terminated.
AllTerminatedAtExit ==
    mpc = "exit" => \A k \in Clients : 
          cpc[k] \in {"none", "unlock", "done", "cancelled", "failed"}

\* "It then waits for all remaining clients to disconnect, cleans up and exits"
\* (exercise09/README.md:38): once running is 0 the server does exit.
ShutdownEnds == (running = 0) ~> ~Alive
=============================================================================
