------------------------------ MODULE CondChat ------------------------------
(***************************************************************************)
(* trys/exercise9_hetzenauer: the chat server of another author, in which  *)
(* the listener hands connections to the main thread with a condition      *)
(* variable.  The three tasks differ in what is sent to whom; task 1 sends *)
(* nothing.  The text of messages and their receivers are left out.        *)
(***************************************************************************)
EXTENDS Integers

CONSTANTS ChatClients, CLIENT_NUM,
          None,           \* 0 in a slot, and no thread
          Junk            \* another number in a slot, that is no open descriptor

ASSUME CondChatAssumption == /\ CLIENT_NUM \in Nat \ {0} /\ None # Junk
                             /\ None \notin ChatClients /\ Junk \notin ChatClients

VARIABLES sd, active_clients,
          mutex,          \* who has locked it last
          cfd,            \* the client of each slot
          conn,           \* each client's connection
          lpc, li,        \* the listener and its i
          cancelled,      \* pthread_cancel has been called
          main, mi,       \* main and its i
          thread,         \* where the thread of each slot is
          counted,        \* active_clients as a thread has read it
          shuts           \* whether its last message is /shutdown

shared == <<sd, active_clients, mutex, cfd, conn, cancelled>>
chat_vars   == <<shared, lpc, li, main, mi, thread, counted, shuts>>

Slots == 0..(CLIENT_NUM - 1)

\* malloc does not clear cfd.
CondChatInit ==
    /\ sd = 0 /\ active_clients = 0 /\ mutex = None
    /\ cfd \in [Slots -> {None, Junk}] /\ conn = [k \in ChatClients |-> "out"]
    /\ lpc = "lock" /\ li = 0 /\ cancelled = FALSE /\ main = "lock" /\ mi = 0
    /\ thread = [s \in Slots |-> "none"] /\ counted = [s \in Slots |-> 0]
    /\ shuts = [s \in Slots |-> FALSE]

Alive == main \notin {"exit", "dead"}

Dies == main' = "dead" /\ UNCHANGED <<shared, lpc, li, mi, thread, counted, shuts>>

-----------------------------------------------------------------------------
(* The clients: they connect, and may vanish without a /quit. *)

Client(k) == /\ \/ conn[k] = "out" /\ conn' = [conn EXCEPT ![k] = "backlog"]
                \/ conn[k] = "open" /\ conn' = [conn EXCEPT ![k] = "gone"]
             /\ UNCHANGED <<sd, active_clients, mutex, cfd, cancelled, lpc, li, main, mi,
                            thread, counted, shuts>>

-----------------------------------------------------------------------------
(* The listener.  It waits for a connection with the mutex locked. *)

ListenerGoes(from, to) == /\ lpc = from /\ lpc' = to
                          /\ UNCHANGED <<sd, active_clients, cancelled, mi, thread,
                                         counted, shuts>>

ListenerLocks == /\ ListenerGoes("lock", "accept")
                 /\ mutex = None /\ mutex' = "listener" /\ UNCHANGED <<cfd, conn, li, main>>

Accept == /\ ListenerGoes("accept", "signal") /\ ~cancelled
          /\ \E k \in ChatClients : /\ conn[k] = "backlog"
                                    /\ conn' = [conn EXCEPT ![k] = "open"]
                                    /\ cfd' = [cfd EXCEPT ![li] = k]
          /\ UNCHANGED <<mutex, li, main>>

AcceptFails == lpc = "accept" /\ Dies

Signal == main' = IF main = "wait" THEN "lock" ELSE main

\* pop(1) runs cleanup_handler, which signals and unlocks; the listener then does
\* both again, and unlocks the mutex whoever has locked it meanwhile.
Signals == /\ ListenerGoes("signal", "unlock") \/ ListenerGoes("signal2", "unlock2")
           /\ Signal /\ UNCHANGED <<mutex, cfd, conn, li>>

ListenerUnlocks ==
    /\ ListenerGoes("unlock", "signal2") \/ ListenerGoes("unlock2", "sleep")
    /\ mutex' = None /\ UNCHANGED <<cfd, conn, li, main>>

Sleep == /\ ~cancelled /\ li' = li + 1
         /\ ListenerGoes("sleep", IF li + 1 = CLIENT_NUM THEN "end" ELSE "lock")
         /\ UNCHANGED <<mutex, cfd, conn, main>>

\* accept and sleep are the cancellation points; only in accept is there a handler.
IsCancelled == /\ cancelled
               /\ \/ ListenerGoes("accept", "handler") /\ Signal /\ UNCHANGED mutex
                  \/ ListenerGoes("handler", "end") /\ mutex' = None /\ UNCHANGED main
                  \/ ListenerGoes("sleep", "end") /\ UNCHANGED <<mutex, main>>
               /\ UNCHANGED <<cfd, conn, li>>

-----------------------------------------------------------------------------
(* The main thread. *)

MainMoves(from, to) == /\ main = from /\ main' = to
                       /\ UNCHANGED <<active_clients, cfd, conn, cancelled, lpc, li, counted,
                                      shuts>>

MainLocks == /\ MainMoves("lock", "test") /\ mutex = None /\ mutex' = "main"
             /\ UNCHANGED <<sd, mi, thread>>

\* Mutant of NothingYet: the condition is not tested again after a wakeup.
NeverTested == FALSE
NothingYet == cfd[mi] = None /\ sd = 0

\* Mutant of SlotsServed: one too many.
OneMoreSlot == mi + 1
SlotsServed == mi

\* With sd = 1 main leaves its loop, with the mutex locked.
Test == /\ main = "test"
        /\ \/ NothingYet /\ MainMoves("test", "will_wait") /\ UNCHANGED sd
           \/ ~NothingYet /\ sd = 1 /\ MainMoves("test", "join_listener") /\ sd' = SlotsServed
           \/ ~NothingYet /\ sd # 1 /\ MainMoves("test", "create") /\ UNCHANGED sd
        /\ UNCHANGED <<mutex, mi, thread>>

\* pthread_cond_wait, which may also come back without a signal.
CondWait == /\ \/ MainMoves("will_wait", "wait") /\ mutex' = None
               \/ MainMoves("wait", "lock") /\ UNCHANGED mutex
            /\ UNCHANGED <<sd, mi, thread>>

CreateClient == /\ MainMoves("create", "unlock")
                /\ thread' = [thread EXCEPT ![mi] = "start"] /\ UNCHANGED <<sd, mutex, mi>>

CreateFails == main = "create" /\ Dies

MainUnlocks == /\ MainMoves("unlock", IF mi + 1 = CLIENT_NUM THEN "join_listener" ELSE "lock")
               /\ mutex' = None /\ mi' = mi + 1 /\ UNCHANGED <<sd, thread>>

JoinListener == /\ MainMoves("join_listener", "join") /\ lpc = "end"
                /\ mi' = 0 /\ UNCHANGED <<sd, mutex, thread>>

\* sd is read in every iteration.
JoinClient == \/ /\ MainMoves("join", "join") /\ mi < sd /\ thread[mi] = "end"
                 /\ mi' = mi + 1 /\ UNCHANGED <<sd, mutex, thread>>
              \/ /\ MainMoves("join", "exit") /\ mi >= sd /\ UNCHANGED <<sd, mutex, mi, thread>>

-----------------------------------------------------------------------------
(* The thread of slot s. *)

ThreadGoes(s, from, to) == /\ thread[s] = from /\ thread' = [thread EXCEPT ![s] = to]
                           /\ UNCHANGED <<mutex, lpc, li, main, mi>>

\* active_clients++ and active_clients-- are a load and a store each.
LoadCount(s) == /\ ThreadGoes(s, "start", "started") \/ ThreadGoes(s, "leave", "left")
                /\ counted' = [counted EXCEPT ![s] = active_clients]
                /\ UNCHANGED <<sd, active_clients, cfd, conn, cancelled, shuts>>

StoreCount(s) == /\ \/ ThreadGoes(s, "started", "name") /\ active_clients' = counted[s] + 1
                    \/ ThreadGoes(s, "left", "close") /\ active_clients' = counted[s] - 1
                 /\ UNCHANGED <<sd, cfd, conn, cancelled, counted, shuts>>

\* The end of the connection is not noticed here, nor in the loop.
ReadName(s) == /\ ThreadGoes(s, "name", "read") /\ cfd[s] \in ChatClients
               /\ UNCHANGED <<sd, active_clients, cfd, conn, cancelled, counted, shuts>>

\* Of a number that is no descriptor it always does.
ReadFails(s) == thread[s] \in {"name", "read"} /\ Dies

\* Other messages, and the empty ones that are read after the end, change nothing.
ReadLast(s) == /\ ThreadGoes(s, "read", "leave") /\ conn[cfd[s]] = "open"
               /\ \E b \in BOOLEAN : shuts' = [shuts EXCEPT ![s] = b]
               /\ UNCHANGED <<sd, active_clients, cfd, conn, cancelled, counted>>

\* A message is written to a client that has vanished: SIGPIPE.
Broadcast(s) == /\ thread[s] = "read"
                /\ \E t \in Slots \ {s} : cfd[t] \in ChatClients /\ conn[cfd[t]] = "gone"
                /\ Dies

Close(s) == /\ ThreadGoes(s, "close", IF shuts[s] THEN "shutdown" ELSE "end")
            /\ conn' = [conn EXCEPT ![cfd[s]] = "closed"] /\ cfd' = [cfd EXCEPT ![s] = None]
            /\ UNCHANGED <<sd, active_clients, cancelled, counted, shuts>>

Shutdown(s) == /\ \/ ThreadGoes(s, "shutdown", "cancel") /\ sd' = 1 /\ UNCHANGED cancelled
                  \/ ThreadGoes(s, "cancel", "end") /\ cancelled' = TRUE /\ UNCHANGED sd
               /\ UNCHANGED <<active_clients, cfd, conn, counted, shuts>>

-----------------------------------------------------------------------------
ListenerStep == \/ ListenerLocks \/ Accept \/ AcceptFails \/ Signals
                \/ ListenerUnlocks \/ Sleep \/ IsCancelled

MainThread == \/ MainLocks \/ Test \/ CondWait \/ CreateClient \/ CreateFails
              \/ MainUnlocks \/ JoinListener \/ JoinClient

ClientThread(s) == \/ LoadCount(s) \/ StoreCount(s) \/ ReadName(s) \/ ReadFails(s)
                   \/ ReadLast(s) \/ Broadcast(s) \/ Close(s) \/ Shutdown(s)

CondChatNext ==
    /\ Alive
    /\ \/ ListenerStep \/ MainThread \/ \E s \in Slots : ClientThread(s)
       \/ \E k \in ChatClients : Client(k)

CondChatSpec == CondChatInit /\ [][CondChatNext]_chat_vars

-----------------------------------------------------------------------------
(* Properties. *)

\* Whatever two clients write to sd at once with /shutdown, main joins no slot for
\* which it has not created a thread (server.c:224, 240 of task 3).
JoinsCreated == main = "join" /\ mi < sd => mi \in Slots /\ thread[mi] # "none"

\* The slot of a thread is not 0 until the thread has closed its connection, and holds a
\* connection that no other slot has, at the latest when the thread has read the name:
\* although main may wake up for nothing, or find a slot that the listener has not filled
\* and that is not 0; although the mutex does not keep the listener away from main, and
\* slots are set to 0 again (lines 111, 119, 168, 220).
OwnConnection ==
    \A s \in Slots :
      /\ thread[s] \in {"start", "started", "name"} => cfd[s] # None
      /\ thread[s] \in {"read", "leave", "left", "close"} => cfd[s] \in ChatClients
      /\ cfd[s] \in ChatClients => \A t \in Slots \ {s} : cfd[t] # cfd[s]

\* "The server waits until the listener thread and all client threads have
\* terminated" (exercise09/README.md:25).
WaitsForClients == main = "exit" => \A s \in Slots : thread[s] \in {"none", "end"}
=============================================================================
