----------------------------- MODULE HttpServer -----------------------------
(***************************************************************************)
(* exercise08/task3/server.c: the HTTP donation server.  The main thread   *)
(* accepts connections and pushes them into a queue; n request handlers    *)
(* pop and answer them; a POISON_PILL in the queue stops one handler.      *)
(*                                                                         *)
(* A connection is the client that made it.  What a client sends is the    *)
(* branch of handle_client it selects: GET /, POST /donate with or without *)
(* ("nobody") a length and a body, POST /shutdown, an "other" request      *)
(* line, none at all ("empty"), or a read that fails ("broken").           *)
(***************************************************************************)
EXTENDS Integers, Sequences, FiniteSets

CONSTANTS n,         \* the number of request handlers
          Clients,   \* the connections that may be made
          POISON_PILL,
          NoClient   \* no connection

ASSUME HttpServerAssumption ==
    /\ n \in Nat \ {0}
    /\ POISON_PILL \notin Clients /\ NoClient \notin Clients \cup {POISON_PILL}

Handlers == 1..n
Main     == 0
Free     == -1
Requests == {"get", "donate", "nobody", "shutdown", "other", "empty", "broken"}

VARIABLES
    cstate,       \* how far the server has got with a client's connection
    reply,        \* the response a client has got ...
    balance,      \* ... and the donations the balance in it counts
    mutex_queue, queue, mutex_donation,
    donations,    \* the clients whose donation has been added
    running,
    mpc,
    accepted,     \* main's client_socket, until it has pushed it
    pc, socket,   \* a handler's client_socket
    line          \* method and path, on the stack of handle_client

client_vars  == <<cstate, reply, balance>>
shared       == <<mutex_queue, queue, mutex_donation, donations, running>>
main_vars    == <<mpc, accepted>>
handler_vars == <<pc, socket, line>>
vars == <<client_vars, shared, main_vars, handler_vars>>

Alive   == mpc \notin {"failed", "exit"}
Waiting == {h \in Handlers : pc[h] = "wait"}

Init == /\ cstate = [k \in Clients |-> "away"]
        /\ reply = [k \in Clients |-> "none"] /\ balance = [k \in Clients |-> {}]
        /\ mutex_queue = Free /\ queue = <<>> /\ mutex_donation = Free /\ donations = {}
        /\ running = 1 /\ mpc = "spawn" /\ accepted = NoClient
        /\ pc = [h \in Handlers |-> "new"] /\ socket = [h \in Handlers |-> NoClient]
        /\ line = [h \in Handlers |-> "other"]

\* The socket listens from listen() until main returns.
Connect(k) ==
    /\ mpc \notin {"spawn", "setup"} /\ Alive /\ cstate[k] = "away"
    /\ cstate' = [cstate EXCEPT ![k] = "backlog"]
    /\ UNCHANGED <<reply, balance, shared, main_vars, handler_vars>>

-----------------------------------------------------------------------------
(* The main thread.  None of its steps touches what MainFrame lists. *)

MainFrame == UNCHANGED <<reply, balance, mutex_donation, donations, running, socket, line>>
MainGoes(from, to) == mpc = from /\ mpc' = to

SpawnThread ==
    \E h \in Handlers :
        /\ pc[h] = "new" /\ \A g \in 1..(h - 1) : pc[g] # "new"
        /\ pc' = [pc EXCEPT ![h] = "lock"]
        /\ MainGoes("spawn", IF h = n THEN "setup" ELSE "spawn")
        /\ UNCHANGED <<cstate, mutex_queue, queue, accepted>>

\* pthread_create, socket, bind, listen or accept fails, or accept is interrupted (EINTR).
MainMoves ==
    /\ \/ MainGoes("spawn", "failed") \/ MainGoes("setup", "failed")
       \/ MainGoes("accept", "failed") \/ MainGoes("accept", "lock_pills")
    /\ UNCHANGED <<cstate, mutex_queue, queue, accepted, pc>>

\* listen(); then while (running): any value but 0 goes on.
CheckRunning ==
    /\ \/ MainGoes("setup", "check")
       \/ MainGoes("check", IF running # 0 THEN "accept" ELSE "lock_pills")
    /\ UNCHANGED <<cstate, mutex_queue, queue, accepted, pc>>

Accept ==
    /\ MainGoes("accept", "lock")
    /\ \E k \in Clients : /\ cstate[k] = "backlog"
                          /\ cstate' = [cstate EXCEPT ![k] = "accepted"]
                          /\ accepted' = k
    /\ UNCHANGED <<mutex_queue, queue, pc>>

MainLocks ==
    /\ MainGoes("lock", "push") \/ MainGoes("lock_pills", "pills")
    /\ mutex_queue = Free /\ mutex_queue' = Main
    /\ UNCHANGED <<cstate, queue, accepted, pc>>

WakeUp(W) == pc' = [h \in Handlers |-> IF h \in W THEN "wake" ELSE pc[h]]

\* Mutants: no signal is made, and client_socket is reset before it is pushed.
NoSignal(W)   == W = {}
EntryTooLate  == NoClient

\* pthread_cond_signal unblocks at least one waiter, if there is one.
Signalled(W) == Waiting # {} => W # {}
Entry        == accepted

Push ==
    /\ MainGoes("push", "unlock") /\ queue' = Append(queue, Entry)
    /\ \E W \in SUBSET Waiting : Signalled(W) /\ WakeUp(W)
    /\ accepted' = NoClient /\ UNCHANGED <<cstate, mutex_queue>>

\* Mutant of Pills: one too few.
OnePillLess == [j \in 1..(n - 1) |-> POISON_PILL]

Pills == [j \in 1..n |-> POISON_PILL]

\* All n pills, then the broadcast.
PushPills ==
    /\ MainGoes("pills", "unlock_pills") /\ queue' = queue \o Pills /\ WakeUp(Waiting)
    /\ UNCHANGED <<cstate, mutex_queue, accepted>>

MainUnlocks ==
    /\ MainGoes("unlock", "check") \/ MainGoes("unlock_pills", "join")
    /\ mutex_queue' = Free /\ UNCHANGED <<cstate, queue, accepted, pc>>

Join ==
    /\ MainGoes("join", "exit")
    /\ \A h \in Handlers : pc[h] = "done"
    /\ UNCHANGED <<cstate, mutex_queue, queue, accepted, pc>>

-----------------------------------------------------------------------------
(* thread_func. *)

Goes(h, from, to) == pc[h] = from /\ pc' = [pc EXCEPT ![h] = to]

QueueFrame == UNCHANGED <<client_vars, mutex_donation, donations, running, line, main_vars>>

LockQueue(h) ==
    /\ Goes(h, "lock", "test") \/ Goes(h, "wake", "test")
    /\ mutex_queue = Free /\ mutex_queue' = h /\ UNCHANGED <<queue, socket>>

CondWait(h) ==
    /\ queue = <<>> /\ Goes(h, "test", "wait") /\ mutex_queue' = Free
    /\ UNCHANGED <<queue, socket>>

SpuriousWakeup(h) == Goes(h, "wait", "wake") /\ UNCHANGED <<mutex_queue, queue, socket>>

\* Mutant of Popped: the entry stays in the queue.
EntryStays == queue

Popped == Tail(queue)

Pop(h) ==
    /\ queue # <<>> /\ Goes(h, "test", "unlock")
    /\ socket' = [socket EXCEPT ![h] = Head(queue)] /\ queue' = Popped
    /\ UNCHANGED mutex_queue

UnlockQueue(h) ==
    /\ Goes(h, "unlock", IF socket[h] = POISON_PILL THEN "done" ELSE "read")
    /\ mutex_queue' = Free /\ UNCHANGED <<queue, socket>>

-----------------------------------------------------------------------------
(* handle_client. *)

ClientFrame == UNCHANGED <<mutex_queue, queue, main_vars>>

\* Without a body in the buffer, which is this connection's, POST /donate gets no
\* response.
Branch(method_path, sent) ==
    CASE method_path = "shutdown" -> "sub"
      [] method_path \in {"donate", "nobody"} ->
            IF sent = "donate" THEN "lock_donation" ELSE "close"
      [] OTHER -> "respond"

\* read, usleep and sscanf.  When sscanf finds no request line, method and path
\* are not written: they are what the last request of this thread left on the
\* stack, or something that is no request.
Read(h) ==
    /\ \E sent \in Requests :
         \E l \in IF sent = "empty" THEN {line[h], "other"}
                  ELSE IF sent = "broken" THEN {line[h]} ELSE {sent} :
            /\ Goes(h, "read", IF sent = "broken" THEN "close" ELSE Branch(l, sent))
            /\ line' = [line EXCEPT ![h] = l]
    /\ UNCHANGED <<client_vars, mutex_donation, donations, running, socket>>

FetchSub(h) ==
    /\ Goes(h, "sub", "respond") /\ running' = running - 1
    /\ UNCHANGED <<client_vars, mutex_donation, donations, socket, line>>

LockDonation(h) ==
    /\ Goes(h, "lock_donation", "add") /\ mutex_donation = Free /\ mutex_donation' = h
    /\ UNCHANGED <<client_vars, donations, running, socket, line>>

\* Mutant of Added: = for +=.
Overwritten(h) == {socket[h]}

Added(h) == donations \cup {socket[h]}

AddDonation(h) ==
    /\ Goes(h, "add", "unlock_donation") /\ donations' = Added(h)
    /\ UNCHANGED <<client_vars, mutex_donation, running, socket, line>>

UnlockDonation(h) ==
    /\ Goes(h, "unlock_donation", "thank") /\ mutex_donation' = Free
    /\ UNCHANGED <<client_vars, donations, running, socket, line>>

\* *donations is read again here, without the mutex.
Thank(h) ==
    /\ Goes(h, "thank", "close") /\ reply' = [reply EXCEPT ![socket[h]] = "thanks"]
    /\ balance' = [balance EXCEPT ![socket[h]] = donations]
    /\ UNCHANGED <<cstate, mutex_donation, donations, running, socket, line>>

Respond(h) ==
    /\ Goes(h, "respond", "close")
    /\ reply' = [reply EXCEPT ![socket[h]] = CASE line[h] = "get" -> "welcome"
                                               [] line[h] = "shutdown" -> "ok"
                                               [] OTHER -> "not implemented"]
    /\ UNCHANGED <<cstate, balance, mutex_donation, donations, running, socket, line>>

Close(h) ==
    /\ Goes(h, "close", "lock") /\ cstate' = [cstate EXCEPT ![socket[h]] = "closed"]
    /\ socket' = [socket EXCEPT ![h] = NoClient]
    /\ UNCHANGED <<reply, balance, mutex_donation, donations, running, line>>

\* The client has reset the connection: the write raises SIGPIPE, which nobody
\* handles, and the process is gone.
BrokenPipe(h) ==
    /\ Alive /\ pc[h] \in {"thank", "respond"} /\ mpc' = "failed"
    /\ UNCHANGED <<client_vars, shared, accepted, handler_vars>>

-----------------------------------------------------------------------------
MainStep == /\ MainFrame
            /\ \/ SpawnThread \/ CheckRunning \/ Accept \/ MainLocks
               \/ Push \/ PushPills \/ MainUnlocks \/ Join

Locking(h) == Alive /\ QueueFrame /\ LockQueue(h)

Step(h) ==
    /\ Alive
    /\ \/ QueueFrame /\ (CondWait(h) \/ Pop(h) \/ UnlockQueue(h))
       \/ ClientFrame /\ (\/ Read(h) \/ FetchSub(h) \/ LockDonation(h) \/ AddDonation(h)
                          \/ UnlockDonation(h) \/ Thank(h) \/ Respond(h) \/ Close(h))

Next == \/ MainStep
        \/ MainFrame /\ MainMoves
        \/ \E k \in Clients : Connect(k)
        \/ \E h \in Handlers : \/ Locking(h) \/ Step(h) \/ BrokenPipe(h)
                               \/ Alive /\ QueueFrame /\ SpuriousWakeup(h)

(***************************************************************************)
(* Every thread is scheduled and gets a mutex that is free again and again *)
(* (of mutex_donation weak fairness is enough: its users do not return to  *)
(* it without reading another request).  A client sends its request or     *)
(* closes, so read returns.  Nobody has to connect, nothing has to fail.   *)
(***************************************************************************)
Fairness == /\ WF_vars(MainStep) /\ SF_vars(MainFrame /\ MainLocks)
            /\ \A h \in Handlers : WF_vars(Step(h)) /\ SF_vars(Locking(h))

Spec == Init /\ [][Next]_vars /\ Fairness

-----------------------------------------------------------------------------
(* Properties. *)

MainPcs    == {"spawn", "setup", "check", "accept", "lock", "push", "unlock",
               "lock_pills", "pills", "unlock_pills", "join", "exit", "failed"}
HandlerPcs == {"new", "lock", "test", "wait", "wake", "unlock", "read", "sub",
               "lock_donation", "add", "unlock_donation", "thank", "respond", "close", "done"}

\* Every variable has its type: the shared variables of main and the locals of
\* its threads.
TypeOK ==
    /\ cstate \in [Clients -> {"away", "backlog", "accepted", "closed"}]
    /\ reply \in [Clients -> {"none", "welcome", "thanks", "ok", "not implemented"}]
    /\ balance \in [Clients -> SUBSET Clients]
    /\ mutex_queue \in Handlers \cup {Main, Free} /\ mutex_donation \in Handlers \cup {Free}
    /\ queue \in Seq(Clients \cup {POISON_PILL})
    /\ donations \subseteq Clients
    /\ running \in Int
    /\ mpc \in MainPcs
    /\ accepted \in Clients \cup {NoClient}
    /\ pc \in [Handlers -> HandlerPcs]
    /\ socket \in [Handlers -> Clients \cup {POISON_PILL, NoClient}]
    /\ line \in [Handlers -> Requests]

\* No connection is lost or handed out twice: one that has been accepted and is
\* not closed is in exactly one place, with main, in the queue or with one
\* handler (server.c:94, 106, 142, 218).
OneHolder ==
    \A k \in Clients : cstate[k] = "accepted" =>
        Cardinality({i \in DOMAIN queue : queue[i] = k})
          + Cardinality({h \in Handlers : socket[h] = k})
          + (IF accepted = k THEN 1 ELSE 0) = 1

\* The balance in a response counts the donation it thanks for, and no two responses
\* contradict each other: of two balances one is contained in the other
\* (server.c:192-203, the read at 203 is unlocked).
BalancesAgree ==
    \A k, l \in {x \in Clients : reply[x] = "thanks"} :
        /\ k \in balance[k]
        /\ balance[k] \subseteq balance[l] \/ balance[l] \subseteq balance[k]

\* A connection that has been accepted is answered and closed, unless the process
\* gives up (server.c:103-109 hands it over, 139-151 takes it).
Served == \A k \in Clients :
            cstate[k] = "accepted" ~> (cstate[k] = "closed" \/ mpc = "failed")

\* Once main has left its loop it joins every handler and returns, unless a write to
\* a client that has gone kills the process (server.c:111-132).
Drains == (mpc = "lock_pills") ~> ~Alive

\* "When a POST /shutdown request is received, the listener thread is terminated"
\* (exercise08/README.md:125).  A main thread that does get back to while (running)
\* (server.c:93) after a shutdown has been answered does not accept again.
NoAcceptAfterShutdown ==
    [][mpc = "check" /\ (\E k \in Clients : reply[k] = "ok") => mpc' # "accept"]_vars
=============================================================================
