-------------------------- MODULE HttpServer_proofs --------------------------
(***************************************************************************)
(* The theorems about the servers of exercise08.  HttpServer (task3), for  *)
(* any number of request handlers and of clients: types, that a connection *)
(* is always in exactly one place, and that the balances sent out agree.   *)
(* DonationServer (task2), for any clients: how far the lines that are     *)
(* added may differ from the lines that were entered.                      *)
(***************************************************************************)
EXTENDS HttpServer, DonationServer, FiniteSetTheorems, SequenceTheorems, TLAPS

USE HttpServerAssumption DEF Signalled, Entry, Popped, Added

-----------------------------------------------------------------------------
(* The inductive invariant. *)

Idle == {"new", "lock", "test", "wait", "wake"}
Busy == {"read", "sub", "lock_donation", "add", "unlock_donation", "thank", "respond", "close"}

\* client_socket, of a handler and of main, is a connection where it is used.
Sockets == /\ \A h \in Handlers : /\ pc[h] \in Idle => socket[h] = NoClient
                                  /\ pc[h] = "unlock" => socket[h] # NoClient
                                  /\ pc[h] \in Busy => socket[h] \in Clients
                                  /\ pc[h] = "done" => socket[h] = POISON_PILL
           /\ mpc \in {"lock", "push"} => accepted \in Clients
           /\ mpc \notin {"lock", "push", "failed"} => accepted = NoClient

\* The places where a connection is: main has it, an entry of the queue, a handler.
WithMain(k)       == accepted = k
InEntry(k, i)     == i \in DOMAIN queue /\ queue[i] = k
WithHandler(k, h) == h \in Handlers /\ socket[h] = k
Somewhere(k)      == WithMain(k) \/ (\E i : InEntry(k, i)) \/ \E h : WithHandler(k, h)

\* A connection that is accepted is somewhere, and nowhere else.
Places == \A k \in Clients :
            /\ cstate[k] = "accepted" <=> Somewhere(k)
            /\ \A i, j : InEntry(k, i) /\ InEntry(k, j) => i = j
            /\ \A g, h : WithHandler(k, g) /\ WithHandler(k, h) => g = h
            /\ \A i, h : ~(InEntry(k, i) /\ WithHandler(k, h))
            /\ WithMain(k) => \A i, h : ~InEntry(k, i) /\ ~WithHandler(k, h)

\* The donations only grow, and a handler thanks for what it has added.
Balances == /\ \A k \in Clients : balance[k] \subseteq donations
            /\ \A k, l \in Clients : balance[k] \subseteq balance[l] \/ balance[l] \subseteq balance[k]
            /\ \A k \in Clients : reply[k] = "thanks" => k \in balance[k]
            /\ \A h \in Handlers : pc[h] \in {"unlock_donation", "thank"} => socket[h] \in donations

IInv == TypeOK /\ Sockets /\ Places /\ Balances

LEMMA Initially == Init => IInv
<1> SUFFICES ASSUME Init PROVE IInv
  OBVIOUS
<1>1. TypeOK
  BY DEF Init, TypeOK, MainPcs, HandlerPcs, Requests
<1>2. Sockets
  BY DEF Init, Sockets, Idle, Busy
<1>3. Places
  BY DEF Init, Places, Somewhere, WithMain, InEntry, WithHandler
<1>4. Balances
  BY DEF Init, Balances
<1>5. QED
  BY <1>1, <1>2, <1>3, <1>4 DEF IInv

\* What moves no connection leaves them where they are.
LEMMA PlacesKept ==
    ASSUME Places, UNCHANGED <<cstate, accepted, queue, socket>>
    PROVE  Places'
BY DEF Places, Somewhere, WithMain, InEntry, WithHandler

\* What neither answers nor adds nor lets a handler pass the addition.
LEMMA BalancesKept ==
    ASSUME Balances, UNCHANGED <<reply, balance, donations>>,
           \A h \in Handlers : pc'[h] \in {"unlock_donation", "thank"} =>
                pc[h] \in {"unlock_donation", "thank"} /\ socket'[h] = socket[h]
    PROVE  Balances'
BY DEF Balances

-----------------------------------------------------------------------------
(* The steps of main, and those of the clients. *)

\* A client connects.
LEMMA ConnectStep == ASSUME IInv, NEW k \in Clients, Connect(k) PROVE IInv'
<1>1. TypeOK' /\ Sockets' /\ Balances'
  BY DEF IInv, Connect, TypeOK, Sockets, Balances, shared, main_vars, handler_vars
<1>2. Places'
  BY DEF IInv, Connect, TypeOK, Places, Somewhere, WithMain, InEntry, WithHandler, shared,
         main_vars, handler_vars
<1>3. QED
  BY <1>1, <1>2 DEF IInv

\* The steps of main that move no connection.
LEMMA MainSteps ==
    ASSUME IInv, MainFrame,
           SpawnThread \/ MainMoves \/ CheckRunning \/ MainLocks \/ MainUnlocks \/ Join
    PROVE  IInv'
<1>a. TypeOK /\ Sockets /\ Places /\ Balances
  BY DEF IInv
<1>1. UNCHANGED <<cstate, accepted, queue, socket, reply, balance, donations, line, running,
                  mutex_donation>>
  BY DEF MainFrame, SpawnThread, MainMoves, CheckRunning, MainLocks, MainUnlocks, Join
<1>2. mutex_queue' \in Handlers \cup {Main, Free}
  BY <1>a DEF SpawnThread, MainMoves, CheckRunning, MainLocks, MainUnlocks, Join, TypeOK
<1>3. /\ mpc' \in MainPcs
      /\ mpc' \in {"lock", "push"} => mpc = "lock"
      /\ mpc' \notin {"lock", "push", "failed"} => mpc \notin {"lock", "push", "failed"}
  BY <1>a DEF SpawnThread, MainMoves, CheckRunning, MainLocks, MainUnlocks, Join, MainGoes,
              TypeOK, MainPcs
<1>4. /\ pc' \in [Handlers -> HandlerPcs]
      /\ \A h \in Handlers : pc'[h] = pc[h] \/ (pc[h] = "new" /\ pc'[h] = "lock")
  BY <1>a DEF SpawnThread, MainMoves, CheckRunning, MainLocks, MainUnlocks, Join, TypeOK,
              HandlerPcs
<1>5. TypeOK'
  BY <1>a, <1>1, <1>2, <1>3, <1>4 DEF TypeOK
<1>6. Sockets'
  BY <1>a, <1>1, <1>3, <1>4 DEF Sockets, Idle, Busy
<1>7. Places'
  BY <1>a, <1>1, PlacesKept
<1>8. Balances'
  BY <1>a, <1>1, <1>4, BalancesKept
<1>9. QED
  BY <1>5, <1>6, <1>7, <1>8 DEF IInv

\* Waking handlers up only lets them go on from wait to wake.
LEMMA Woken ==
    ASSUME TypeOK, NEW W \in SUBSET Waiting, WakeUp(W)
    PROVE  /\ pc' \in [Handlers -> HandlerPcs]
           /\ \A h \in Handlers : pc'[h] = pc[h] \/ (pc[h] = "wait" /\ pc'[h] = "wake")
BY DEF TypeOK, WakeUp, Waiting, HandlerPcs

\* Main accepts a connection that was nowhere.
LEMMA AcceptStep == ASSUME IInv, MainFrame, Accept PROVE IInv'
<1>a. TypeOK /\ Sockets /\ Places /\ Balances
  BY DEF IInv
<1>1. PICK k \in Clients : /\ cstate[k] = "backlog" /\ accepted' = k
                           /\ cstate' = [cstate EXCEPT ![k] = "accepted"]
  BY DEF Accept
<1>2. /\ UNCHANGED <<mutex_queue, queue, pc, reply, balance, mutex_donation, donations,
                     running, socket, line>>
      /\ mpc = "accept" /\ mpc' = "lock" /\ accepted = NoClient
  BY <1>a DEF Accept, MainFrame, MainGoes, Sockets
<1>3. TypeOK' /\ Sockets' /\ Balances'
  BY <1>a, <1>1, <1>2 DEF TypeOK, Sockets, Balances, MainPcs
<1>4. Places'
  BY <1>a, <1>1, <1>2 DEF TypeOK, Places, Somewhere, WithMain, InEntry, WithHandler
<1>5. QED
  BY <1>3, <1>4 DEF IInv

\* Main hands its connection over to the queue.
LEMMA PushStep == ASSUME IInv, MainFrame, Push PROVE IInv'
<1>a. TypeOK /\ Sockets /\ Places /\ Balances
  BY DEF IInv
<1>1. /\ queue' = Append(queue, accepted) /\ accepted' = NoClient /\ accepted \in Clients
      /\ mpc = "push" /\ mpc' = "unlock"
      /\ UNCHANGED <<cstate, mutex_queue, reply, balance, mutex_donation, donations,
                     running, socket, line>>
  BY <1>a DEF Push, MainFrame, MainGoes, Sockets
<1>2. /\ pc' \in [Handlers -> HandlerPcs]
      /\ \A h \in Handlers : pc'[h] = pc[h] \/ (pc[h] = "wait" /\ pc'[h] = "wake")
  BY <1>a, Woken DEF Push
<1>b. /\ queue \in Seq(Clients \cup {POISON_PILL}) /\ accepted \in Clients \cup {POISON_PILL}
      /\ queue' \in Seq(Clients \cup {POISON_PILL})
  <2>1. queue \in Seq(Clients \cup {POISON_PILL}) /\ accepted \in Clients \cup {POISON_PILL}
    BY <1>a, <1>1 DEF TypeOK
  <2>2. QED
    BY <1>1, <2>1, AppendProperties
<1>3. TypeOK'
  BY <1>a, <1>b, <1>1, <1>2 DEF TypeOK, MainPcs
<1>4. Sockets'
  BY <1>a, <1>1, <1>2 DEF Sockets, Idle, Busy
<1>5. Balances'
  BY <1>a, <1>1, <1>2, BalancesKept
<1>6. Places'
  <2>1. \A k, i : InEntry(k, i)' <=> InEntry(k, i) \/ (i = Len(queue) + 1 /\ k = accepted)
    <3>1. /\ DOMAIN queue' = DOMAIN queue \cup {Len(queue) + 1} /\ queue'[Len(queue) + 1] = accepted
          /\ Len(queue) + 1 \notin DOMAIN queue /\ \A i \in DOMAIN queue : queue'[i] = queue[i]
      BY <1>b, <1>1
    <3>2. QED
      BY <3>1 DEF InEntry
  <2>2. \A k \in Clients : ~WithMain(k)'
    BY <1>1 DEF WithMain
  <2>3. \A k, h : WithHandler(k, h)' <=> WithHandler(k, h)
    BY <1>1 DEF WithHandler
  <2>4. \A k \in Clients : Somewhere(k)' <=> Somewhere(k)
    BY <2>1, <2>2, <2>3 DEF Somewhere, WithMain
  <2>5. cstate' = cstate /\ \A k : WithMain(k) <=> k = accepted
    BY <1>1 DEF WithMain
  <2>6. QED
    BY <1>a, <2>1, <2>2, <2>3, <2>4, <2>5 DEF Places
<1>7. QED
  BY <1>3, <1>4, <1>5, <1>6 DEF IInv

\* The pills are no connections.
LEMMA PushPillsStep == ASSUME IInv, MainFrame, PushPills PROVE IInv'
<1>a. TypeOK /\ Sockets /\ Places /\ Balances
  BY DEF IInv
<1>1. /\ queue' = queue \o Pills /\ mpc = "pills" /\ mpc' = "unlock_pills"
      /\ UNCHANGED <<cstate, mutex_queue, accepted, reply, balance, mutex_donation, donations,
                     running, socket, line>>
  BY DEF PushPills, MainFrame, MainGoes
<1>2. /\ pc' \in [Handlers -> HandlerPcs]
      /\ \A h \in Handlers : pc'[h] = pc[h] \/ (pc[h] = "wait" /\ pc'[h] = "wake")
  BY <1>a, Woken DEF PushPills
<1>b. Pills \in Seq(Clients \cup {POISON_PILL}) /\ Len(Pills) = n
  BY DEF Pills
<1>3. TypeOK'
  <2>1. queue' \in Seq(Clients \cup {POISON_PILL})
    <3>1. queue \in Seq(Clients \cup {POISON_PILL})
      BY <1>a DEF TypeOK
    <3>2. QED
      BY <1>1, <1>b, <3>1, ConcatProperties
  <2>2. QED
    BY <1>a, <1>1, <1>2, <2>1 DEF TypeOK, MainPcs
<1>4. Sockets'
  BY <1>a, <1>1, <1>2 DEF Sockets, Idle, Busy
<1>5. Balances'
  BY <1>a, <1>1, <1>2, BalancesKept
<1>6. Places'
  <2>1. ASSUME NEW k \in Clients, NEW i PROVE InEntry(k, i)' <=> InEntry(k, i)
    <3>1. queue \in Seq(Clients \cup {POISON_PILL}) /\ queue' = queue \o Pills
      BY <1>a, <1>1 DEF TypeOK
    <3>2. DOMAIN queue' = 1..(Len(queue) + n) /\ DOMAIN queue = 1..Len(queue)
      <4>1. queue' \in Seq(Clients \cup {POISON_PILL}) /\ Len(queue') = Len(queue) + n
        BY <3>1, <1>b, ConcatProperties
      <4>2. QED
        BY <3>1, <4>1
    <3>3. \A j \in 1..Len(queue) : queue'[j] = queue[j]
      BY <3>1, <1>b
    <3>4. ASSUME NEW j \in 1..(Len(queue) + n), j \notin 1..Len(queue) PROVE queue'[j] = POISON_PILL
      <4>1. j - Len(queue) \in 1..n /\ queue'[j] = Pills[j - Len(queue)]
        BY <3>1, <3>4, <1>b
      <4>2. QED
        BY <4>1 DEF Pills
    <3>5. QED
      BY <3>2, <3>3, <3>4, <3>1 DEF InEntry
  <2>2. \A k, h : WithHandler(k, h)' <=> WithHandler(k, h)
    BY <1>1 DEF WithHandler
  <2>3. \A k : WithMain(k)' <=> WithMain(k)
    BY <1>1 DEF WithMain
  <2>4. \A k \in Clients : Somewhere(k)' <=> Somewhere(k)
    BY <2>1, <2>2, <2>3 DEF Somewhere
  <2>5. QED
    BY <1>a, <1>1, <2>1, <2>2, <2>3, <2>4 DEF Places
<1>7. QED
  BY <1>3, <1>4, <1>5, <1>6 DEF IInv

-----------------------------------------------------------------------------
(* The steps of a handler. *)

\* A handler goes on and moves no connection, sends no response and adds nothing.
LEMMA GoOn ==
    ASSUME IInv, NEW h \in Handlers, NEW to \in HandlerPcs, pc' = [pc EXCEPT ![h] = to],
           UNCHANGED <<client_vars, queue, donations, main_vars, socket>>,
           mutex_queue' \in Handlers \cup {Main, Free}, mutex_donation' \in Handlers \cup {Free},
           running' \in Int, line' \in [Handlers -> Requests],
           \/ to \in Idle /\ pc[h] \in Idle
           \/ to \in Busy /\ pc[h] \in Busy
           \/ to \in Busy /\ pc[h] = "unlock" /\ socket[h] \in Clients
           \/ to = "done" /\ socket[h] = POISON_PILL,
           to \in {"unlock_donation", "thank"} => pc[h] = "unlock_donation"
    PROVE  IInv'
<1>a. TypeOK /\ Sockets /\ Places /\ Balances
  BY DEF IInv
<1>1. TypeOK'
  BY <1>a DEF TypeOK, client_vars, main_vars
<1>2. Sockets'
  BY <1>a DEF Sockets, TypeOK, main_vars, Idle, Busy
<1>3. Places'
  BY <1>a, PlacesKept DEF client_vars, main_vars
<1>4. Balances'
  <2>1. \A g \in Handlers : pc'[g] \in {"unlock_donation", "thank"} =>
             pc[g] \in {"unlock_donation", "thank"} /\ socket'[g] = socket[g]
    BY <1>a DEF TypeOK
  <2>2. QED
    BY <1>a, <2>1, BalancesKept DEF client_vars
<1>5. QED
  BY <1>1, <1>2, <1>3, <1>4 DEF IInv

\* The steps on the queue's mutex and condition variable.
LEMMA QueueSteps ==
    ASSUME IInv, NEW h \in Handlers, QueueFrame,
           LockQueue(h) \/ CondWait(h) \/ SpuriousWakeup(h) \/ UnlockQueue(h)
    PROVE  IInv'
<1>a. TypeOK /\ Sockets
  BY DEF IInv
<1>1. /\ UNCHANGED <<client_vars, queue, donations, main_vars, socket, mutex_donation,
                     running, line>>
      /\ mutex_queue' \in Handlers \cup {Main, Free}
  BY <1>a DEF QueueFrame, LockQueue, CondWait, SpuriousWakeup, UnlockQueue, TypeOK
<1>2. CASE LockQueue(h) \/ CondWait(h) \/ SpuriousWakeup(h)
  <2>1. PICK to \in {"test", "wait", "wake"} : pc' = [pc EXCEPT ![h] = to] /\ pc[h] \in Idle
    BY <1>2 DEF LockQueue, CondWait, SpuriousWakeup, Goes, Idle
  <2>2. to \in HandlerPcs /\ to \in Idle /\ to \notin {"unlock_donation", "thank"}
    BY DEF HandlerPcs, Idle
  <2>3. QED
    BY <1>a, <1>1, <2>1, <2>2, GoOn DEF TypeOK
<1>3. CASE UnlockQueue(h)
  <2>1. pc[h] = "unlock" /\ socket[h] \in Clients \cup {POISON_PILL}
    BY <1>a, <1>3 DEF UnlockQueue, Goes, Sockets, TypeOK
  <2>2. CASE socket[h] = POISON_PILL
    <3>1. pc' = [pc EXCEPT ![h] = "done"] /\ "done" \in HandlerPcs
      BY <1>3, <2>2 DEF UnlockQueue, Goes, HandlerPcs
    <3>2. QED
      BY <1>a, <1>1, <2>2, <3>1, GoOn DEF TypeOK
  <2>3. CASE socket[h] \in Clients
    <3>1. pc' = [pc EXCEPT ![h] = "read"] /\ "read" \in HandlerPcs /\ "read" \in Busy
      BY <1>3, <2>3 DEF UnlockQueue, Goes, HandlerPcs, Busy
    <3>2. QED
      BY <1>a, <1>1, <2>1, <2>3, <3>1, GoOn DEF TypeOK
  <2>4. QED
    BY <2>1, <2>2, <2>3
<1>4. QED
  BY <1>2, <1>3

\* A handler takes the first entry out of the queue: a connection or a pill.
LEMMA PopStep == ASSUME IInv, NEW h \in Handlers, QueueFrame, Pop(h) PROVE IInv'
<1>a. TypeOK /\ Sockets /\ Places /\ Balances
  BY DEF IInv
<1>1. /\ queue # <<>> /\ queue' = Tail(queue) /\ queue \in Seq(Clients \cup {POISON_PILL})
      /\ socket' = [socket EXCEPT ![h] = queue[1]] /\ socket[h] = NoClient
      /\ queue[1] \in Clients \cup {POISON_PILL}
      /\ pc[h] = "test" /\ pc' = [pc EXCEPT ![h] = "unlock"]
      /\ UNCHANGED <<cstate, reply, balance, mutex_queue, mutex_donation, donations, running,
                     line, mpc, accepted>>
  <2>1. queue # <<>> /\ queue \in Seq(Clients \cup {POISON_PILL}) /\ pc[h] = "test"
    BY <1>a DEF Pop, Goes, TypeOK
  <2>2. Head(queue) = queue[1] /\ queue[1] \in Clients \cup {POISON_PILL}
    BY <2>1
  <2>3. socket[h] = NoClient
    BY <1>a, <2>1 DEF Sockets, Idle
  <2>4. QED
    BY <2>1, <2>2, <2>3 DEF Pop, Goes, QueueFrame, client_vars, main_vars
<1>2. TypeOK'
  <2>1. queue' \in Seq(Clients \cup {POISON_PILL})
    BY <1>1
  <2>2. socket' \in [Handlers -> Clients \cup {POISON_PILL, NoClient}]
    BY <1>a, <1>1 DEF TypeOK
  <2>3. pc' \in [Handlers -> HandlerPcs]
    BY <1>a, <1>1 DEF TypeOK, HandlerPcs
  <2>4. QED
    BY <1>a, <1>1, <2>1, <2>2, <2>3 DEF TypeOK
<1>3. Sockets'
  BY <1>a, <1>1 DEF Sockets, TypeOK, Idle, Busy
<1>4. Balances'
  BY <1>a, <1>1, BalancesKept DEF TypeOK
<1>5. Places'
  <2>1. \A k, i : InEntry(k, i)' <=> i \in 1..(Len(queue) - 1) /\ InEntry(k, i + 1)
    BY <1>1 DEF InEntry
  <2>2. \A k \in Clients : \A g : WithHandler(k, g)' <=>
           WithHandler(k, g) \/ (g = h /\ InEntry(k, 1))
    <3>1. 1 \in DOMAIN queue
      BY <1>1
    <3>2. socket' = [socket EXCEPT ![h] = queue[1]] /\ socket[h] \notin Clients
      BY <1>1
    <3>3. socket \in [Handlers -> Clients \cup {POISON_PILL, NoClient}]
      BY <1>a DEF TypeOK
    <3>4. QED
      BY <3>1, <3>2, <3>3 DEF WithHandler, InEntry
  <2>3. \A k : WithMain(k)' <=> WithMain(k)
    BY <1>1 DEF WithMain
  <2>4. \A k, i : InEntry(k, i) => i \in 1..Len(queue) /\ (i = 1 \/ InEntry(k, i - 1)')
    BY <1>1, <2>1 DEF InEntry
  <2>5. \A k \in Clients : Somewhere(k)' <=> Somewhere(k)
    BY <2>1, <2>2, <2>3, <2>4 DEF Somewhere
  <2>6. cstate' = cstate
    BY <1>1
  <2>7. \A k : ~WithHandler(k, h) \/ k \notin Clients
    BY <1>1 DEF WithHandler
  <2>8. \A i \in 1..(Len(queue) - 1) : i + 1 # 1
    BY <1>1
  <2>9. \A i, j \in 1..(Len(queue) - 1) : i + 1 = j + 1 => i = j
    OBVIOUS
  <2>10. ASSUME NEW k \in Clients
         PROVE  /\ \A i, j : InEntry(k, i)' /\ InEntry(k, j)' => i = j
                /\ \A f, g : WithHandler(k, f)' /\ WithHandler(k, g)' => f = g
                /\ \A i, g : ~(InEntry(k, i)' /\ WithHandler(k, g)')
                /\ WithMain(k)' => \A i, g : ~InEntry(k, i)' /\ ~WithHandler(k, g)'
    BY <1>a, <2>1, <2>2, <2>3, <2>7, <2>8, <2>9 DEF Places
  <2>11. QED
    BY <1>a, <2>5, <2>6, <2>10 DEF Places
<1>6. QED
  BY <1>2, <1>3, <1>4, <1>5 DEF IInv

\* The steps of handle_client before and between the changes of the balance.
LEMMA ServeSteps ==
    ASSUME IInv, NEW h \in Handlers, ClientFrame,
           Read(h) \/ FetchSub(h) \/ LockDonation(h) \/ UnlockDonation(h)
    PROVE  IInv'
<1>a. TypeOK /\ Sockets
  BY DEF IInv
<1>1. /\ UNCHANGED <<client_vars, queue, donations, main_vars, socket, mutex_queue>>
      /\ mutex_donation' \in Handlers \cup {Free} /\ running' \in Int
      /\ mutex_queue' \in Handlers \cup {Main, Free}
  <2>1. UNCHANGED <<client_vars, queue, donations, main_vars, socket, mutex_queue>>
    BY DEF ClientFrame, Read, FetchSub, LockDonation, UnlockDonation
  <2>2. mutex_donation' \in {h, Free, mutex_donation} /\ running' \in {running, running - 1}
    BY DEF Read, FetchSub, LockDonation, UnlockDonation
  <2>3. /\ mutex_donation \in Handlers \cup {Free} /\ running \in Int
        /\ mutex_queue \in Handlers \cup {Main, Free}
    BY <1>a DEF TypeOK
  <2>4. mutex_donation' \in Handlers \cup {Free} /\ running' \in Int
    BY <2>2, <2>3
  <2>5. mutex_queue' = mutex_queue
    BY <2>1
  <2>6. QED
    BY <2>1, <2>3, <2>4, <2>5
<1>2. line' \in [Handlers -> Requests]
  <2>1. CASE Read(h)
    <3>1. PICK l \in Requests : line' = [line EXCEPT ![h] = l]
      BY <1>a, <2>1 DEF Read, TypeOK, Requests
    <3>2. QED
      BY <1>a, <3>1 DEF TypeOK
  <2>2. CASE FetchSub(h) \/ LockDonation(h) \/ UnlockDonation(h)
    BY <1>a, <2>2 DEF FetchSub, LockDonation, UnlockDonation, TypeOK
  <2>3. QED
    BY <2>1, <2>2
<1>3. PICK to \in {"close", "sub", "lock_donation", "respond", "add", "thank"} :
        /\ pc' = [pc EXCEPT ![h] = to] /\ pc[h] \in Busy
        /\ to = "thank" => pc[h] = "unlock_donation"
  BY DEF Read, FetchSub, LockDonation, UnlockDonation, Goes, Branch, Busy
<1>4. to \in HandlerPcs /\ to \in Busy /\ to # "unlock_donation"
  BY DEF HandlerPcs, Busy
<1>5. QED
  BY <1>1, <1>2, <1>3, <1>4, GoOn

\* A handler adds the donation of its own connection.
LEMMA AddStep == ASSUME IInv, NEW h \in Handlers, ClientFrame, AddDonation(h) PROVE IInv'
<1>a. TypeOK /\ Sockets /\ Places /\ Balances
  BY DEF IInv
<1>1. /\ pc[h] = "add" /\ pc' = [pc EXCEPT ![h] = "unlock_donation"]
      /\ donations' = donations \cup {socket[h]} /\ socket[h] \in Clients
      /\ UNCHANGED <<cstate, reply, balance, mutex_queue, queue, mutex_donation, running, mpc,
                     accepted, socket, line>>
  BY <1>a DEF ClientFrame, AddDonation, Goes, Sockets, Busy, client_vars, main_vars
<1>2. TypeOK'
  BY <1>a, <1>1 DEF TypeOK, HandlerPcs
<1>3. Sockets'
  BY <1>a, <1>1 DEF TypeOK, Sockets, Idle, Busy
<1>4. Places'
  BY <1>a, <1>1, PlacesKept
<1>5. Balances'
  BY <1>a, <1>1 DEF Balances, TypeOK
<1>6. QED
  BY <1>2, <1>3, <1>4, <1>5 DEF IInv

\* The response to a donation: the balance it tells is the greatest so far.
LEMMA ThankStep == ASSUME IInv, NEW h \in Handlers, ClientFrame, Thank(h) PROVE IInv'
<1>a. TypeOK /\ Sockets /\ Places /\ Balances
  BY DEF IInv
<1>1. /\ pc[h] = "thank" /\ pc' = [pc EXCEPT ![h] = "close"]
      /\ reply' = [reply EXCEPT ![socket[h]] = "thanks"]
      /\ balance' = [balance EXCEPT ![socket[h]] = donations]
      /\ socket[h] \in Clients /\ socket[h] \in donations
      /\ UNCHANGED <<cstate, mutex_queue, queue, mutex_donation, donations, running, mpc,
                     accepted, socket, line>>
  BY <1>a DEF ClientFrame, Thank, Goes, Sockets, Balances, Busy, main_vars
<1>2. TypeOK'
  BY <1>a, <1>1 DEF TypeOK, HandlerPcs
<1>3. Sockets'
  BY <1>a, <1>1 DEF TypeOK, Sockets, Idle, Busy
<1>4. Places'
  BY <1>a, <1>1, PlacesKept
<1>5. Balances'
  <2>1. \A k \in Clients : balance'[k] = IF k = socket[h] THEN donations ELSE balance[k]
    BY <1>a, <1>1 DEF TypeOK
  <2>2. \A k \in Clients : reply'[k] = "thanks" => k = socket[h] \/ reply[k] = "thanks"
    BY <1>a, <1>1 DEF TypeOK
  <2>3. \A g \in Handlers : pc'[g] \in {"unlock_donation", "thank"} =>
             pc[g] \in {"unlock_donation", "thank"}
    BY <1>a, <1>1 DEF TypeOK
  <2>4. QED
    BY <1>a, <1>1, <2>1, <2>2, <2>3 DEF Balances
<1>6. QED
  BY <1>2, <1>3, <1>4, <1>5 DEF IInv

\* Any other response.
LEMMA RespondStep == ASSUME IInv, NEW h \in Handlers, ClientFrame, Respond(h) PROVE IInv'
<1>a. TypeOK /\ Sockets /\ Places /\ Balances
  BY DEF IInv
<1>1. PICK r \in {"welcome", "ok", "not implemented"} : reply' = [reply EXCEPT ![socket[h]] = r]
  BY DEF Respond
<1>2. /\ pc[h] = "respond" /\ pc' = [pc EXCEPT ![h] = "close"]
      /\ UNCHANGED <<cstate, balance, mutex_queue, queue, mutex_donation, donations, running,
                     mpc, accepted, socket, line>>
  BY DEF ClientFrame, Respond, Goes, main_vars
<1>3. TypeOK'
  BY <1>a, <1>1, <1>2 DEF TypeOK, HandlerPcs
<1>4. Sockets'
  BY <1>a, <1>2 DEF TypeOK, Sockets, Idle, Busy
<1>5. Places'
  BY <1>a, <1>2, PlacesKept
<1>6. Balances'
  BY <1>a, <1>1, <1>2 DEF Balances, TypeOK
<1>7. QED
  BY <1>3, <1>4, <1>5, <1>6 DEF IInv

\* The connection is closed: it is nowhere any more.
LEMMA CloseStep == ASSUME IInv, NEW h \in Handlers, ClientFrame, Close(h) PROVE IInv'
<1>a. TypeOK /\ Sockets /\ Places /\ Balances
  BY DEF IInv
<1>1. /\ pc[h] = "close" /\ pc' = [pc EXCEPT ![h] = "lock"]
      /\ cstate' = [cstate EXCEPT ![socket[h]] = "closed"]
      /\ socket' = [socket EXCEPT ![h] = NoClient] /\ socket[h] \in Clients
      /\ UNCHANGED <<reply, balance, mutex_queue, queue, mutex_donation, donations, running,
                     mpc, accepted, line>>
  BY <1>a DEF ClientFrame, Close, Goes, Sockets, Busy, main_vars
<1>2. TypeOK'
  BY <1>a, <1>1 DEF TypeOK, HandlerPcs
<1>3. Sockets'
  BY <1>a, <1>1 DEF TypeOK, Sockets, Idle, Busy
<1>4. Balances'
  BY <1>a, <1>1, BalancesKept DEF TypeOK
<1>5. Places'
  <2>1. \A k \in Clients : \A g :
           WithHandler(k, g)' <=> WithHandler(k, g) /\ g # h
    BY <1>a, <1>1 DEF WithHandler, TypeOK
  <2>2. \A k, i : (InEntry(k, i)' <=> InEntry(k, i)) /\ (WithMain(k)' <=> WithMain(k))
    BY <1>1 DEF InEntry, WithMain
  <2>3. \A k \in Clients : WithHandler(k, h) <=> k = socket[h]
    BY DEF WithHandler
  <2>4. \A k \in Clients : Somewhere(k)' <=> Somewhere(k) /\ k # socket[h]
    BY <1>a, <2>1, <2>2, <2>3 DEF Somewhere, Places
  <2>5. \A k \in Clients : cstate'[k] = "accepted" <=> cstate[k] = "accepted" /\ k # socket[h]
    BY <1>a, <1>1 DEF TypeOK
  <2>6. QED
    BY <1>a, <2>1, <2>2, <2>4, <2>5 DEF Places
<1>6. QED
  BY <1>2, <1>3, <1>4, <1>5 DEF IInv

\* The process is gone; nothing moves any more.
LEMMA BrokenPipeStep == ASSUME IInv, NEW h \in Handlers, BrokenPipe(h) PROVE IInv'
<1>1. /\ mpc' = "failed"
      /\ UNCHANGED <<cstate, reply, balance, mutex_queue, queue, mutex_donation, donations,
                     running, accepted, pc, socket, line>>
  BY DEF BrokenPipe, client_vars, shared, handler_vars
<1>2. QED
  BY <1>1, PlacesKept DEF IInv, TypeOK, Sockets, Balances, MainPcs

LEMMA Preserved == ASSUME IInv, [Next]_vars PROVE IInv'
<1>1. CASE MainStep \/ (MainFrame /\ MainMoves)
  BY <1>1, MainSteps, AcceptStep, PushStep, PushPillsStep DEF MainStep
<1>2. ASSUME NEW h \in Handlers, Locking(h) \/ Step(h) \/ (Alive /\ QueueFrame /\ SpuriousWakeup(h))
      PROVE  IInv'
  BY <1>2, QueueSteps, PopStep, ServeSteps, AddStep, ThankStep, RespondStep, CloseStep
     DEF Locking, Step
<1>3. CASE UNCHANGED vars
  <2>1. UNCHANGED <<cstate, reply, balance, mutex_queue, queue, mutex_donation, donations,
                    running, mpc, accepted, pc, socket, line>>
    BY <1>3 DEF vars, client_vars, shared, main_vars, handler_vars
  <2>2. QED
    BY <2>1, PlacesKept DEF IInv, TypeOK, Sockets, Balances
<1>4. QED
  BY <1>1, <1>2, <1>3, ConnectStep, BrokenPipeStep DEF Next

THEOREM Invariance == Spec => []IInv
<1>1. IInv /\ [Next]_vars => IInv'
  BY Preserved
<1>2. QED
  BY <1>1, Initially, PTL DEF Spec

-----------------------------------------------------------------------------
(* The theorems. *)

\* What is in one place at most is counted at most once.
LEMMA AtMostOne ==
    ASSUME NEW S, \A x, y \in S : x = y
    PROVE  Cardinality(S) = IF S = {} THEN 0 ELSE 1
<1>1. CASE S = {}
  BY <1>1, FS_EmptySet
<1>2. CASE S # {}
  <2>1. PICK x : S = {x}
    BY <1>2
  <2>2. QED
    BY <1>2, <2>1, FS_Singleton
<1>3. QED
  BY <1>1, <1>2

LEMMA Counted == IInv => OneHolder
<1>1. SUFFICES ASSUME IInv, NEW k \in Clients, cstate[k] = "accepted"
               PROVE  Cardinality({i \in DOMAIN queue : queue[i] = k})
                        + Cardinality({h \in Handlers : socket[h] = k})
                        + (IF accepted = k THEN 1 ELSE 0) = 1
  BY DEF OneHolder
<1> DEFINE Q == {i \in DOMAIN queue : queue[i] = k}
           H == {h \in Handlers : socket[h] = k}
<1>2. /\ Q # {} \/ H # {} \/ accepted = k
      /\ Q # {} => H = {} /\ accepted # k
      /\ H # {} => accepted # k
  BY <1>1 DEF IInv, Places, Somewhere, InEntry, WithHandler, WithMain
<1>3. (\A i, j \in Q : i = j) /\ (\A g, h \in H : g = h)
  BY <1>1 DEF IInv, Places, InEntry, WithHandler
<1>4. /\ Cardinality(Q) = IF Q = {} THEN 0 ELSE 1
      /\ Cardinality(H) = IF H = {} THEN 0 ELSE 1
  <2> HIDE DEF Q, H
  <2>1. QED
    BY <1>3, AtMostOne
<1> HIDE DEF Q, H
<1>5. Cardinality(Q) + Cardinality(H) + (IF accepted = k THEN 1 ELSE 0) = 1
  BY <1>2, <1>4
<1>6. QED
  BY <1>5 DEF Q, H

\* The variables that the threads share, and their locals, keep their types.
THEOREM TypeCorrect == Spec => []TypeOK
<1>1. IInv => TypeOK
  BY DEF IInv
<1>2. QED
  BY <1>1, Invariance, PTL

\* A connection that has been accepted is with main, in the queue or with one handler,
\* until it is closed (server.c:94, 106, 142, 218).
THEOREM NoConnectionLost == Spec => []OneHolder
  BY Counted, Invariance, PTL

\* The balance in a response counts the donation it thanks for, and of two balances one
\* contains the other, although it is read without the mutex (server.c:192-203).
THEOREM BalancesConsistent == Spec => []BalancesAgree
<1>1. IInv => BalancesAgree
  BY DEF IInv, Balances, BalancesAgree
<1>2. QED
  BY <1>1, Invariance, PTL

-----------------------------------------------------------------------------
(* The TCP server.  Its inductive invariant says what is on the way in     *)
(* each state of a client, and whose turn it is.                           *)

DonationTypes ==
    /\ spc \in {"loop", "accept", "read", "exit"}
    /\ tcp_running \in BOOLEAN
    /\ backlog \in Seq(Donors)
    /\ fds \in 0..MAX_FDS
    /\ counted \in [Donors -> Nat] /\ entered \in [Donors -> Nat]
    /\ cpc \in [Donors -> {"out", "prompt", "reply", "last", "left"}]
    /\ sent \in [Donors -> {"nothing", "line", "zero", "end", "shutdown"}]

\* A client that waits for the reply has its last line on the way.  While its input lasts
\* it has not been added, or is added again because the client was interrupted.
Conversation(k) ==
    /\ cpc[k] = "out" => counted[k] = 0 /\ entered[k] = 0 /\ sent[k] = "nothing"
    /\ cpc[k] = "prompt" => counted[k] >= entered[k] /\ sent[k] = "nothing"
    /\ cpc[k] \in {"reply", "last"} => counted[k] + 1 >= entered[k] /\ sent[k] = LastLine(k)
    /\ cpc[k] = "left" => counted[k] >= entered[k] /\ sent[k] \in {"end", "shutdown"}
    /\ entered[k] = 0 => counted[k] = 0
    /\ k \in eof => counted[k] >= entered[k]
    /\ k \notin eof => /\ cpc[k] = "prompt" => counted[k] = entered[k]
                       /\ cpc[k] = "reply" => counted[k] + 1 = entered[k]
                       /\ cpc[k] = "last" => counted[k] <= entered[k]
                       /\ cpc[k] = "left" => counted[k] <= entered[k] + 1

\* A client in the backlog is there once, and it is not the one that is served.
Turns ==
    /\ \A i, j \in DOMAIN backlog : backlog[i] = backlog[j] => i = j
    /\ \A k \in Donors : InBacklog(k) => cpc[k] # "out" /\ counted[k] = 0
    /\ spc = "read" => peer \in Donors /\ cpc[peer] # "out" /\ ~InBacklog(peer)

DonationInv == DonationTypes /\ Turns /\ \A k \in Donors : Conversation(k)

LEMMA DonationInitially == TcpInit => DonationInv
  BY DonationAssumption
     DEF TcpInit, DonationInv, DonationTypes, Turns, Conversation, InBacklog, LastLine

\* A step of the server that takes nobody from the backlog and reads no line.
LEMMA ServerWaits ==
  ASSUME DonationInv,
         Loop \/ TooManyOpen \/ Fails \/ ReadEnd \/ ReadShutdown \/ Interrupt
  PROVE  DonationInv'
  <1>1. spc' \in {"loop", "accept", "read", "exit"} /\ (spc' = "read" => spc = "read")
    BY DEF Loop, TooManyOpen, Fails, ReadEnd, ReadShutdown, Interrupt, ServerGoes,
           AfterEnd, DonationInv, DonationTypes
  <1>2. /\ tcp_running' \in BOOLEAN
        /\ UNCHANGED <<backlog, peer, fds, counted, cpc, entered, sent, eof>>
    BY DEF Loop, TooManyOpen, Fails, ReadEnd, ReadShutdown, Interrupt, ServerGoes,
           DonationInv, DonationTypes
  <1>. QED  BY <1>1, <1>2 DEF DonationInv, DonationTypes, Turns, Conversation,
                              InBacklog, LastLine

LEMMA AcceptDonorStep == ASSUME DonationInv, AcceptDonor PROVE DonationInv'
  <1>1. /\ backlog # <<>> /\ fds < MAX_FDS /\ spc' = "read"
        /\ peer' = Head(backlog) /\ backlog' = Tail(backlog) /\ fds' = fds + 1
        /\ UNCHANGED <<tcp_running, counted, cpc, entered, sent, eof>>
    BY DEF AcceptDonor, ServerGoes
  <1>2. /\ backlog' \in Seq(Donors) /\ Len(backlog') = Len(backlog) - 1
        /\ \A i \in DOMAIN backlog' : i + 1 \in DOMAIN backlog /\ backlog'[i] = backlog[i + 1]
        /\ 1 \in DOMAIN backlog /\ peer' = backlog[1] /\ peer' \in Donors
    BY <1>1 DEF DonationInv, DonationTypes
  <1>3. DonationTypes'
    BY <1>1, <1>2, DonationAssumption DEF DonationInv, DonationTypes
  <1>4. Turns'
    <2>1. \A i, j \in DOMAIN backlog' : backlog'[i] = backlog'[j] => i = j
      <3>1. SUFFICES ASSUME NEW i \in DOMAIN backlog', NEW j \in DOMAIN backlog',
                            backlog'[i] = backlog'[j]
                     PROVE  i = j
        OBVIOUS
      <3>2. i + 1 = j + 1
        BY <1>2, <3>1 DEF DonationInv, Turns
      <3>3. i \in Nat /\ j \in Nat
        BY <1>2
      <3>. QED  BY <3>2, <3>3
    <2>2. \A k \in Donors : InBacklog(k)' => InBacklog(k) /\ k # peer'
      <3>1. SUFFICES ASSUME NEW j \in DOMAIN backlog' PROVE ~(backlog'[j] = peer') /\
                            \E i \in DOMAIN backlog : backlog[i] = backlog'[j]
        BY DEF InBacklog
      <3>2. j \in Nat \ {0}
        BY <1>2
      <3>3. j + 1 # 1
        BY <3>2
      <3>. QED  BY <1>2, <3>1, <3>3 DEF DonationInv, Turns
    <2>3. InBacklog(peer')
      BY <1>2 DEF InBacklog
    <2>. QED  BY <1>1, <1>2, <2>1, <2>2, <2>3 DEF DonationInv, Turns, InBacklog
  <1>. QED  BY <1>1, <1>3, <1>4 DEF DonationInv, Conversation, LastLine

\* The client whose line is read has one on the way, and no other one is concerned.
LEMMA ReadLineStep == ASSUME DonationInv, ReadLine PROVE DonationInv'
  <1>1. /\ spc = "read" /\ spc' = "read" /\ sent[peer] \in {"line", "zero"}
        /\ counted' = [counted EXCEPT ![peer] = @ + Donation]
        /\ cpc' = [cpc EXCEPT ![peer] = IF @ = "reply" THEN "prompt" ELSE "left"]
        /\ sent' = [sent EXCEPT ![peer] = IF cpc[peer] = "reply" THEN "nothing" ELSE "end"]
        /\ UNCHANGED <<tcp_running, backlog, peer, fds, entered, eof>>
    BY DEF ReadLine, ServerGoes
  <1>2. peer \in Donors /\ ~InBacklog(peer) /\ Conversation(peer)
    BY <1>1 DEF DonationInv, Turns
  <1>3. Donation \in {0, 1} /\ (Donation = 1 <=> sent[peer] = "line")
    BY DEF Donation
  <1>4. DonationTypes'
    BY <1>1, <1>2, <1>3 DEF DonationInv, DonationTypes
  <1>5. Turns'
    BY <1>1, <1>2 DEF DonationInv, DonationTypes, Turns, InBacklog
  <1>6. Conversation(peer)'
    BY <1>1, <1>2, <1>3 DEF DonationInv, DonationTypes, Conversation, LastLine
  <1>7. ASSUME NEW k \in Donors \ {peer}  PROVE Conversation(k)'
    BY <1>1, <1>7 DEF DonationInv, DonationTypes, Conversation, LastLine
  <1>8. \A k \in Donors : Conversation(k)'
    BY <1>1, <1>6, <1>7
  <1>. QED  BY <1>4, <1>5, <1>8 DEF DonationInv

\* A step of a client that is already connected: none is disconnected by it, and what
\* it sends is what its new state says.
LEMMA DonorTalks ==
  ASSUME DonationInv, NEW k \in Donors, Enter(k) \/ Leave(k) \/ SendAgain(k) \/ CtrlC(k)
  PROVE  DonationInv'
  <1>1. UNCHANGED <<spc, tcp_running, backlog, peer, fds, counted, eof>>
    BY DEF Enter, Leave, SendAgain, CtrlC, DonorGoes
  <1>2. /\ counted[k] \in Nat /\ entered[k] \in Nat /\ Conversation(k)
        /\ LastLine(k) \in {"line", "zero"}
        /\ sent[k] \in {"nothing", "line", "zero", "end", "shutdown"}
    BY DEF DonationInv, DonationTypes, LastLine
  <1>3. /\ cpc[k] # "out" /\ cpc'[k] # "out" /\ DonationTypes' /\ Conversation(k)'
    <2>1. CASE Enter(k)
      <3>1. /\ cpc[k] = "prompt" /\ cpc'[k] = "reply" /\ sent'[k] = "line"
            /\ entered'[k] = entered[k] + 1 /\ DonationTypes' /\ k \notin eof
        BY <1>1, <2>1 DEF Enter, DonorGoes, DonationInv, DonationTypes
      <3>. QED  BY <1>1, <1>2, <3>1 DEF Conversation, LastLine
    <2>2. CASE Leave(k)
      <3>1. /\ cpc[k] = "prompt" /\ cpc'[k] = "left" /\ sent'[k] \in {"end", "shutdown"}
            /\ entered' = entered /\ DonationTypes'
        BY <1>1, <2>2 DEF Leave, DonorGoes, DonationInv, DonationTypes
      <3>. QED  BY <1>1, <1>2, <3>1 DEF Conversation, LastLine
    <2>3. CASE SendAgain(k)
      <3>1. /\ cpc[k] = "prompt" /\ cpc'[k] = "reply" /\ sent'[k] = LastLine(k)
            /\ entered' = entered /\ DonationTypes' /\ k \in eof
        BY <1>1, <1>2, <2>3 DEF SendAgain, DonorGoes, DonationInv, DonationTypes
      <3>. QED  BY <1>1, <1>2, <3>1 DEF Conversation, LastLine
    <2>4. CASE CtrlC(k)
      <3>1. /\ entered' = entered /\ DonationTypes'
            /\ \/ cpc[k] = "prompt" /\ cpc'[k] = "last" /\ sent'[k] = LastLine(k)
               \/ cpc[k] = "reply" /\ cpc'[k] = "last" /\ sent'[k] = sent[k]
               \/ cpc[k] = "prompt" /\ cpc'[k] = "left" /\ sent'[k] = "end"
        BY <1>1, <1>2, <2>4 DEF CtrlC, DonorGoes, DonationInv, DonationTypes
      <3>. QED  BY <1>1, <1>2, <3>1 DEF Conversation, LastLine
    <2>. QED  BY <2>1, <2>2, <2>3, <2>4
  <1>4. \A j \in Donors \ {k} : UNCHANGED <<cpc[j], entered[j], sent[j]>>
    BY DEF Enter, Leave, SendAgain, CtrlC, DonorGoes, DonationInv, DonationTypes
  <1>5. \A j \in Donors : Conversation(j)'
    BY <1>1, <1>3, <1>4 DEF DonationInv, Conversation, LastLine
  <1>6. \A j \in Donors : cpc[j] # "out" => cpc[j]' # "out"
    BY <1>3, <1>4
  <1>7. Turns'
    BY <1>1, <1>6 DEF DonationInv, Turns, InBacklog
  <1>. QED  BY <1>3, <1>5, <1>7 DEF DonationInv

\* A client whose input ends prompts, and all its lines have been added.
LEMMA EndOfInputStep ==
  ASSUME DonationInv, NEW k \in Donors, EndOfInput(k)
  PROVE  DonationInv'
  <1>1. /\ cpc[k] = "prompt" /\ eof' = eof \cup {k}
        /\ UNCHANGED <<spc, tcp_running, backlog, peer, fds, counted, cpc, entered, sent>>
    BY DEF EndOfInput
  <1>2. \A j \in Donors : Conversation(j)'
    BY <1>1 DEF DonationInv, Conversation, LastLine
  <1>. QED  BY <1>1, <1>2 DEF DonationInv, DonationTypes, Turns, InBacklog

LEMMA ConnectDonorStep ==
  ASSUME DonationInv, NEW k \in Donors, ConnectDonor(k)
  PROVE  DonationInv'
  <1>1. /\ cpc[k] = "out" /\ cpc' = [cpc EXCEPT ![k] = "prompt"]
        /\ sent' = [sent EXCEPT ![k] = "nothing"] /\ backlog' = Append(backlog, k)
        /\ UNCHANGED <<spc, tcp_running, peer, fds, counted, entered, eof>>
    BY DEF ConnectDonor, DonorGoes
  <1>2. /\ backlog' \in Seq(Donors) /\ Len(backlog') = Len(backlog) + 1
        /\ \A i \in DOMAIN backlog : backlog'[i] = backlog[i]
        /\ backlog'[Len(backlog')] = k
        /\ \A i \in DOMAIN backlog' : i \in DOMAIN backlog \/ i = Len(backlog')
    BY <1>1 DEF DonationInv, DonationTypes
  <1>3. DonationTypes' /\ Conversation(k)' /\ ~InBacklog(k)
    BY <1>1, <1>2 DEF DonationInv, DonationTypes, Conversation, Turns
  <1>4. ASSUME NEW j \in Donors \ {k}  PROVE Conversation(j)'
    BY <1>1, <1>4 DEF DonationInv, DonationTypes, Conversation, LastLine
  <1>5. \A j \in Donors : Conversation(j)'
    BY <1>3, <1>4
  <1>6. \A j \in Donors : InBacklog(j)' => InBacklog(j) \/ j = k
    BY <1>2 DEF InBacklog
  <1>7. \A i, j \in DOMAIN backlog' : backlog'[i] = backlog'[j] => i = j
    BY <1>2, <1>3 DEF DonationInv, Turns, InBacklog
  <1>8. /\ cpc'[k] # "out" /\ counted'[k] = 0
        /\ \A j \in Donors \ {k} : cpc'[j] = cpc[j] /\ counted'[j] = counted[j]
    BY <1>1 DEF DonationInv, DonationTypes, Conversation
  <1>9. Turns'
    BY <1>1, <1>6, <1>7, <1>8 DEF DonationInv, Turns
  <1>. QED  BY <1>3, <1>5, <1>9 DEF DonationInv

LEMMA DonationPreserved == ASSUME DonationInv, [TcpNext]_tcp_vars PROVE DonationInv'
  <1>1. CASE TcpNext
    BY <1>1, ServerWaits, AcceptDonorStep, ReadLineStep, DonorTalks,
       EndOfInputStep, ConnectDonorStep
       DEF TcpNext, Server, Donor, Event
  <1>2. CASE UNCHANGED tcp_vars
    BY <1>2 DEF tcp_vars, DonationInv, DonationTypes, Turns, Conversation, InBacklog,
               LastLine
  <1>. QED  BY <1>1, <1>2

\* A line is added in its client's turn, before the client prompts again or leaves; while
\* the input of its user lasts at most the last one is added twice, and only by CTRL-C
\* (task2/server.c:71-113 and client.c:63-86).
THEOREM LinesCounted == TcpSpec => []CountsLines
  <1>1. ASSUME DonationInv PROVE CountsLines
    <2>1. SUFFICES ASSUME NEW k \in Donors
                   PROVE  /\ cpc[k] = "out" \/ InBacklog(k) \/ entered[k] = 0 => counted[k] = 0
                          /\ counted[k] >= entered[k] - 1
                          /\ cpc[k] \in {"prompt", "left"} \/ k \in eof
                               => counted[k] >= entered[k]
                          /\ k \notin eof => counted[k] <=
                                 entered[k] + (IF cpc[k] = "left" THEN 1 ELSE 0)
      BY DEF CountsLines
    <2>2. /\ counted[k] \in Nat /\ entered[k] \in Nat /\ Conversation(k)
          /\ cpc[k] \in {"out", "prompt", "reply", "last", "left"}
          /\ InBacklog(k) => counted[k] = 0
      BY <1>1 DEF DonationInv, DonationTypes, Turns
    <2>. QED  BY <2>2 DEF Conversation
  <1>2. DonationInv /\ [TcpNext]_tcp_vars => DonationInv'
    BY DonationPreserved
  <1>. QED  BY <1>1, <1>2, DonationInitially, PTL DEF TcpSpec
=============================================================================
