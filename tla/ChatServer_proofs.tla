-------------------------- MODULE ChatServer_proofs --------------------------
(***************************************************************************)
(* The theorems about ChatServer (exercise09/task1), for every set of      *)
(* clients and every MAX_CONNECTIONS: who has locked clients_mutex, and    *)
(* what client_count and the table of threads say.                         *)
(***************************************************************************)
EXTENDS ChatServer, FiniteSetTheorems, TLAPS

-----------------------------------------------------------------------------
(* The inductive invariant. *)

\* A client has a thread only after it has left the backlog and the listener.
Waits(k) == k \in Clients /\ cpc[k] = "none"

Accepting == /\ \A k \in backlog : Waits(k)
             /\ accepted # Nobody => Waits(accepted) /\ accepted \notin backlog
             /\ lpc \in {"lock", "cap", "refuse", "username", "lock2", "insert"} =>
                    accepted # Nobody

\* Only the listener makes client_count greater: once there was room, there is room.
Room == lpc \in {"username", "lock2", "insert"} => client_count < MAX_CONNECTIONS

\* A thread that a slot names has been created.
Created == \A s \in Slots : client_threads[s] \in Clients => cpc[client_threads[s]] # "none"

Joining == mpc \in {"cancel", "join"} => slot < MAX_CONNECTIONS

Started == mpc = "start" => lpc = "none"

IInv == /\ ChatTypeOK /\ MutexOwner /\ CountIsExact /\ SlotsAreThreads
        /\ Accepting /\ Room /\ Created /\ Joining /\ Started

\* What the constants are like.
LEMMA Distinct ==
  /\ Nobody \notin Clients /\ Listener \notin Clients /\ Stale \notin Clients
  /\ Nobody # Listener /\ MAX_CONNECTIONS \in Nat
  BY ChatServerAssumption DEF Nobody, Listener, Stale

\* The sets whose elements are counted are finite.
LEMMA SetsAreFinite ==
  /\ IsFiniteSet(Counted) /\ IsFiniteSet(NoThread) /\ IsFiniteSet(InSlots)
  /\ Cardinality(Counted) \in Nat /\ Cardinality(NoThread) \in Nat
  /\ Cardinality(InSlots) \in Nat
  <1>1. Counted \subseteq Clients /\ NoThread \subseteq Clients /\ InSlots \subseteq Clients
    BY DEF Counted, NoThread, InSlots
  <1>2. IsFiniteSet(Counted) /\ IsFiniteSet(NoThread) /\ IsFiniteSet(InSlots)
    BY <1>1, FS_Subset, ChatServerAssumption
  <1>. QED  BY <1>2, FS_CardinalityType

\* One element more makes a set greater by one at most.
LEMMA AtMostOneMore ==
  ASSUME NEW S, NEW x, IsFiniteSet(S)
  PROVE  /\ IsFiniteSet(S \cup {x})
         /\ Cardinality(S \cup {x}) <= Cardinality(S) + 1
  <1>1. IsFiniteSet(S \cup {x}) /\ Cardinality(S) \in Nat
    BY FS_AddElement, FS_CardinalityType
  <1>2. CASE x \in S
    <2>1. Cardinality(S \cup {x}) = Cardinality(S)
      BY <1>2, FS_AddElement, Zenon
    <2>. QED  BY <1>1, <2>1
  <1>3. CASE x \notin S
    <2>1. Cardinality(S \cup {x}) = Cardinality(S) + 1
      BY <1>3, FS_AddElement, Zenon
    <2>. QED  BY <1>1, <2>1
  <1>. QED  BY <1>2, <1>3

\* A step that changes neither the count nor the slots.
LEMMA SlotsStay ==
  ASSUME SlotsAreThreads, UNCHANGED <<client_count, client_threads>>, NoThread' = NoThread
  PROVE  SlotsAreThreads'
  <1>1. InSlots' = InSlots
    BY DEF InSlots
  <1>. QED  BY <1>1 DEF SlotsAreThreads

LEMMA Initially == ASSUME ChatInit  PROVE IInv
  <1>1. Counted = {}
    BY DEF ChatInit, Counted
  <1>2. CountIsExact
    BY <1>1, FS_EmptySet DEF CountIsExact, ChatInit
  <1>3. ChatTypeOK /\ MutexOwner /\ SlotsAreThreads
    BY Distinct, SetsAreFinite
       DEF ChatInit, ChatTypeOK, MutexOwner, SlotsAreThreads, Nobody, Listener
  <1>4. Accepting /\ Room /\ Created /\ Joining /\ Started
    BY Distinct DEF ChatInit, Accepting, Room, Created, Joining, Started
  <1>. QED  BY <1>2, <1>3, <1>4 DEF IInv

-----------------------------------------------------------------------------
\* The listener, except for the insertion.
LEMMA ListenerSteps ==
  ASSUME IInv, ListenerFrame,
         \/ CheckRunning \/ Accept \/ AcceptFails \/ ListenerLocks \/ TestCapacity
         \/ Refuse \/ ReadUsername \/ ListenerUnlocks \/ ListenerCancelled
  PROVE  IInv'
  <1>. USE DEF IInv
  <1>1. UNCHANGED <<running, table, cpc, mpc, slot>>
    BY DEF ListenerFrame, main_vars, CheckRunning, Accept, AcceptFails, ListenerLocks,
           TestCapacity, Refuse, ReadUsername, ListenerUnlocks, ListenerCancelled
  <1>2. Counted' = Counted /\ NoThread' = NoThread /\ client_count' = client_count
    BY <1>1 DEF Counted, NoThread, table
  <1>3. CountIsExact' /\ SlotsAreThreads' /\ Created' /\ Joining'
    BY <1>1, <1>2, SlotsStay DEF CountIsExact, Created, Joining, table
  <1>4. ChatTypeOK'
    BY <1>1, Distinct
       DEF ChatTypeOK, table, CheckRunning, Accept, AcceptFails, ListenerLocks, TestCapacity,
           Refuse, ReadUsername, ListenerUnlocks, ListenerCancelled, ListenerGoes
  <1>5. MutexOwner'
    BY <1>1, Distinct
       DEF MutexOwner, MayLock, CheckRunning, Accept, AcceptFails, ListenerLocks,
           TestCapacity, Refuse, ReadUsername, ListenerUnlocks, ListenerCancelled,
           ListenerGoes
  <1>6. Accepting'
    BY <1>1, Distinct
       DEF ChatTypeOK, Accepting, Waits, CheckRunning, Accept, AcceptFails, ListenerLocks,
           TestCapacity, Refuse, ReadUsername, ListenerUnlocks, ListenerCancelled,
           ListenerGoes
  <1>7. Room'
    BY <1>1, <1>2, Distinct
       DEF Room, Full, ChatTypeOK, CheckRunning, Accept, AcceptFails, ListenerLocks,
           TestCapacity, Refuse, ReadUsername, ListenerUnlocks, ListenerCancelled,
           ListenerGoes
  <1>8. Started'
    BY <1>1
       DEF Started, CheckRunning, Accept, AcceptFails, ListenerLocks, TestCapacity, Refuse,
           ReadUsername, ListenerUnlocks, ListenerCancelled, ListenerGoes
  <1>. QED  BY <1>3, <1>4, <1>5, <1>6, <1>7, <1>8

\* The insertion counts the accepted client and gives it the next slot.
LEMMA InsertCounts ==
  ASSUME IInv, ListenerFrame, NEW pc \in {"read", "failed"}, InsertGoes(pc),
         client_threads' \in [Slots -> Clients \cup {Nobody, Stale}],
         Created', SlotsAreThreads'
  PROVE  IInv'
  <1>. USE DEF IInv
  <1>1. /\ lpc = "insert" /\ lpc' = "print" /\ accepted' = Nobody
        /\ client_sockets' = [client_sockets EXCEPT ![client_count] = accepted]
        /\ cpc' = [cpc EXCEPT ![accepted] = pc] /\ client_count' = client_count + 1
        /\ UNCHANGED <<backlog, clients_mutex, running, mpc, slot>>
    BY DEF InsertGoes, ListenerGoes, ListenerFrame, main_vars
  <1>2. Waits(accepted) /\ accepted \notin backlog
    BY <1>1 DEF Accepting
  <1>3. client_count \in Slots
    BY <1>1, Distinct DEF Room, ChatTypeOK, Slots
  <1>4. ChatTypeOK'
    BY <1>1, <1>2, <1>3, Distinct DEF ChatTypeOK, Waits, Slots
  <1>5. MutexOwner'
    BY <1>1, <1>2, Distinct DEF ChatTypeOK, MutexOwner, Waits
  <1>6. CountIsExact'
    <2>1. Counted' = Counted \cup {accepted} /\ accepted \notin Counted
      BY <1>1, <1>2 DEF Counted, Waits, ChatTypeOK
    <2>2. Cardinality(Counted') = Cardinality(Counted) + 1
      BY <2>1, SetsAreFinite, FS_AddElement
    <2>. QED  BY <1>1, <2>2 DEF CountIsExact
  <1>7. Accepting' /\ Room' /\ Joining' /\ Started'
    BY <1>1, <1>2 DEF ChatTypeOK, Accepting, Waits, Room, Joining, Started
  <1>. QED  BY <1>4, <1>5, <1>6, <1>7

\* A thread that was created is not named by a slot yet, and now is.
LEMMA InsertStep ==
  ASSUME IInv, ListenerFrame, Insert
  PROVE  IInv'
  <1>. USE DEF IInv
  <1>1. PICK N \in Named :
           client_threads' = [s \in Slots |-> IF s \in N THEN accepted ELSE client_threads[s]]
    BY DEF Insert
  <1>2. /\ InsertGoes("read") /\ lpc = "insert" /\ cpc' = [cpc EXCEPT ![accepted] = "read"]
        /\ client_count' = client_count + 1
    BY DEF Insert, InsertGoes, ListenerGoes
  <1>3. accepted \in Clients /\ cpc[accepted] = "none" /\ cpc'[accepted] = "read"
    BY <1>2 DEF Accepting, Waits, ChatTypeOK
  <1>4. client_count \in N /\ \A s \in N : s = client_count \/ client_threads[s] = Stale
    BY <1>1 DEF Named
  <1>5. client_count \in Slots /\ client_count \in Nat
    BY <1>2, Distinct DEF Room, ChatTypeOK, Slots
  <1>6. client_threads' \in [Slots -> Clients \cup {Nobody, Stale}]
    BY <1>1, <1>3 DEF ChatTypeOK
  <1>7. Created'
    <2>1. SUFFICES ASSUME NEW s \in Slots, client_threads'[s] \in Clients
                   PROVE  cpc'[client_threads'[s]] # "none"
      BY DEF Created
    <2>2. client_threads'[s] = accepted \/ client_threads'[s] = client_threads[s]
      BY <1>1
    <2>. QED  BY <1>2, <1>3, <2>1, <2>2 DEF Created, ChatTypeOK
  <1>8. SlotsAreThreads'
    <2>1. NoThread' = NoThread
      BY <1>2, <1>3 DEF NoThread, ChatTypeOK
    <2>2. accepted \notin InSlots
      <3>1. \A s \in 0..(client_count - 1) : s \in Slots
        BY <1>5, Distinct DEF Slots
      <3>. QED  BY <1>3, <3>1 DEF InSlots, Created
    <2>3. InSlots \cup {accepted} \subseteq InSlots'
      <3>1. client_count \in 0..(client_count' - 1)
        BY <1>2, <1>5
      <3>2. accepted \in InSlots'
        BY <1>1, <1>3, <1>4, <1>5, <3>1 DEF InSlots
      <3>3. ASSUME NEW s \in 0..(client_count - 1), client_threads[s] \in Clients
            PROVE  client_threads[s] \in InSlots'
        <4>1. s # client_count /\ s \in 0..(client_count' - 1) /\ s \in Slots
          BY <1>2, <1>5, Distinct DEF Slots
        <4>2. client_threads'[s] = client_threads[s]
          BY <1>1, <1>4, <3>3, <4>1, Distinct
        <4>. QED  BY <3>3, <4>1, <4>2 DEF InSlots
      <3>. QED  BY <3>2, <3>3 DEF InSlots
    <2>4. Cardinality(InSlots \cup {accepted}) = Cardinality(InSlots) + 1
      BY <2>2, SetsAreFinite, FS_AddElement
    <2>5. IsFiniteSet(InSlots') /\ Cardinality(InSlots') \in Nat
      <3>1. InSlots' \subseteq Clients
        BY DEF InSlots
      <3>. QED  BY <3>1, FS_Subset, FS_CardinalityType, ChatServerAssumption
    <2>6. Cardinality(InSlots \cup {accepted}) <= Cardinality(InSlots')
      BY <2>3, <2>5, FS_Subset
    <2>. QED  BY <1>2, <1>5, <2>1, <2>4, <2>5, <2>6, SetsAreFinite DEF SlotsAreThreads
  <1>. QED  BY <1>2, <1>6, <1>7, <1>8, InsertCounts

\* A client without a thread is counted, and is one of those that have none.
LEMMA InsertFailsStep ==
  ASSUME IInv, ListenerFrame, InsertFails
  PROVE  IInv'
  <1>. USE DEF IInv
  <1>1. /\ InsertGoes("failed") /\ lpc = "insert" /\ client_count' = client_count + 1
        /\ cpc' = [cpc EXCEPT ![accepted] = "failed"]
        /\ \/ client_threads' = client_threads
           \/ client_threads' = [client_threads EXCEPT ![client_count] = Stale]
    BY DEF InsertFails, InsertGoes, ListenerGoes
  <1>2. accepted \in Clients /\ cpc[accepted] = "none" /\ cpc'[accepted] = "failed"
    BY <1>1 DEF Accepting, Waits, ChatTypeOK
  <1>3. client_count \in Slots /\ client_count \in Nat
    BY <1>1, Distinct DEF Room, ChatTypeOK, Slots
  <1>4. client_threads' \in [Slots -> Clients \cup {Nobody, Stale}]
    BY <1>1 DEF ChatTypeOK
  <1>5. Created'
    BY <1>1, <1>2, Distinct DEF Created, ChatTypeOK
  <1>6. SlotsAreThreads'
    <2>1. NoThread' = NoThread \cup {accepted} /\ accepted \notin NoThread
      BY <1>1, <1>2 DEF NoThread, ChatTypeOK
    <2>2. Cardinality(NoThread') = Cardinality(NoThread) + 1
      BY <2>1, SetsAreFinite, FS_AddElement
    <2>3. InSlots \subseteq InSlots'
      <3>1. ASSUME NEW s \in 0..(client_count - 1)
            PROVE  /\ client_threads'[s] = client_threads[s]
                   /\ s \in 0..(client_count' - 1)
        <4>1. s # client_count /\ s \in 0..(client_count' - 1) /\ s \in Slots
          BY <1>1, <1>3, Distinct DEF Slots
        <4>. QED  BY <1>1, <4>1 DEF ChatTypeOK
      <3>. QED  BY <3>1 DEF InSlots
    <2>4. IsFiniteSet(InSlots') /\ Cardinality(InSlots') \in Nat
      <3>1. InSlots' \subseteq Clients
        BY DEF InSlots
      <3>. QED  BY <3>1, FS_Subset, FS_CardinalityType, ChatServerAssumption
    <2>5. Cardinality(InSlots) <= Cardinality(InSlots')
      BY <2>3, <2>4, FS_Subset
    <2>. QED  BY <1>1, <1>3, <2>2, <2>4, <2>5, SetsAreFinite DEF SlotsAreThreads
  <1>. QED  BY <1>1, <1>4, <1>5, <1>6, InsertCounts

-----------------------------------------------------------------------------
\* A client's thread, except where it counts itself out.
LEMMA ClientSteps ==
  ASSUME IInv, ClientFrame, NEW k \in Clients,
         \/ Read(k) \/ ReadFails(k) \/ Lock(k) \/ Unlock(k) \/ Stop(k) \/ Close(k)
         \/ Cancelled(k)
  PROVE  IInv'
  <1>. USE DEF IInv
  <1>1. /\ UNCHANGED <<backlog, client_threads, client_sockets, lpc, accepted, mpc, slot,
                       client_count>>
        /\ cpc[k] \in {"read", "lock", "lock2", "print", "unlock", "stop", "close"}
        /\ \E to \in {"read", "lock", "close", "print", "count", "stop", "done", "lock2",
                      "cancelled"} :
              /\ cpc' = [cpc EXCEPT ![k] = to]
              /\ to = "done" <=> cpc[k] = "unlock"
    BY DEF ClientFrame, listener, main_vars, Read, ReadFails, Lock, Unlock, Stop, Close,
           Cancelled, ClientGoes, AfterLoop
  <1>2. running' \in {0, 1} /\ clients_mutex' \in Clients \cup {Listener, Nobody}
    BY DEF ChatTypeOK, Read, ReadFails, Lock, Unlock, Stop, Stopped, Close, Cancelled
  <1>3. ChatTypeOK'
    BY <1>1, <1>2 DEF ChatTypeOK
  <1>4. MutexOwner'
    BY <1>1, Distinct
       DEF ChatTypeOK, MutexOwner, Read, ReadFails, Lock, Unlock, Stop, Close, Cancelled,
           ClientGoes, AfterLoop
  <1>5. CountIsExact'
    <2>1. Counted' = Counted
      BY <1>1 DEF ChatTypeOK, Counted
    <2>. QED  BY <1>1, <2>1 DEF CountIsExact
  <1>6. SlotsAreThreads'
    <2>1. NoThread' = NoThread
      BY <1>1 DEF ChatTypeOK, NoThread
    <2>. QED  BY <1>1, <2>1, SlotsStay
  <1>7. Accepting' /\ Room' /\ Created' /\ Joining' /\ Started'
    BY <1>1 DEF ChatTypeOK, Accepting, Waits, Room, Created, Joining, Started
  <1>. QED  BY <1>3, <1>4, <1>5, <1>6, <1>7

\* The thread that counts itself out was counted: client_count does not go below 0.
LEMMA CountDownStep ==
  ASSUME IInv, ClientFrame, NEW k \in Clients, CountDown(k)
  PROVE  IInv'
  <1>. USE DEF IInv
  <1>1. /\ UNCHANGED <<backlog, client_threads, client_sockets, lpc, accepted, mpc, slot,
                       running, clients_mutex>>
        /\ cpc[k] = "count" /\ cpc' = [cpc EXCEPT ![k] = "unlock"]
        /\ client_count' = client_count - 1
    BY DEF ClientFrame, listener, main_vars, CountDown, ClientGoes
  <1>2. CountIsExact' /\ client_count' \in Nat
    <2>1. Counted' = Counted \ {k} /\ k \in Counted
      BY <1>1 DEF ChatTypeOK, Counted
    <2>3. IsFiniteSet(Counted') /\ Cardinality(Counted') = Cardinality(Counted) - 1
      BY <2>1, SetsAreFinite, FS_RemoveElement
    <2>. QED  BY <1>1, <2>3, FS_CardinalityType DEF CountIsExact
  <1>3. ChatTypeOK'
    BY <1>1, <1>2, Distinct DEF ChatTypeOK
  <1>4. MutexOwner'
    BY <1>1, Distinct DEF ChatTypeOK, MutexOwner
  <1>5. Accepting' /\ Room' /\ Joining' /\ Started'
    BY <1>1, Distinct DEF ChatTypeOK, Accepting, Waits, Room, Joining, Started
  <1>6. Created'
    BY <1>1 DEF ChatTypeOK, Created
  <1>7. SlotsAreThreads'
    <2>1. NoThread' = NoThread
      BY <1>1 DEF ChatTypeOK, NoThread
    <2>2. InSlots \subseteq InSlots' \cup {client_threads[client_count - 1]}
      <3>1. \A s \in 0..(client_count - 1) : s \in 0..(client_count' - 1) \/ s = client_count - 1
        BY <1>1 DEF ChatTypeOK
      <3>. QED  BY <1>1, <3>1 DEF InSlots
    <2>3. IsFiniteSet(InSlots') /\ Cardinality(InSlots') \in Nat
      <3>1. InSlots' \subseteq Clients
        BY DEF InSlots
      <3>. QED  BY <3>1, FS_Subset, FS_CardinalityType, ChatServerAssumption
    <2>4. PICK last : last = client_threads[client_count - 1]
      OBVIOUS
    <2>5. /\ IsFiniteSet(InSlots' \cup {last})
          /\ Cardinality(InSlots' \cup {last}) <= Cardinality(InSlots') + 1
      BY <2>3, AtMostOneMore
    <2>6. InSlots \subseteq InSlots' \cup {last}
      BY <2>2, <2>4
    <2>7. Cardinality(InSlots) <= Cardinality(InSlots' \cup {last})
      BY <2>5, <2>6, FS_Subset
    <2>8. Cardinality(InSlots' \cup {last}) \in Nat
      BY <2>5, FS_CardinalityType
    <2>9. Cardinality(InSlots) <= Cardinality(InSlots') + 1
      BY <2>3, <2>5, <2>7, <2>8, SetsAreFinite
    <2>. QED  BY <1>1, <2>1, <2>3, <2>9, SetsAreFinite DEF SlotsAreThreads, ChatTypeOK
  <1>. QED  BY <1>2, <1>3, <1>4, <1>5, <1>6, <1>7

\* The steps of main, of clients that connect, and of the terminal.
LEMMA MainSteps ==
  ASSUME IInv, MainFrame,
         \/ StartListener \/ StartFails \/ CancelListener \/ JoinListener \/ CloseSocket
         \/ CancelClient \/ JoinClient \/ JoinNobody
  PROVE  IInv'
  <1>. USE DEF IInv
  <1>1. /\ UNCHANGED <<backlog, running, clients_mutex, client_count, client_threads,
                       client_sockets, accepted, cpc>>
        /\ lpc' = lpc \/ lpc' = "check"
    BY DEF MainFrame, table, StartListener, StartFails, CancelListener, JoinListener,
           CloseSocket, CancelClient, JoinClient, JoinNobody
  <1>2. mpc = "start" => lpc = "none"
    BY DEF Started
  <1>3. ChatTypeOK' /\ Joining'
    BY <1>1, Distinct
       DEF ChatTypeOK, Joining, MainGoes, StartListener, StartFails, CancelListener,
           JoinListener, CloseSocket, CancelClient, JoinClient, JoinNobody
  <1>4. lpc' # lpc => lpc = "none" /\ lpc' = "check"
    BY <1>1, <1>2
       DEF StartListener, StartFails, CancelListener, JoinListener, CloseSocket,
           CancelClient, JoinClient, JoinNobody, MainGoes
  <1>5. MutexOwner' /\ CountIsExact' /\ SlotsAreThreads'
    BY <1>1, <1>4, SlotsStay DEF MutexOwner, CountIsExact, Counted, NoThread
  <1>6. Accepting' /\ Room' /\ Created' /\ Started'
    BY <1>1, <1>4
       DEF Accepting, Waits, Room, Created, Started, StartListener, StartFails,
           CancelListener, JoinListener, CloseSocket, CancelClient, JoinClient, JoinNobody,
           MainGoes
  <1>. QED  BY <1>3, <1>5, <1>6

LEMMA OutsideSteps ==
  ASSUME IInv, Interrupt \/ \E k \in Clients : Connect(k)
  PROVE  IInv'
  <1>. USE DEF IInv
  <1>1. CASE Interrupt
    <2>1. /\ UNCHANGED <<backlog, clients_mutex, client_count, client_threads,
                         client_sockets, accepted, mpc, slot>>
          /\ running' = 0 /\ mpc # "start"
          /\ \/ UNCHANGED <<lpc, cpc>>
             \/ lpc = "accept" /\ lpc' = "check" /\ UNCHANGED cpc
             \/ \E k \in Clients : /\ cpc[k] = "read"
                                   /\ cpc' = [cpc EXCEPT ![k] = "close"] /\ UNCHANGED lpc
      BY <1>1 DEF Interrupt, table, main_vars
    <2>2. ChatTypeOK' /\ MutexOwner'
      BY <2>1, Distinct DEF ChatTypeOK, MutexOwner
    <2>3. Counted' = Counted /\ NoThread' = NoThread
      BY <2>1 DEF ChatTypeOK, Counted, NoThread
    <2>4. SlotsAreThreads'
      BY <2>1, <2>3, SlotsStay
    <2>5. CountIsExact' /\ Accepting' /\ Room' /\ Created' /\ Joining' /\ Started'
      BY <2>1, <2>3
         DEF ChatTypeOK, CountIsExact, Accepting, Waits, Room, Created, Joining, Started
    <2>. QED  BY <2>2, <2>4, <2>5
  <1>2. ASSUME NEW k \in Clients, Connect(k)  PROVE IInv'
    <2>1. /\ backlog' = backlog \cup {k} /\ Waits(k) /\ accepted # k
          /\ UNCHANGED <<running, clients_mutex, client_count, client_threads,
                         client_sockets, lpc, accepted, cpc, mpc, slot>>
      BY <1>2 DEF Connect, Waits, table, listener, main_vars
    <2>2. /\ ChatTypeOK' /\ MutexOwner' /\ CountIsExact'
          /\ Room' /\ Created' /\ Joining' /\ Started'
      BY <2>1 DEF ChatTypeOK, MutexOwner, CountIsExact, Counted, Room, Created,
                      Joining, Started
    <2>3. Accepting' /\ SlotsAreThreads'
      BY <2>1, SlotsStay DEF Accepting, Waits, NoThread
    <2>. QED  BY <2>2, <2>3
  <1>. QED  BY <1>1, <1>2

-----------------------------------------------------------------------------
(* The theorems. *)

\* IInv is an invariant of the server.
THEOREM Invariance == ChatSpec => []IInv
  <1>1. IInv /\ [ChatNext]_chat_vars => IInv'
    <2>. SUFFICES ASSUME IInv, [ChatNext]_chat_vars  PROVE IInv'
      OBVIOUS
    <2>1. CASE MainStep
      BY <2>1, MainSteps DEF MainStep
    <2>2. CASE ListenerStep
      BY <2>2, ListenerSteps, InsertStep DEF ListenerStep
    <2>3. CASE Failure
      BY <2>3, MainSteps, ListenerSteps, InsertFailsStep DEF Failure
    <2>4. CASE Interrupt \/ \E k \in Clients : Connect(k)
      BY <2>4, OutsideSteps
    <2>5. ASSUME NEW k \in Clients,
                 ClientStep(k) \/ (ClientFrame /\ (Read(k) \/ ReadFails(k)))
          PROVE  IInv'
      BY <2>5, ClientSteps, CountDownStep DEF ClientStep
    <2>6. CASE UNCHANGED chat_vars
      <3>1. UNCHANGED <<backlog, running, clients_mutex, client_count, client_threads,
                        client_sockets, lpc, accepted, cpc, mpc, slot>>
        BY <2>6 DEF chat_vars, table, listener, main_vars
      <3>2. SlotsAreThreads'
        BY <3>1, SlotsStay DEF IInv, NoThread
      <3>. QED
        BY <3>1, <3>2 DEF IInv, ChatTypeOK, MutexOwner, CountIsExact, Counted, Accepting, Waits, Room,
                    Created, Joining, Started
    <2>. QED
      BY <2>1, <2>2, <2>3, <2>4, <2>5, <2>6 DEF ChatNext
  <1>2. ChatInit => IInv
    BY Initially
  <1>. QED  BY <1>1, <1>2, PTL DEF ChatSpec

\* The types of the globals of server.c and of the locals of its threads.
THEOREM TypeCorrect == ChatSpec => []ChatTypeOK
  <1>1. IInv => ChatTypeOK
    BY DEF IInv
  <1>. QED  BY <1>1, Invariance, PTL

\* Who has locked clients_mutex is in a critical section, or was cancelled there
\* (server.c:46-48, 58-60, 80-86, 104-109).
THEOREM MutexOwned == ChatSpec => []MutexOwner
  <1>1. IInv => MutexOwner
    BY DEF IInv
  <1>. QED  BY <1>1, Invariance, PTL

\* client_count is the number of clients that were let in and not counted out, whether
\* their threads could be created or not (server.c:58-60, 104-109).
THEOREM ExactCount == ChatSpec => []CountIsExact
  <1>1. IInv => CountIsExact
    BY DEF IInv
  <1>. QED  BY <1>1, Invariance, PTL

\* No client is put behind the end of client_threads (server.c:80-86, 104-107).
THEOREM NoOverflow == ChatSpec => []SlotInBounds
  <1>1. IInv => SlotInBounds
    BY Distinct DEF IInv, ChatTypeOK, Room, SlotInBounds, Slots
  <1>. QED  BY <1>1, Invariance, PTL

\* The slots main goes through name as many threads as there are slots, but for those of
\* the threads that could not be created (server.c:105-107, 181-185).
THEOREM SlotsHoldThreads == ChatSpec => []SlotsAreThreads
  <1>1. IInv => SlotsAreThreads
    BY DEF IInv
  <1>. QED  BY <1>1, Invariance, PTL
=============================================================================
