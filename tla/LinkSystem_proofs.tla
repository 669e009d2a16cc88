------------------------- MODULE LinkSystem_proofs --------------------------
(***************************************************************************)
(* Proofs about the link server together with the lines it controls and    *)
(* the reports of its notification peer, for every number of clients,      *)
(* links and reports that wait.                                            *)
(***************************************************************************)
EXTENDS LinkSystem, LinkServerScripts_proofs

-----------------------------------------------------------------------------
(***************************************************************************)
(* The cross lists of the server.  Scripts that work keep them equal: what *)
(* a client has on its own list, it is a user of.  (That a user has the    *)
(* link on its list is NoDanglingClient, and needs no such scripts.)       *)
(***************************************************************************)
AgreeOn(dev, table, known) ==
    \A d \in Devices : \A c \in known :
        d \in table[c].devices_connected => c \in dev[d].clients_connected

Agree == AgreeOn(device, client, g_clients)

\* remove_device_from_all_clients() takes the device off the list of every client on
\* g_clients, and puts nothing on a list (list_fns.c:377-397).
LEMMA ClearedLemma ==
  ASSUME NEW r, NEW table \in Tables, NEW known, NEW d, NEW c \in Clients, c \in known
  PROVE  /\ AfterScripts(r, d, table, known)[c].devices_connected
              \subseteq table[c].devices_connected
         /\ r.cleared => d \notin AfterScripts(r, d, table, known)[c].devices_connected
BY DEF AfterScripts, RemoveDeviceFromAllClients, Tables, Client

\* alter_device_status() on its own keeps the lists equal, if it empties the list of
\* users on one side only when nobody was on it.
LEMMA AlterAgreeLemma ==
  ASSUME device \in [Devices -> Device],
         NEW table \in Tables, NEW known \in SUBSET Clients, NEW d \in Devices,
         NEW r,
         \/ r.cleared
         \/ r.dev.clients_connected = device[d].clients_connected
         \/ device[d].clients_connected = {},
         AgreeOn(device, table, known),
         Alter(d, r, table, known)
  PROVE  AgreeOn(device', client', known)
<1>1. /\ device' = [device EXCEPT ![d] = r.dev]
      /\ client' = AfterScripts(r, d, table, known)
  BY DEF Alter
<1>2. SUFFICES ASSUME NEW e \in Devices, NEW c \in known,
                      e \in client'[c].devices_connected
               PROVE  c \in device'[e].clients_connected
  BY DEF AgreeOn
<1>3. /\ e \in table[c].devices_connected
      /\ ~(r.cleared /\ e = d)
  <2>1. /\ client'[c].devices_connected \subseteq table[c].devices_connected
        /\ r.cleared => d \notin client'[c].devices_connected
    BY <1>1, ClearedLemma
  <2>2. QED
    BY <1>2, <2>1
<1>4. c \in device[e].clients_connected
  BY <1>3 DEF AgreeOn
<1>5. device'[e] = IF e = d THEN r.dev ELSE device[e]
  BY <1>1
<1>6. QED
  BY <1>3, <1>4, <1>5

\* UP <device> enters the pair on both sides or on neither, whatever the scripts do
\* (list_fns.c:463-474).
LEMMA ConnectAgreeLemma ==
  ASSUME device \in [Devices -> Device],
         NEW table \in Tables, NEW known \in SUBSET Clients,
         NEW c \in known, NEW d \in Devices, NEW cmd \in Commands,
         AgreeOn(device, table, known),
         ConnectClientToDevice(c, d, cmd, table, known)
  PROVE  AgreeOn(device', client', known)
<1> DEFINE r   == DialIfUnused(device[d], cmd)
           tbl == AfterScripts(r, d, table, known)
<1>1. Sound(r, device[d]) /\ r.dev \in Device
  BY DialIfUnusedLemma DEF Sound, Result
<1>2. /\ tbl \in Tables
      /\ \A x \in known :
           /\ tbl[x].devices_connected \subseteq table[x].devices_connected
           /\ r.cleared => d \notin tbl[x].devices_connected
  <2>1. tbl \in Tables
    BY AfterScriptsLemma DEF Dropped
  <2>2. tbl = AfterScripts(r, d, table, known)
    OBVIOUS
  <2> HIDE DEF r, tbl
  <2>3. \A x \in known :
          /\ tbl[x].devices_connected \subseteq table[x].devices_connected
          /\ r.cleared => d \notin tbl[x].devices_connected
    BY <2>2, ClearedLemma
  <2>4. QED
    BY <2>1, <2>3
<1>3. /\ device' = [device EXCEPT ![d] =
                       IF r.ok
                       THEN [r.dev EXCEPT !.clients_connected = @ \cup {c}]
                       ELSE r.dev]
      /\ client' = IF r.ok
                   THEN [tbl EXCEPT ![c].devices_connected = @ \cup {d}] ELSE tbl
  BY DEF ConnectClientToDevice
<1> HIDE DEF r, tbl
<1>4. /\ device'[d].clients_connected = IF r.ok THEN r.dev.clients_connected \cup {c}
                                                ELSE r.dev.clients_connected
      /\ \A e \in Devices \ {d} : device'[e] = device[e]
  BY <1>1, <1>3 DEF Device
<1>5. \A x \in known : client'[x].devices_connected =
        IF r.ok /\ x = c THEN tbl[x].devices_connected \cup {d}
                         ELSE tbl[x].devices_connected
  <2>1. CASE r.ok
    BY <1>2, <1>3, <2>1 DEF Tables, Client
  <2>2. CASE ~r.ok
    BY <1>3, <2>2
  <2>3. QED
    BY <2>1, <2>2
<1>6. SUFFICES ASSUME NEW e \in Devices, NEW x \in known,
                      e \in client'[x].devices_connected
               PROVE  x \in device'[e].clients_connected
  BY DEF AgreeOn
<1>7. CASE e # d
  <2>1. e \in table[x].devices_connected
    BY <1>2, <1>5, <1>6, <1>7
  <2>2. QED
    BY <1>4, <1>7, <2>1 DEF AgreeOn
<1>8. CASE e = d /\ r.ok /\ x = c
  BY <1>4, <1>8
<1>9. CASE e = d /\ ~(r.ok /\ x = c)
  <2>1. d \in table[x].devices_connected /\ ~r.cleared
    BY <1>2, <1>5, <1>6, <1>9
  <2>2. x \in device[d].clients_connected
    BY <2>1 DEF AgreeOn
  <2>3. x \in r.dev.clients_connected
    BY <1>1, <2>1, <2>2 DEF Sound
  <2>4. QED
    BY <1>4, <1>9, <2>3
<1>10. QED
  BY <1>7, <1>8, <1>9

\* A client leaving a link keeps the lists equal if the scripts work; one that cannot
\* be run leaves the device on the client's list (list_fns.c:488-498).
LEMMA DisconnectAgreeLemma ==
  ASSUME device \in [Devices -> Device],
         NEW table \in Tables, NEW known \in SUBSET Clients,
         NEW c \in known, NEW d \in Devices, NEW cmd \in Commands,
         HangUpIfLast(device[d], c, cmd).ok,
         AgreeOn(device, table, known),
         DisconnectClientFromDevice(c, d, cmd, table, known)
  PROVE  AgreeOn(device', client', known)
<1> DEFINE r   == HangUpIfLast(device[d], c, cmd)
           tbl == AfterScripts(r, d, table, known)
<1>1. /\ r.ok
      /\ r.dev.clients_connected =
           IF r.cleared THEN {} ELSE device[d].clients_connected \ {c}
  BY HangUpIfLastLemma
<1>2. /\ tbl \in Tables
      /\ \A x \in known :
           /\ tbl[x].devices_connected \subseteq table[x].devices_connected
           /\ r.cleared => d \notin tbl[x].devices_connected
  <2>1. tbl \in Tables
    BY AfterScriptsLemma DEF Dropped
  <2>2. tbl = AfterScripts(r, d, table, known)
    OBVIOUS
  <2> HIDE DEF r, tbl
  <2>3. \A x \in known :
          /\ tbl[x].devices_connected \subseteq table[x].devices_connected
          /\ r.cleared => d \notin tbl[x].devices_connected
    BY <2>2, ClearedLemma
  <2>4. QED
    BY <2>1, <2>3
<1>3. /\ device' = [device EXCEPT ![d] = r.dev]
      /\ client' = [tbl EXCEPT ![c].devices_connected = @ \ {d}]
  BY <1>1 DEF DisconnectClientFromDevice
<1> HIDE DEF r, tbl
<1>4. \A x \in known : client'[x].devices_connected =
        IF x = c THEN tbl[x].devices_connected \ {d} ELSE tbl[x].devices_connected
  BY <1>2, <1>3 DEF Tables, Client
<1>5. SUFFICES ASSUME NEW e \in Devices, NEW x \in known,
                      e \in client'[x].devices_connected
               PROVE  x \in device'[e].clients_connected
  BY DEF AgreeOn
<1>6. e \in table[x].devices_connected /\ (e = d => x # c /\ ~r.cleared)
  BY <1>2, <1>4, <1>5
<1>7. x \in device[e].clients_connected
  BY <1>6 DEF AgreeOn
<1>8. device'[e] = IF e = d THEN r.dev ELSE device[e]
  BY <1>3
<1>9. QED
  BY <1>1, <1>6, <1>7, <1>8

\* With scripts that work, disconnect_client_from_device() does not fail: a link that
\* somebody uses is being dialled or up (list_fns.c:488-498, 623-655).
LEMMA HangUpWorksLemma ==
  ASSUME Reliable, NEW dv \in Device, NEW c \in Clients, NEW cmd \in Commands,
         dv.clients_connected # {} => dv.status \in {"CONNECTING", "UP"}
  PROVE  HangUpIfLast(dv, c, cmd).ok
<1> DEFINE left == [dv EXCEPT !.clients_connected = dv.clients_connected \ {c}]
<1>1. left \in Device /\ left.status = dv.status
  BY AssignLemma DEF Device
<1>2. HangUpIfLast(dv, c, cmd) =
        IF c \in dv.clients_connected /\ left.clients_connected = {}
        THEN AlterDeviceStatus(left, "DISCONNECTING", cmd) ELSE Done(left)
  BY DEF HangUpIfLast
<1> HIDE DEF left
<1>3. CASE c \in dv.clients_connected /\ left.clients_connected = {}
  <2> DEFINE s == IF dv.status = "UP" THEN LinkDown(left, cmd)
                                      ELSE LinkForceDown(left, cmd)
  <2>1. ToDisconnecting(left, cmd) = Enter(s, "DISCONNECTING")
    BY <1>1, <1>3 DEF ToDisconnecting
  <2>2. s.ok /\ Sound(s, left)
    BY <1>1, ForceClearsLemma, LinkScriptsLemma, LinkForceDownLemma, LinkDownLemma
  <2>3. Enter(s, "DISCONNECTING").ok
    BY <1>1, <2>2, EnterLemma DEF Status
  <2>4. QED
    BY <1>2, <1>3, <2>1, <2>3 DEF AlterDeviceStatus
<1>4. CASE ~(c \in dv.clients_connected /\ left.clients_connected = {})
  BY <1>1, <1>2, <1>4, DoneLemma
<1>5. QED
  BY <1>3, <1>4

\* The users a new client's record starts with: none (list_fns.c:300-315).
LEMMA HeardAgreeLemma ==
  ASSUME IInv, Agree, NEW c \in Clients
  PROVE  /\ Heard(c) \in Tables /\ Known(c) \in SUBSET Clients /\ c \in Known(c)
         /\ AgreeOn(device, Heard(c), Known(c))
<1>1. /\ client \in Tables /\ g_clients \in SUBSET Clients
      /\ ListsOK(device, client, g_clients)
  BY ListsLemma DEF IInv, TypeOK, Tables
<1>2. /\ Heard(c) \in Tables /\ Known(c) \in SUBSET Clients /\ c \in Known(c)
  BY <1>1, HeardLemma
<1>3. \A x \in Clients : Heard(c)[x].devices_connected = client[x].devices_connected
  BY <1>1 DEF Heard, Tables, Client, NewClient, ListsOK
<1>4. ASSUME NEW x \in Known(c), x \notin g_clients
      PROVE  client[x].devices_connected = {}
  BY <1>1, <1>2, <1>4 DEF ListsOK
<1>5. AgreeOn(device, Heard(c), Known(c))
  BY <1>1, <1>2, <1>3, <1>4 DEF Agree, AgreeOn
<1>6. QED
  BY <1>2, <1>5

\* A datagram of a client keeps the lists equal.
LEMMA SpeaksAgreeLemma ==
  ASSUME Reliable, IInv, Agree, InUseWhileWanted, ClientSpeaks
  PROVE  Agree'
<1>1. /\ device \in [Devices -> Device] /\ DisconnectingUnused
      /\ \A d \in Devices :
           device[d].clients_connected # {} => device[d].status \in {"CONNECTING", "UP"}
  BY DEF IInv, TypeOK, InUseWhileWanted, Promise!InUseWhileWanted, Reliable
<1>2. ASSUME NEW c \in Clients, NEW d \in Devices, NEW cmd \in Commands,
             ClientUp(c, d, cmd)
      PROVE  Agree'
  <2>1. g_clients' = Known(c)
    BY <1>2 DEF ClientUp, FromClient
  <2>2. AgreeOn(device', client', Known(c))
    BY <1>1, <1>2, HeardAgreeLemma, ConnectAgreeLemma DEF ClientUp
  <2>3. QED
    BY <2>1, <2>2 DEF Agree
<1>3. ASSUME NEW c \in Clients, NEW d \in Devices, NEW cmd \in Commands,
             ClientDown(c, d, cmd)
      PROVE  Agree'
  <2>1. g_clients' = Known(c)
    BY <1>3 DEF ClientDown, FromClient
  <2>2. HangUpIfLast(device[d], c, cmd).ok
    BY <1>1, HangUpWorksLemma
  <2>3. AgreeOn(device', client', Known(c))
    BY <1>1, <1>3, <2>2, HeardAgreeLemma, DisconnectAgreeLemma DEF ClientDown
  <2>4. QED
    BY <2>1, <2>3 DEF Agree
<1>4. ASSUME NEW c \in Clients, NEW d \in Devices, NEW cmd \in Commands,
             ClientForceDown(c, d, cmd)
      PROVE  Agree'
  <2> DEFINE down == ToDown(device[d], cmd)
             r    == IF down.ok THEN NoUsers(down) ELSE down
  <2>1. /\ g_clients' = Known(c)
        /\ Alter(d, r, Heard(c), Known(c))
    BY <1>4 DEF ClientForceDown, FromClient, AlterDeviceStatus
  <2>2. r.cleared = down.cleared
    BY DEF NoUsers, Returns
  <2>3. device[d].status # "DISCONNECTING" => down.cleared
    BY <1>1, ToDownClearsLemma
  <2>4. r.cleared \/ device[d].clients_connected = {}
    BY <1>1, <2>2, <2>3 DEF DisconnectingUnused, Users
  <2> HIDE DEF r
  <2>5. AgreeOn(device', client', Known(c))
    BY <1>1, <2>1, <2>4, HeardAgreeLemma, AlterAgreeLemma
  <2>6. QED
    BY <2>1, <2>5 DEF Agree
<1>5. ASSUME NEW c \in Clients, ClientAsks(c) \/ ClientPing(c)
      PROVE  Agree'
  <2>1. /\ g_clients' = Known(c) /\ client' = Heard(c) /\ device' = device
    BY <1>5 DEF ClientAsks, ClientPing, FromClient
  <2>2. QED
    BY <2>1, HeardAgreeLemma DEF Agree
<1>6. QED
  BY <1>2, <1>3, <1>4, <1>5 DEF ClientSpeaks

\* So do the reports of the peer and the sweep over the links: whatever empties the
\* list of users throws everybody off on both sides (list_fns.c:568-574).
LEMMA CallsAgreeLemma ==
  ASSUME Reliable, IInv, Agree,
         \/ PeerSpeaks
         \/ \E d \in Devices, cmd \in Commands : TimeoutOldDevice(d, cmd)
  PROVE  Agree'
<1>1. /\ device \in [Devices -> Device] /\ client \in Tables
      /\ g_clients \in SUBSET Clients
  BY DEF IInv, TypeOK, Tables
<1>2. ASSUME NEW d \in Devices, NEW r, Sound(r, device[d]),
             Alter(d, r, client, g_clients), g_clients' = g_clients
      PROVE  Agree'
  <2>1. r.cleared \/ r.dev.clients_connected = device[d].clients_connected
    BY <1>2 DEF Sound
  <2>2. AgreeOn(device', client', g_clients)
    BY <1>1, <1>2, <2>1, AlterAgreeLemma DEF Agree
  <2>3. QED
    BY <1>2, <2>2 DEF Agree
<1>3. ASSUME NEW d \in Devices, PeerIsUp(d)
      PROVE  Agree'
  <2>1. Sound(ToUp(device[d]), device[d])
    BY <1>1, ToUpLemma
  <2>2. QED
    BY <1>2, <1>3, <2>1 DEF PeerIsUp, FromPeer
<1>4. ASSUME NEW d \in Devices, NEW cmd \in Commands, PeerIsDown(d, cmd)
      PROVE  Agree'
  <2>1. Sound(ToDown(device[d], cmd), device[d])
    BY <1>1, ToDownLemma
  <2>2. QED
    BY <1>2, <1>4, <2>1 DEF PeerIsDown, FromPeer, AlterDeviceStatus
<1>5. ASSUME NEW d \in Devices, NEW cmd \in Commands, TimeoutOldDevice(d, cmd)
      PROVE  Agree'
  <2> DEFINE r == IF Overdue(device[d])
                  THEN AlterDeviceStatus(device[d], device[d].status, cmd)
                  ELSE Done(device[d])
  <2>1. Alter(d, r, client, g_clients) /\ g_clients' = g_clients
    BY <1>5 DEF TimeoutOldDevice
  <2>2. Sound(r, device[d])
    <3>1. CASE Overdue(device[d]) /\ device[d].status = "CONNECTING"
      <4>1. r = ToConnecting(device[d], cmd)
        BY <3>1 DEF AlterDeviceStatus
      <4>2. QED
        BY <1>1, <4>1, ToConnectingLemma
    <3>2. CASE Overdue(device[d]) /\ device[d].status = "DISCONNECTING"
      <4>1. r = ToDisconnecting(device[d], cmd)
        BY <3>2 DEF AlterDeviceStatus
      <4>2. QED
        BY <1>1, <4>1, ToDisconnectingLemma
    <3>3. CASE ~Overdue(device[d])
      <4>1. r = Done(device[d])
        BY <3>3
      <4>2. QED
        BY <1>1, <4>1, DoneLemma
    <3>4. QED
      BY <3>1, <3>2, <3>3 DEF Overdue
  <2> HIDE DEF r
  <2>3. QED
    BY <1>2, <2>1, <2>2
<1>6. QED
  BY <1>3, <1>4, <1>5 DEF PeerSpeaks

\* The sweep over the clients, and every step that touches neither list.
LEMMA SweepAgreeLemma ==
  ASSUME Reliable, IInv, Agree, InUseWhileWanted,
         \/ \E d \in Devices, cmd \in Commands : ExpireFromDevice(d, cmd)
         \/ FreeClient \/ Quit \/ Crash \/ Tick
         \/ UNCHANGED <<device, client, g_clients>>
  PROVE  Agree'
<1>1. /\ device \in [Devices -> Device] /\ client \in Tables
      /\ g_clients \in SUBSET Clients
  BY DEF IInv, TypeOK, Tables
<1>2. ASSUME NEW d \in Devices, NEW cmd \in Commands, ExpireFromDevice(d, cmd)
      PROVE  Agree'
  <2>1. /\ leaving \in g_clients /\ g_clients' = g_clients
        /\ DisconnectClientFromDevice(leaving, d, cmd, client, g_clients)
    BY <1>2 DEF ExpireFromDevice, IInv, TypeOK
  <2>2. HangUpIfLast(device[d], leaving, cmd).ok
    <3>1. device[d].clients_connected # {} => device[d].status \in {"CONNECTING", "UP"}
      BY DEF InUseWhileWanted, Promise!InUseWhileWanted, Reliable
    <3>2. QED
      BY <1>1, <2>1, <3>1, HangUpWorksLemma
  <2>3. AgreeOn(device', client', g_clients)
    BY <1>1, <2>1, <2>2, DisconnectAgreeLemma DEF Agree
  <2>4. QED
    BY <2>1, <2>3 DEF Agree
<1>3. CASE FreeClient
  <2>1. /\ g_clients' \subseteq g_clients /\ device' = device
        /\ \A x \in Clients : client'[x].devices_connected = client[x].devices_connected
    BY <1>1, <1>3 DEF FreeClient, Tables, Client
  <2>2. QED
    BY <1>1, <2>1 DEF Agree, AgreeOn
<1>4. CASE Quit \/ Crash
  BY <1>4 DEF Quit, Crash, Exit, Agree, AgreeOn
<1>5. CASE Tick
  <2>1. /\ g_clients' = g_clients
        /\ \A d \in Devices : device'[d].clients_connected = device[d].clients_connected
        /\ \A x \in Clients : client'[x].devices_connected = client[x].devices_connected
    BY <1>1, <1>5 DEF Tick, Tables, Client, Device
  <2>2. QED
    BY <1>1, <2>1 DEF Agree, AgreeOn
<1>6. CASE UNCHANGED <<device, client, g_clients>>
  BY <1>6 DEF Agree, AgreeOn
<1>7. QED
  BY <1>2, <1>3, <1>4, <1>5, <1>6

\* Every step.
LEMMA AgreeLemma ==
  Reliable /\ IInv /\ InUseWhileWanted /\ Agree /\ [Next]_vars => Agree'
<1> SUFFICES ASSUME Reliable, IInv, InUseWhileWanted, Agree, [Next]_vars PROVE Agree'
  OBVIOUS
<1>1. CASE ClientSpeaks
  BY <1>1, SpeaksAgreeLemma
<1>2. CASE PeerSpeaks
  BY <1>2, CallsAgreeLemma
<1>3. CASE Sweep
  <2>1. ASSUME NEW c \in Clients, TimeoutOldClient(c)
        PROVE  UNCHANGED <<device, client, g_clients>>
    BY <2>1 DEF TimeoutOldClient
  <2>2. ClientsSwept \/ DevicesSwept => UNCHANGED <<device, client, g_clients>>
    BY DEF ClientsSwept, DevicesSwept
  <2>3. QED
    BY <1>3, <2>1, <2>2, CallsAgreeLemma, SweepAgreeLemma DEF Sweep
<1>4. CASE Quit \/ Crash \/ Tick
  BY <1>4, SweepAgreeLemma
<1>5. CASE \/ Start \/ TestKeepGoing \/ NothingToDo \/ SelectInterrupted
           \/ BroadcastStatus \/ Terminate \/ UNCHANGED vars
  <2>1. UNCHANGED <<device, client, g_clients>>
    BY <1>5 DEF Start, TestKeepGoing, NothingToDo, FromPeer, SelectInterrupted,
                BroadcastStatus, Terminate, vars
  <2>2. QED
    BY <2>1, SweepAgreeLemma
<1>6. QED
  BY <1>1, <1>2, <1>3, <1>4, <1>5 DEF Next, ServerStep

\* list_fns.c:377-397 and 403-418: while every script exits 0 and there are retries
\* to begin with, a client has a link on its list exactly if the link counts it as a
\* user, and nobody waits for a link that is down; with any number of each.
THEOREM ListsAgreeTheorem == Reliable /\ Spec => []ListsAgree
<1> SUFFICES ASSUME Reliable PROVE Spec => []ListsAgree
  OBVIOUS
<1>1. Init => Agree
  BY DEF Init, Agree, AgreeOn
<1>2. InUseWhileWanted /\ Agree => ListsAgree
  BY DEF InUseWhileWanted, Promise!InUseWhileWanted, Reliable, Agree, AgreeOn,
         ListsAgree, Users
<1>3. IInv /\ InUseWhileWanted /\ Agree /\ [Next]_vars => Agree'
  BY AgreeLemma
<1>4. QED
  BY <1>1, <1>2, <1>3, InvariantTheorem, InUseTheorem, PTL DEF Spec

-----------------------------------------------------------------------------
(***************************************************************************)
(* The socket of the server.                                               *)
(***************************************************************************)
Queue == {q \in Seq(Report) : Len(q) <= MaxReports}

\* The variables that are not the server's have their types.
AroundOK ==
    /\ line \in [Devices -> LineStatus]
    /\ reports \in Queue
    /\ unheard \in [Devices -> BOOLEAN]
    /\ orphan \in [Devices -> BOOLEAN]

\* A datagram more, if there is room, or one less.
LEMMA QueueLemma ==
  /\ <<>> \in Queue
  /\ \A q \in Queue : q # <<>> => Tail(q) \in Queue /\ Head(q) \in Report
  /\ \A q \in Queue, r \in Report : Len(q) < MaxReports => Append(q, r) \in Queue
BY MaxReportsAssumption DEF Queue

\* The peer sends one datagram (notify.c), or it is lost, or there is nothing to send.
LEMMA NotifyLemma ==
  ASSUME NEW queue \in Queue, NEW kind \in {"ISUP", "ISDOWN"}, NEW d \in Devices,
         Notify(queue, kind, d) \/ Silence(queue)
  PROVE  /\ reports' \in Queue
         /\ unheard' \in [Devices -> BOOLEAN]
         /\ orphan' \in [Devices -> BOOLEAN]
<1>1. [kind |-> kind, device |-> d] \in Report
  BY DEF Report
<1>2. reports' \in Queue
  BY <1>1, QueueLemma DEF Notify, Silence
<1>3. unheard' \in [Devices -> BOOLEAN] /\ orphan' \in [Devices -> BOOLEAN]
  BY DEF Notify, Silence, Remember
<1>4. QED
  BY <1>2, <1>3

\* What the scripts of a step do to the lines, and what pppd reports of it.
LEMMA ReactTypeLemma ==
  ASSUME AroundOK, NEW queue \in Queue, React(queue)
  PROVE  AroundOK'
<1>1. line' \in [Devices -> LineStatus]
  BY DEF React, AfterDial, AfterKill, LineStatus, AroundOK
<1>2. CASE Killed = {}
  <2>1. Silence(queue)
    BY <1>2 DEF React
  <2>2. reports' \in Queue
    BY <2>1 DEF Silence
  <2>3. unheard' \in [Devices -> BOOLEAN] /\ orphan' \in [Devices -> BOOLEAN]
    BY <2>1 DEF Silence, Remember
  <2>4. QED
    BY <1>1, <2>2, <2>3 DEF AroundOK
<1>3. CASE Killed # {}
  <2>1. PICK d \in Devices : Notify(queue, "ISDOWN", d)
    BY <1>3 DEF React, Killed
  <2>2. QED
    BY <1>1, <2>1, NotifyLemma DEF AroundOK
<1>4. QED
  BY <1>2, <1>3

\* Every step keeps the types of the surroundings.
LEMMA AroundLemma == AroundOK /\ [SystemNext]_sysVars => AroundOK'
<1> SUFFICES ASSUME AroundOK, [SystemNext]_sysVars PROVE AroundOK'
  OBVIOUS
<1>1. CASE ServerTurn \/ Outside
  BY <1>1, ReactTypeLemma DEF ServerTurn, Outside, AroundOK
<1>2. CASE Deliver
  <2>1. Tail(reports) \in Queue /\ React(Tail(reports))
    BY <1>2, QueueLemma DEF Deliver, AroundOK
  <2>2. QED
    BY <2>1, ReactTypeLemma
<1>3. CASE Begin
  BY <1>3 DEF Begin, AroundOK
<1>4. CASE End
  BY <1>4, QueueLemma DEF End, Remember, AroundOK
<1>5. ASSUME NEW d \in Devices, ComesUp(d) \/ DialFails(d) \/ GoesDown(d)
      PROVE  AroundOK'
  <2>1. line' \in [Devices -> LineStatus]
    BY <1>5 DEF ComesUp, DialFails, GoesDown, LineMoves, LineStatus, AroundOK
  <2>2. \E kind \in {"ISUP", "ISDOWN"} : Notify(reports, kind, d) \/ Silence(reports)
    BY <1>5 DEF ComesUp, DialFails, GoesDown
  <2>3. QED
    BY <2>1, <2>2, NotifyLemma DEF AroundOK
<1>6. CASE UNCHANGED sysVars
  BY <1>6 DEF sysVars, lineVars, AroundOK
<1>7. QED
  BY <1>1, <1>2, <1>3, <1>4, <1>5, <1>6 DEF SystemNext

-----------------------------------------------------------------------------
(***************************************************************************)
(* The server, seen on its own, does what LinkServer says: what is proved  *)
(* of LinkServer holds of the system.                                      *)
(***************************************************************************)

\* The steps in which the server or its surroundings act are the server's.
LEMMA ActingLemma == AroundOK /\ (ServerTurn \/ Deliver \/ Outside) => Next
<1> SUFFICES ASSUME AroundOK, ServerTurn \/ Deliver \/ Outside PROVE Next
  OBVIOUS
<1>1. CASE ServerTurn
  <2>1. \/ TestKeepGoing \/ ClientSpeaks \/ NothingToDo \/ SelectInterrupted
        \/ BroadcastStatus \/ Sweep
    BY <1>1 DEF ServerTurn
  <2>2. QED
    BY <2>1 DEF Next, ServerStep
<1>2. CASE Deliver
  <2>1. Head(reports).device \in Devices
    BY <1>2, QueueLemma DEF Deliver, AroundOK, Report
  <2>2. PeerSpeaks
    BY <1>2, <2>1 DEF Deliver, PeerSpeaks
  <2>3. QED
    BY <2>2 DEF Next, ServerStep
<1>3. CASE Outside
  BY <1>3 DEF Outside, Next
<1>4. QED
  BY <1>1, <1>2, <1>3

\* Each step of the system is a step of the server or leaves it alone.
LEMMA SystemStepLemma == AroundOK /\ [SystemNext]_sysVars => [Next]_vars
<1> SUFFICES ASSUME AroundOK, [SystemNext]_sysVars PROVE [Next]_vars
  OBVIOUS
<1>1. CASE ServerTurn \/ Deliver \/ Outside
  BY <1>1, ActingLemma
<1>2. CASE Begin
  BY <1>2 DEF Begin, Next
<1>3. CASE End
  BY <1>3 DEF End, Next, ServerStep
<1>4. CASE \/ \E d \in Devices : ComesUp(d) \/ DialFails(d) \/ GoesDown(d)
           \/ UNCHANGED sysVars
  BY <1>4 DEF ComesUp, DialFails, GoesDown, LineMoves, sysVars
<1>5. QED
  BY <1>1, <1>2, <1>3, <1>4 DEF SystemNext

\* The system as a whole implements LinkServer.
THEOREM ServerTheorem == SystemSpec => Spec
<1>1. SystemInit => AroundOK
  BY QueueLemma DEF SystemInit, AroundOK, LineStatus
<1>2. SystemInit => Init
  BY DEF SystemInit
<1>3. QED
  BY <1>1, <1>2, AroundLemma, SystemStepLemma, PTL DEF SystemSpec, Spec

\* Every variable of the system has its type, for any length of the socket's queue.
THEOREM SystemTypeTheorem == SystemSpec => []SystemTypeOK
<1>1. SystemInit => AroundOK
  BY QueueLemma DEF SystemInit, AroundOK, LineStatus
<1>2. TypeOK /\ AroundOK => SystemTypeOK
  BY DEF AroundOK, Queue, SystemTypeOK
<1>3. QED
  BY <1>1, <1>2, AroundLemma, ServerTheorem, TypeTheorem, PTL DEF SystemSpec

-----------------------------------------------------------------------------
(***************************************************************************)
(* The telephone is used for somebody or not at all.                       *)
(***************************************************************************)

\* A step that runs the scripts of one link changes no other line, and keeps the
\* history of that line.
LEMMA ReactLineLemma ==
  ASSUME NEW queue, React(queue), NEW d \in Devices
  PROVE  /\ line'[d] = AfterDial(d)
         /\ orphan'[d] = (orphan[d] /\ line'[d] # "idle")
<1>1. line'[d] = AfterDial(d)
  BY DEF React
<1>2. \E lost : Remember(lost)
  BY DEF React, Silence, Notify
<1>3. QED
  BY <1>1, <1>2 DEF Remember

\* The line of a link somebody uses is not left in use when the last user goes: the
\* step asks pppd to hang up, or kills it (list_fns.c:481-483, 531-578).
LineOK(d) ==
    pc # "exited" /\ ~orphan[d] /\ line[d] \in {"dialling", "up"} => Users(d) # {}

\* The scripts a step has run keep the line of every link that way.
LEMMA ReactLineOKLemma ==
  ASSUME IInv, IInv', Next, InUseWhileWanted, InUseWhileWanted', Reliable,
         pc # "exited", NEW queue, React(queue),
         NEW d \in Devices, orphan[d] \in BOOLEAN, LineOK(d)
  PROVE  LineOK(d)'
<1> SUFFICES ASSUME pc' # "exited", ~orphan'[d], line'[d] \in {"dialling", "up"},
                    Users(d)' = {}
             PROVE  FALSE
  BY DEF LineOK
<1>1. /\ Users(d) # {} <=> device[d].status \in {"CONNECTING", "UP"}
      /\ Users(d)' # {} <=> device'[d].status \in {"CONNECTING", "UP"}
  BY DEF InUseWhileWanted, Promise!InUseWhileWanted, Reliable, Users
<1>2. line'[d] = AfterDial(d) /\ orphan'[d] = (orphan[d] /\ line'[d] # "idle")
  BY ReactLineLemma
<1>3. ~orphan[d]
  BY <1>2
<1>4. PICK scripts \in Runnable : Tells(d, scripts)
  BY LinkLemma
<1>5. ~RunsScript(d, "up")
  BY <1>1, <1>4 DEF Tells, Orderly, TakesEffect, Startable, Reliable
<1>6. line'[d] = AfterKill(d)
  BY <1>2, <1>5 DEF AfterDial
<1>7. ~RunsScript(d, "force") /\ ~RunsScript(d, "down") /\ line'[d] = line[d]
  BY <1>6 DEF AfterKill
<1>8. Users(d) # {}
  BY <1>3, <1>7 DEF LineOK
<1>9. scripts \in {<<"down">>, <<"force">>}
  BY <1>1, <1>4, <1>8 DEF Tells, Orderly, EndsUse, Users, Reliable
<1>10. QED
  BY <1>4, <1>7, <1>9 DEF Tells

\* Every step of the system.
LEMMA LineOKLemma ==
  ASSUME IInv, IInv', InUseWhileWanted, InUseWhileWanted', Reliable, AroundOK,
         LineOnlyForUsers, [SystemNext]_sysVars
  PROVE  LineOnlyForUsers'
<1> SUFFICES ASSUME NEW d \in Devices PROVE LineOK(d)'
  BY DEF LineOnlyForUsers, LineOK
<1>1. LineOK(d) /\ orphan[d] \in BOOLEAN
  BY DEF LineOnlyForUsers, LineOK, AroundOK
<1>2. CASE ServerTurn \/ Deliver \/ Outside
  <2>1. \E queue : React(queue)
    BY <1>2 DEF ServerTurn, Deliver, Outside
  <2>2. pc # "exited"
    BY <1>2 DEF ServerTurn, Deliver, Outside, TestKeepGoing, ClientSpeaks, ClientUp,
                ClientDown, ClientForceDown, ClientAsks, ClientPing, FromClient,
                NothingToDo, FromPeer, SelectInterrupted, BroadcastStatus, Sweep,
                TimeoutOldClient, ExpireFromDevice, TimeoutOldDevice, FreeClient,
                ClientsSwept, DevicesSwept, PeerIsUp, PeerIsDown, Terminate, Tick
  <2>3. Next
    BY <1>2, ActingLemma
  <2>4. QED
    BY <1>1, <2>1, <2>2, <2>3, ReactLineOKLemma
<1>3. CASE Begin
  BY <1>3 DEF Begin, LineOK
<1>4. CASE End
  BY <1>4 DEF End, Quit, Crash, Exit, LineOK
<1>5. ASSUME NEW e \in Devices, ComesUp(e) \/ DialFails(e) \/ GoesDown(e)
      PROVE  LineOK(d)'
  <2>1. /\ line'[d] \in {"dialling", "up"} => line[d] \in {"dialling", "up"}
        /\ UNCHANGED <<pc, device>>
    BY <1>5 DEF ComesUp, DialFails, GoesDown, LineMoves, vars, AroundOK
  <2>2. \E lost : Remember(lost)
    BY <1>5 DEF ComesUp, DialFails, GoesDown, Notify, Silence
  <2>3. orphan'[d] = (orphan[d] /\ line'[d] # "idle")
    BY <2>2 DEF Remember
  <2>4. QED
    BY <1>1, <2>1, <2>3 DEF LineOK, Users
<1>6. CASE UNCHANGED sysVars
  BY <1>1, <1>6 DEF sysVars, lineVars, vars, LineOK, Users
<1>7. QED
  BY <1>2, <1>3, <1>4, <1>5, <1>6 DEF SystemNext

\* list_fns.c:481-483, with any number of clients and links: while the scripts work,
\* a line this process has dialled is in use for somebody or is being hung up,
\* whatever happens to the reports about it.
THEOREM LineOnlyForUsersTheorem == Reliable /\ SystemSpec => []LineOnlyForUsers
<1> SUFFICES ASSUME Reliable PROVE SystemSpec => []LineOnlyForUsers
  OBVIOUS
<1>1. SystemInit => AroundOK /\ LineOnlyForUsers
  BY QueueLemma DEF SystemInit, AroundOK, LineStatus, LineOnlyForUsers
<1>2. /\ IInv /\ IInv' /\ InUseWhileWanted /\ InUseWhileWanted' /\ AroundOK
      /\ LineOnlyForUsers /\ [SystemNext]_sysVars
      => LineOnlyForUsers'
  BY LineOKLemma
<1>3. QED
  BY <1>1, <1>2, AroundLemma, ServerTheorem, InvariantTheorem, InUseTheorem, PTL
  DEF SystemSpec

-----------------------------------------------------------------------------
(***************************************************************************)
(* A link the server believes up is up.  UpIsUp alone is not inductive: it *)
(* says nothing while a report waits.  What is preserved is about what the *)
(* server will believe when it has read the last report of the link that   *)
(* waits: the connection this is about has not ended, or its end will be   *)
(* the report after.                                                       *)
(***************************************************************************)
LastIsUp(queue, d) ==
    \E i \in About(queue, d) :
        queue[i].kind = "ISUP" /\ \A j \in About(queue, d) : j <= i

TakenAsUp(queue, d) ==
    LastIsUp(queue, d) \/ (device[d].status = "UP" /\ About(queue, d) = {})

BeliefOK(d) == TakenAsUp(reports, d) /\ ~unheard[d] => line[d] \in {"up", "hanging"}

Belief == \A d \in Devices : BeliefOK(d)

\* A datagram at the end of the queue is the last about its link.
LEMMA AppendLemma ==
  ASSUME NEW queue \in Seq(Report), NEW r \in Report, NEW d
  PROVE  /\ r.device # d =>
              /\ About(Append(queue, r), d) = About(queue, d)
              /\ LastIsUp(Append(queue, r), d) => LastIsUp(queue, d)
         /\ r.device = d =>
              /\ About(Append(queue, r), d) # {}
              /\ r.kind = "ISDOWN" => ~LastIsUp(Append(queue, r), d)
<1> DEFINE longer == Append(queue, r)
           n      == Len(queue) + 1
<1>1. /\ DOMAIN queue = 1 .. Len(queue) /\ DOMAIN longer = 1 .. n
      /\ Len(queue) \in Nat
      /\ longer[n] = r
      /\ \A i \in DOMAIN queue : longer[i] = queue[i]
  OBVIOUS
<1> HIDE DEF longer
<1>2. CASE r.device # d
  <2>1. About(longer, d) = About(queue, d)
    BY <1>1, <1>2 DEF About
  <2>2. \A i \in About(queue, d) : longer[i] = queue[i]
    BY <1>1 DEF About
  <2>3. LastIsUp(longer, d) => LastIsUp(queue, d)
    BY <2>1, <2>2 DEF LastIsUp
  <2>4. QED
    BY <1>2, <2>1, <2>3 DEF longer
<1>3. CASE r.device = d
  <2>1. n \in About(longer, d) /\ \A i \in About(longer, d) : i \in Int /\ i <= n
    BY <1>1, <1>3 DEF About
  <2>2. r.kind = "ISDOWN" => ~LastIsUp(longer, d)
    BY <1>1, <2>1 DEF LastIsUp
  <2>3. QED
    BY <1>3, <2>1, <2>2 DEF longer
<1>4. QED
  BY <1>2, <1>3

\* Reading the oldest datagram leaves the last about a link the last, unless it was
\* the only one.
LEMMA TailLastLemma ==
  ASSUME NEW queue \in Seq(Report), queue # <<>>, NEW d
  PROVE  /\ LastIsUp(Tail(queue), d) => LastIsUp(queue, d)
         /\ About(Tail(queue), d) = {} =>
              IF Head(queue).device = d
              THEN Head(queue).kind = "ISUP" => LastIsUp(queue, d)
              ELSE About(queue, d) = {}
<1> DEFINE rest == Tail(queue)
<1>1. /\ DOMAIN queue = 1 .. Len(queue) /\ DOMAIN rest = 1 .. Len(queue) - 1
      /\ Len(queue) \in Nat /\ Len(queue) >= 1
      /\ queue[1] = Head(queue)
      /\ \A i \in DOMAIN rest : rest[i] = queue[i + 1]
  OBVIOUS
<1> HIDE DEF rest
<1>2. /\ \A i \in About(rest, d) : i + 1 \in About(queue, d)
      /\ \A j \in About(queue, d) : j = 1 \/ j - 1 \in About(rest, d)
      /\ \A j \in About(queue, d) : j \in Int
      /\ \A j \in About(rest, d) : j \in Int /\ j >= 1
  BY <1>1 DEF About
<1>3. ASSUME LastIsUp(rest, d)
      PROVE  LastIsUp(queue, d)
  <2>1. PICK i \in About(rest, d) :
          rest[i].kind = "ISUP" /\ \A j \in About(rest, d) : j <= i
    BY <1>3 DEF LastIsUp
  <2>2. queue[i + 1].kind = "ISUP" /\ i + 1 \in About(queue, d)
    BY <1>1, <1>2, <2>1 DEF About
  <2> i \in Int /\ i >= 1
    BY <1>2
  <2>3. ASSUME NEW j \in About(queue, d)
        PROVE  j <= i + 1
    <3>1. CASE j = 1
      BY <3>1
    <3>2. CASE j - 1 \in About(rest, d)
      BY <1>2, <2>1, <3>2
    <3>3. QED
      BY <1>2, <3>1, <3>2
  <2>4. QED
    BY <2>2, <2>3 DEF LastIsUp
<1>4. ASSUME About(rest, d) = {}
      PROVE  IF Head(queue).device = d
             THEN Head(queue).kind = "ISUP" => LastIsUp(queue, d)
             ELSE About(queue, d) = {}
  <2>1. About(queue, d) \subseteq {1}
    BY <1>2, <1>4
  <2>2. 1 \in About(queue, d) <=> Head(queue).device = d
    BY <1>1 DEF About
  <2>3. Head(queue).device = d /\ Head(queue).kind = "ISUP" => LastIsUp(queue, d)
    BY <1>1, <2>1, <2>2 DEF LastIsUp
  <2>4. QED
    BY <2>1, <2>2, <2>3
<1>5. QED
  BY <1>3, <1>4 DEF rest

\* While the server does not know that a link is down there is something left to hear.
LEMMA RememberLemma ==
  ASSUME NEW lost, Remember(lost), NEW d \in Devices, ~unheard'[d],
         TakenAsUp(reports, d)'
  PROVE  ~unheard[d] /\ d \notin lost
<1>1. ~Settled(d)
  BY DEF Settled, TakenAsUp, LastIsUp
<1>2. unheard'[d] = ((unheard[d] \/ d \in lost) /\ ~Settled(d))
  BY DEF Remember
<1>3. QED
  BY <1>1, <1>2

\* A report about a link that comes after it was killed, or that is lost, is not one
\* the server will take it as up for.
LEMMA EndedLemma ==
  ASSUME NEW queue \in Queue, NEW d \in Devices, Notify(queue, "ISDOWN", d),
         ~unheard'[d]
  PROVE  ~TakenAsUp(reports, d)'
<1> SUFFICES ASSUME TakenAsUp(reports, d)' PROVE FALSE
  OBVIOUS
<1> DEFINE report == [kind |-> "ISDOWN", device |-> d]
<1>1. report \in Report /\ report.device = d /\ report.kind = "ISDOWN"
  BY DEF Report
<1>2. CASE reports' = Append(queue, report)
  <2> HIDE DEF report
  <2>1. queue \in Seq(Report)
    BY DEF Queue
  <2>2. About(Append(queue, report), d) # {} /\ ~LastIsUp(Append(queue, report), d)
    BY <1>1, <2>1, AppendLemma
  <2>3. About(reports', d) # {} /\ ~LastIsUp(reports', d)
    BY <1>2, <2>2
  <2>4. QED
    BY <2>3 DEF TakenAsUp
<1>3. CASE Remember({d})
  BY <1>3, RememberLemma
<1>4. QED
  BY <1>2, <1>3 DEF Notify

\* A report about another link, or none, changes nothing.
LEMMA OtherLemma ==
  ASSUME NEW queue \in Queue, NEW d \in Devices, NEW e \in Devices \ {d},
         NEW kind \in {"ISUP", "ISDOWN"},
         Notify(queue, kind, e) \/ Silence(queue)
  PROVE  /\ About(reports', d) = About(queue, d)
         /\ LastIsUp(reports', d) => LastIsUp(queue, d)
         /\ \E lost : Remember(lost)
<1> DEFINE report == [kind |-> kind, device |-> e]
<1>1. report \in Report /\ report.device # d
  BY DEF Report
<1>2. \/ reports' = Append(queue, report)
      \/ reports' = queue
  BY DEF Notify, Silence
<1>3. \E lost : Remember(lost)
  BY DEF Notify, Silence
<1> HIDE DEF report
<1>4. queue \in Seq(Report)
  BY DEF Queue
<1>5. /\ About(Append(queue, report), d) = About(queue, d)
      /\ LastIsUp(Append(queue, report), d) => LastIsUp(queue, d)
  BY <1>1, <1>4, AppendLemma
<1>6. QED
  BY <1>2, <1>3, <1>5

\* One step runs the scripts of one link only.
LEMMA OneKilledLemma ==
  ASSUME IInv, Next, NEW d \in Killed, NEW e \in Killed
  PROVE  d = e
<1>1. RunsScript(d, "force") /\ RunsScript(e, "force") /\ d \in Devices
  BY DEF Killed
<1>2. ran' # <<>>
  BY <1>1 DEF RunsScript
<1>3. PICK scripts \in Runnable : Tells(d, scripts)
  BY <1>1, <1>2, LinkLemma
<1>4. scripts \in {<<"force">>, <<"force", "up">>}
  BY <1>1, <1>3 DEF Tells
<1>5. scripts # <<>>
  BY <1>4, TuplesLemma DEF Dialling
<1>6. Runs(d, scripts)
  BY <1>3, <1>5 DEF Tells
<1>7. QED
  BY <1>1, <1>6, RunsScriptLemma

\* Scripts and reports keep the belief sound, if the server's step itself does not
\* make it take a link as up for less than it had.
LEMMA ReactBeliefLemma ==
  ASSUME IInv, Next, AroundOK, NEW queue \in Queue, React(queue),
         NEW d \in Devices, BeliefOK(d),
         LastIsUp(queue, d) => LastIsUp(reports, d),
         device'[d].status = "UP" /\ About(queue, d) = {} => TakenAsUp(reports, d)
  PROVE  BeliefOK(d)'
<1> SUFFICES ASSUME TakenAsUp(reports, d)', ~unheard'[d]
             PROVE  line'[d] \in {"up", "hanging"}
  BY DEF BeliefOK
<1>1. CASE d \in Killed
  <2>1. PICK e \in Killed : Notify(queue, "ISDOWN", e)
    BY <1>1 DEF React
  <2>2. e = d
    BY <1>1, <2>1, OneKilledLemma
  <2>3. QED
    BY <2>1, <2>2, EndedLemma
<1>2. CASE d \notin Killed
  <2>1. /\ About(reports', d) = About(queue, d)
        /\ LastIsUp(reports', d) => LastIsUp(queue, d)
        /\ \E lost : Remember(lost)
    <3>1. CASE Killed = {}
      BY <3>1 DEF React, Silence
    <3>2. CASE Killed # {}
      <4>1. PICK e \in Killed : Notify(queue, "ISDOWN", e)
        BY <3>2 DEF React
      <4>2. e \in Devices \ {d}
        BY <1>2, <4>1 DEF Killed
      <4>3. QED
        BY <4>1, <4>2, OtherLemma
    <3>3. QED
      BY <3>1, <3>2
  <2>2. ~unheard[d]
    BY <2>1, RememberLemma
  <2>3. TakenAsUp(reports, d)
    BY <2>1 DEF TakenAsUp
  <2>4. line[d] \in {"up", "hanging"}
    BY <2>2, <2>3 DEF BeliefOK
  <2>5. ~RunsScript(d, "force")
    BY <1>2, <2>4 DEF Killed
  <2>6. AfterKill(d) \in {"up", "hanging"}
    BY <2>4, <2>5 DEF AfterKill
  <2>7. QED
    BY <2>6, ReactLineLemma DEF AfterDial
<1>3. QED
  BY <1>1, <1>2

\* Only an ISUP brings a link to UP (list_fns.c:657-669): the server's other steps
\* leave it up or do not.
LEMMA OnlyReportsLemma ==
  ASSUME IInv, ServerTurn \/ Outside, NEW d \in Devices, device'[d].status = "UP"
  PROVE  device[d].status = "UP"
<1>1. device \in [Devices -> Device] /\ DisconnectingUnused
  BY DEF IInv, TypeOK
<1>2. ASSUME NEW c \in Clients, NEW e \in Devices, NEW cmd \in Commands,
             NEW table, NEW known, ConnectClientToDevice(c, e, cmd, table, known)
      PROVE  device[d].status = "UP"
  <2> DEFINE r == DialIfUnused(device[e], cmd)
             new == IF r.ok
                    THEN [r.dev EXCEPT !.clients_connected = r.dev.clients_connected \cup {c}]
                    ELSE r.dev
  <2>1. device' = [device EXCEPT ![e] = new]
    BY <1>2 DEF ConnectClientToDevice
  <2>2. /\ r.dev \in Device
        /\ r.dev.status \in {device[e].status, "CONNECTING", "DOWN"}
    BY <1>1, DialIfUnusedLemma DEF Sound, Result
  <2> HIDE DEF r
  <2>3. new.status = r.dev.status
    BY <2>2 DEF Device
  <2> HIDE DEF new
  <2>4. QED
    BY <1>1, <2>1, <2>2, <2>3
<1>3. ASSUME NEW c \in Clients, NEW e \in Devices, NEW cmd \in Commands,
             NEW table, NEW known, DisconnectClientFromDevice(c, e, cmd, table, known)
      PROVE  device[d].status = "UP"
  <2> DEFINE r == HangUpIfLast(device[e], c, cmd)
  <2>1. device' = [device EXCEPT ![e] = r.dev]
    BY <1>3 DEF DisconnectClientFromDevice
  <2>2. r.dev.status \in {device[e].status, "DISCONNECTING", "DOWN"}
    BY <1>1, HangUpIfLastLemma
  <2> HIDE DEF r
  <2>3. QED
    BY <1>1, <2>1, <2>2
<1>4. ASSUME NEW c \in Clients, NEW e \in Devices, NEW cmd \in Commands,
             ClientForceDown(c, e, cmd)
      PROVE  device[d].status = "UP"
  <2> DEFINE down == ToDown(device[e], cmd)
             r    == IF down.ok THEN NoUsers(down) ELSE down
  <2>1. device' = [device EXCEPT ![e] = r.dev]
    BY <1>4 DEF ClientForceDown, AlterDeviceStatus, Alter
  <2>2. /\ down.dev \in Device
        /\ down.dev.status \in {device[e].status, "DOWN"}
    BY <1>1, ToDownLemma DEF Sound, Result
  <2> HIDE DEF down
  <2>3. r.dev.status = down.dev.status
    BY <2>2 DEF NoUsers, Returns, Device
  <2> HIDE DEF r
  <2>4. QED
    BY <1>1, <2>1, <2>2, <2>3
<1>5. ASSUME NEW e \in Devices, NEW cmd \in Commands, TimeoutOldDevice(e, cmd)
      PROVE  device[d].status = "UP"
  <2> DEFINE r == IF Overdue(device[e])
                  THEN AlterDeviceStatus(device[e], device[e].status, cmd)
                  ELSE Done(device[e])
  <2>1. device' = [device EXCEPT ![e] = r.dev]
    BY <1>5 DEF TimeoutOldDevice, Alter
  <2>2. r.dev.status \in {device[e].status, "CONNECTING", "DISCONNECTING", "DOWN"}
    <3>1. CASE Overdue(device[e]) /\ device[e].status = "CONNECTING"
      <4>1. r = ToConnecting(device[e], cmd)
        BY <3>1 DEF AlterDeviceStatus
      <4>2. QED
        BY <1>1, <4>1, ToConnectingLemma
    <3>2. CASE Overdue(device[e]) /\ device[e].status = "DISCONNECTING"
      <4>1. r = ToDisconnecting(device[e], cmd)
        BY <3>2 DEF AlterDeviceStatus
      <4>2. QED
        BY <1>1, <4>1, ToDisconnectingLemma
    <3>3. CASE ~Overdue(device[e])
      <4>1. r.dev = device[e]
        BY <3>3 DEF Done, Returns
      <4>2. QED
        BY <4>1
    <3>4. QED
      BY <3>1, <3>2, <3>3 DEF Overdue
  <2> HIDE DEF r
  <2>3. QED
    BY <1>1, <2>1, <2>2
<1>6. CASE Tick
  BY <1>1, <1>6 DEF Tick, Device
<1>7. CASE UNCHANGED device
  BY <1>7
<1>8. CASE ClientSpeaks
  BY <1>2, <1>3, <1>4, <1>7, <1>8
  DEF ClientSpeaks, ClientUp, ClientDown, ClientAsks, ClientPing
<1>9. CASE Sweep
  <2>1. ASSUME NEW e \in Devices, NEW cmd \in Commands, ExpireFromDevice(e, cmd)
        PROVE  device[d].status = "UP"
    BY <1>3, <2>1 DEF ExpireFromDevice, IInv, TypeOK
  <2>2. QED
    BY <1>5, <1>7, <1>9, <2>1
    DEF Sweep, TimeoutOldClient, FreeClient, ClientsSwept, DevicesSwept
<1>10. QED
  BY <1>6, <1>7, <1>8, <1>9
  DEF ServerTurn, Outside, TestKeepGoing, NothingToDo, SelectInterrupted,
      BroadcastStatus, Terminate

\* The server reads a report: an ISUP that was the last about its link makes it take
\* the link as up as much as before, and after an ISDOWN it does not, if the script
\* can be started.
LEMMA DeliverBeliefLemma ==
  ASSUME IInv, AroundOK, Startable, Deliver, NEW d \in Devices, BeliefOK(d)
  PROVE  BeliefOK(d)'
<1> DEFINE queue == Tail(reports)
           e     == Head(reports).device
<1>1. reports \in Seq(Report) /\ reports # <<>> /\ queue \in Queue /\ e \in Devices
  BY QueueLemma DEF Deliver, AroundOK, Queue, Report
<1>2. React(queue) /\ Next
  BY ActingLemma DEF Deliver
<1>3. /\ LastIsUp(queue, d) => LastIsUp(reports, d)
      /\ About(queue, d) = {} =>
           IF e = d THEN Head(reports).kind = "ISUP" => LastIsUp(reports, d)
                    ELSE About(reports, d) = {}
  BY <1>1, TailLastLemma
<1>4. device \in [Devices -> Device]
  BY DEF IInv, TypeOK
<1>5. CASE e = d /\ Head(reports).kind = "ISUP"
  <2>1. About(queue, d) = {} => TakenAsUp(reports, d)
    BY <1>3, <1>5 DEF TakenAsUp
  <2>2. QED
    BY <1>1, <1>2, <1>3, <2>1, ReactBeliefLemma
<1>6. CASE e = d /\ Head(reports).kind # "ISUP"
  <2>1. PICK cmd \in Commands : PeerIsDown(d, cmd)
    BY <1>6 DEF Deliver
  <2>2. device'[d] = ToDown(device[d], cmd).dev
    BY <1>4, <2>1 DEF PeerIsDown, AlterDeviceStatus, Alter
  <2>3. ToDown(device[d], cmd).ok
    BY <1>4, ToDownRanLemma
  <2>4. device'[d].status = "DOWN"
    BY <1>4, <2>2, <2>3, ToDownLemma
  <2>5. QED
    BY <1>1, <1>2, <1>3, <2>4, ReactBeliefLemma
<1>7. CASE e # d
  <2>1. device'[d] = device[d]
    <3>1. CASE Head(reports).kind = "ISUP"
      <4>1. PeerIsUp(e)
        BY <3>1 DEF Deliver
      <4>2. QED
        BY <1>4, <1>7, <4>1 DEF PeerIsUp, Alter
    <3>2. CASE Head(reports).kind # "ISUP"
      <4>1. PICK cmd \in Commands : PeerIsDown(e, cmd)
        BY <3>2 DEF Deliver
      <4>2. QED
        BY <1>4, <1>7, <4>1 DEF PeerIsDown, Alter
    <3>3. QED
      BY <3>1, <3>2
  <2>2. device'[d].status = "UP" /\ About(queue, d) = {} => TakenAsUp(reports, d)
    BY <1>3, <1>7, <2>1 DEF TakenAsUp
  <2>3. QED
    BY <1>1, <1>2, <1>3, <2>2, ReactBeliefLemma
<1>8. QED
  BY <1>5, <1>6, <1>7

\* The line moves by itself; when a connection comes or goes the peer says so, or the
\* report is lost.
LEMMA MoveBeliefLemma ==
  ASSUME AroundOK, NEW e \in Devices, ComesUp(e) \/ DialFails(e) \/ GoesDown(e),
         NEW d \in Devices, BeliefOK(d)
  PROVE  BeliefOK(d)'
<1> SUFFICES ASSUME TakenAsUp(reports, d)', ~unheard'[d]
             PROVE  line'[d] \in {"up", "hanging"}
  BY DEF BeliefOK
<1>1. device' = device /\ reports \in Queue /\ line \in [Devices -> LineStatus]
  BY DEF ComesUp, DialFails, GoesDown, LineMoves, vars, AroundOK
<1>2. CASE e # d
  <2>1. line'[d] = line[d]
    BY <1>1, <1>2 DEF ComesUp, DialFails, GoesDown, LineMoves
  <2>2. \E kind \in {"ISUP", "ISDOWN"} : Notify(reports, kind, e) \/ Silence(reports)
    BY DEF ComesUp, DialFails, GoesDown
  <2>3. /\ About(reports', d) = About(reports, d)
        /\ LastIsUp(reports', d) => LastIsUp(reports, d)
        /\ \E lost : Remember(lost)
    BY <1>1, <1>2, <2>2, OtherLemma
  <2>4. TakenAsUp(reports, d) /\ ~unheard[d]
    BY <1>1, <2>3, RememberLemma DEF TakenAsUp
  <2>5. QED
    BY <2>1, <2>4 DEF BeliefOK
<1>3. CASE e = d /\ ComesUp(d)
  BY <1>1, <1>3 DEF ComesUp, LineMoves
<1>4. CASE e = d /\ GoesDown(d)
  <2>1. Notify(reports, "ISDOWN", d)
    BY <1>4 DEF GoesDown
  <2>2. QED
    BY <1>1, <2>1, EndedLemma
<1>5. CASE e = d /\ DialFails(d)
  <2>1. reports' = reports /\ Remember({}) /\ line[d] = "dialling"
    BY <1>5 DEF DialFails, Silence, LineMoves
  <2>2. TakenAsUp(reports, d) /\ ~unheard[d]
    BY <1>1, <2>1, RememberLemma DEF TakenAsUp
  <2>3. QED
    BY <2>1, <2>2 DEF BeliefOK
<1>6. QED
  BY <1>2, <1>3, <1>4, <1>5

\* Every step.
LEMMA BeliefLemma ==
  Startable /\ IInv /\ AroundOK /\ Belief /\ [SystemNext]_sysVars => Belief'
<1> SUFFICES ASSUME Startable, IInv, AroundOK, Belief, [SystemNext]_sysVars,
                    NEW d \in Devices
             PROVE  BeliefOK(d)'
  BY DEF Belief
<1>1. BeliefOK(d)
  BY DEF Belief
<1>2. CASE ServerTurn \/ Outside
  <2>1. React(reports) /\ reports \in Queue /\ Next
    BY <1>2, ActingLemma DEF ServerTurn, Outside, AroundOK
  <2>2. device'[d].status = "UP" /\ About(reports, d) = {} => TakenAsUp(reports, d)
    BY <1>2, OnlyReportsLemma DEF TakenAsUp
  <2>3. QED
    BY <1>1, <2>1, <2>2, ReactBeliefLemma
<1>3. CASE Deliver
  BY <1>1, <1>3, DeliverBeliefLemma
<1>4. CASE Begin
  BY <1>1, <1>4 DEF Begin, Start, BeliefOK, TakenAsUp
<1>5. CASE End
  <2>1. reports' = <<>> /\ device'[d].status = "DOWN"
    BY <1>5 DEF End, Quit, Crash, Exit, NewDevice
  <2>2. About(reports', d) = {}
    BY <2>1 DEF About
  <2>3. QED
    BY <2>1, <2>2 DEF BeliefOK, TakenAsUp, LastIsUp
<1>6. CASE \E e \in Devices : ComesUp(e) \/ DialFails(e) \/ GoesDown(e)
  BY <1>1, <1>6, MoveBeliefLemma
<1>7. CASE UNCHANGED sysVars
  BY <1>1, <1>7 DEF sysVars, lineVars, vars, BeliefOK, TakenAsUp
<1>8. QED
  BY <1>2, <1>3, <1>4, <1>5, <1>6, <1>7 DEF SystemNext

\* process_peer.c:18-41, with any number of links and of reports in the socket: while
\* the scripts work and no report was lost, a server with nothing left to read about a
\* link it believes up is right, or the end of the connection is still to be reported.
THEOREM UpIsUpTheorem == Outcomes = {"ok"} /\ SystemSpec => []UpIsUp
<1> SUFFICES ASSUME Outcomes = {"ok"} PROVE SystemSpec => []UpIsUp
  OBVIOUS
<1>1. SystemInit => AroundOK /\ Belief
  <2> SUFFICES ASSUME SystemInit PROVE AroundOK /\ Belief
    OBVIOUS
  <2>1. AroundOK
    BY QueueLemma DEF SystemInit, AroundOK, LineStatus
  <2>2. \A d \in Devices : device[d].status = "DOWN" /\ About(reports, d) = {}
    BY DEF SystemInit, Init, NewDevice, About
  <2>3. QED
    BY <2>1, <2>2 DEF Belief, BeliefOK, TakenAsUp, LastIsUp
<1>2. IInv /\ AroundOK /\ Belief /\ [SystemNext]_sysVars => Belief'
  BY BeliefLemma DEF Startable
<1>3. Belief => UpIsUp
  BY DEF Belief, BeliefOK, TakenAsUp, UpIsUp
<1>4. QED
  BY <1>1, <1>2, <1>3, AroundLemma, ServerTheorem, InvariantTheorem, PTL
  DEF SystemSpec

\* README.protocol:60-68: so the clients are promised the same when the lines, the
\* scripts and the peer behave as they do.
THEOREM SystemPromiseTheorem == SystemSpec => SharedLinkPromise
BY ServerTheorem, SharedLinkTheorem, PTL

=============================================================================
