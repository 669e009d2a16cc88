----------------------------- MODULE LinkServer -----------------------------
(***************************************************************************)
(* The link server: src/server/server.c, list_fns.c, process_client.c,     *)
(* process_peer.c, send_message.c and poll_clients.c.                      *)
(*                                                                         *)
(* One single-threaded process keeps the list g_devices of links it can    *)
(* dial, the list g_clients of machines it has heard from, and two cross   *)
(* lists: who uses a link (device_t.clients_connected) and which links a   *)
(* client uses (client_t.devices_connected).  It works in turns: wait in   *)
(* select() for one datagram, handle it, broadcast the status of every     *)
(* link, age the clients, age the links.                                   *)
(*                                                                         *)
(* Abstractions.  Lists are sets (add_client and add_device refuse         *)
(* duplicates, and nothing depends on the order but the order of a sweep,  *)
(* which is left open here).  connect_time and last_heard_from are ages    *)
(* (now - the stamp), because the code only ever compares them with a      *)
(* timeout; an age stops growing at MaxAge, which exceeds every timeout.   *)
(* retries stops falling once negative, the only thing the code tests.     *)
(* malloc() always succeeds.  A datagram is any message from any client or *)
(* from the notification peer at any time, so the network may lose, repeat *)
(* and reorder as it likes.                                                *)
(***************************************************************************)
EXTENDS Integers, Sequences, FiniteSets

CONSTANTS
    Clients,              \* client machines, known by IP address
    Devices,              \* the [Device] sections of the configuration
    NoClient,             \* a NULL client_t pointer
    Outcomes,             \* what system() may do: see Commands below
    g_retries,            \* redials after the first attempt
    g_connect_timeout,
    g_disconnect_timeout,
    g_client_timeout,
    MaxAge                \* ages saturate here

(***************************************************************************)
(* system() returns 0 ("ok"), a positive value ("failed": the script       *)
(* exited non-zero, the shell could not run it, or the configuration names *)
(* none and the argument is NULL), or -1 ("error": fork failed).  The      *)
(* callers only test for < 0.                                              *)
(***************************************************************************)
ASSUME OutcomesAssumption == Outcomes \subseteq {"ok", "failed", "error"}

ASSUME TimeoutAssumption ==
    /\ MaxAge \in Nat
    /\ g_connect_timeout \in 0 .. MaxAge - 1
    /\ g_disconnect_timeout \in 0 .. MaxAge - 1
    /\ g_client_timeout \in 0 .. MaxAge - 1

ASSUME RetriesAssumption == g_retries \in Int

ASSUME NoClientAssumption == NoClient \notin Clients

VARIABLES
    device,        \* g_devices: [Devices -> Device]
    client,        \* the client_t of every machine, meaningful if in g_clients
    g_clients,     \* the machines in the global client list
    g_keep_going,  \* FALSE once a signal has asked the server to stop
    pc,            \* where main() is
    clients_left,  \* the rest of the list timeout_old_clients() walks
    devices_left,  \* the rest of the list a sweep over g_devices walks
    leaving,       \* the client remove_client_from_all_devices() works on
    ran,           \* the commands the last step ran, in order
    sent           \* the datagram the last step sent

vars == <<device, client, g_clients, g_keep_going, pc, clients_left,
          devices_left, leaving, ran, sent>>

-----------------------------------------------------------------------------
(***************************************************************************)
(* Types.                                                                  *)
(***************************************************************************)
Status == {"DOWN", "CONNECTING", "UP", "DISCONNECTING"}
Age    == 0 .. MaxAge

Device == [status : Status, connect_age : Age,
           clients_connected : SUBSET Clients, retries : Int]
Client == [heard_age : Age, devices_connected : SUBSET Devices]

\* What system() does if a handler runs the up, down or force_down script.
Commands == [up : Outcomes, down : Outcomes, force : Outcomes]

\* parse_device_section() leaves a new link down with nobody on it, and
\* connect_time 0, i.e. long ago.
NewDevice == [status |-> "DOWN", connect_age |-> MaxAge,
              clients_connected |-> {}, retries |-> 0]
NewClient == [heard_age |-> 0, devices_connected |-> {}]

NoPacket == [kind |-> "NONE"]

Older(age)  == IF age < MaxAge THEN age + 1 ELSE age

\* Faulty: the attempt is not counted.
FewerNever(n) == n

Fewer(n) == IF n < 0 THEN n ELSE n - 1

-----------------------------------------------------------------------------
(***************************************************************************)
(* The link functions.  Each maps a device dv, and the outcomes cmd of the *)
(* scripts, to what the C function leaves behind:                          *)
(*   ok      - it returned >= 0                                            *)
(*   dev     - the device_t afterwards                                     *)
(*   cleared - the device was taken off every client's own list            *)
(*   ran     - the scripts that were run, in order                         *)
(***************************************************************************)
Returns(ok, dv, cleared, scripts) ==
    [ok |-> ok, dev |-> dv, cleared |-> cleared, ran |-> scripts]

Done(dv)    == Returns(TRUE, dv, FALSE, <<>>)
Invalid(dv) == Returns(FALSE, dv, FALSE, <<>>)

\* connect_time is stamped only when the script exits 0.
LinkUp(dv, cmd) ==
    Returns(cmd.up # "error",
            [dv EXCEPT !.connect_age = IF cmd.up = "ok" THEN 0 ELSE @],
            FALSE, <<"up">>)

LinkDown(dv, cmd) ==
    Returns(cmd.down # "error",
            [dv EXCEPT !.connect_age = IF cmd.down = "ok" THEN 0 ELSE @],
            FALSE, <<"down">>)

\* Everybody is thrown off, on both sides, only when the script exits 0.
LinkForceDown(dv, cmd) ==
    Returns(cmd.force # "error",
            [dv EXCEPT !.clients_connected = IF cmd.force = "ok" THEN {} ELSE @],
            cmd.force = "ok", <<"force">>)

\* The common tail of alter_device_status().
Enter(r, new) ==
    IF r.ok THEN Returns(TRUE, [r.dev EXCEPT !.status = new], r.cleared, r.ran)
            ELSE r

ToDown(dv, cmd) ==
    IF dv.status = "DISCONNECTING"
    THEN Enter(Done(dv), "DOWN")
    ELSE Enter(LinkForceDown(dv, cmd), "DOWN")

\* Faulty: the attempt is stamped only if the script exits 0 (no line 605).
DialUnstamped(dv, cmd) ==
    LET tried == [dv EXCEPT !.retries = Fewer(@)]
    IN  IF dv.retries < 0 THEN ToDown(tried, cmd)
        ELSE Enter(LinkUp(tried, cmd), "CONNECTING")

\* case LINK_CONNECTING of the inner switch, where the others fall through.
\* The attempt is stamped unless system() itself failed.
Stamp(r) ==
    IF r.ok THEN Returns(TRUE, [r.dev EXCEPT !.connect_age = 0], r.cleared, r.ran)
            ELSE r

Dial(dv, cmd) ==
    LET tried == [dv EXCEPT !.retries = Fewer(@)]
    IN  IF dv.retries < 0 THEN ToDown(tried, cmd)
        ELSE Enter(Stamp(LinkUp(tried, cmd)), "CONNECTING")

\* Faulty: the first attempt is not counted among the retries.
AllRetriesOnceMore(dv) == [dv EXCEPT !.retries = g_retries + 1]

AllRetries(dv) == [dv EXCEPT !.retries = g_retries]

\* Two calls one after the other.
Then(first, second) ==
    Returns(second.ok, second.dev, first.cleared \/ second.cleared,
            first.ran \o second.ran)

KillAndDial(dv, cmd) ==
    LET kill == LinkForceDown(dv, cmd)
    IN  IF kill.ok THEN Then(kill, Dial(AllRetries(kill.dev), cmd)) ELSE kill

\* Faulty: a link going down is dialled at once.
ToConnectingWithoutKill(dv, cmd) ==
    CASE dv.status = "CONNECTING" -> Dial(dv, cmd)
      [] dv.status \in {"DOWN", "DISCONNECTING"} -> Dial(AllRetries(dv), cmd)
      [] dv.status = "UP" -> Invalid(dv)

ToConnecting(dv, cmd) ==
    CASE dv.status = "CONNECTING"    -> Dial(dv, cmd)
      [] dv.status = "DOWN"          -> Dial(AllRetries(dv), cmd)
      [] dv.status = "DISCONNECTING" -> KillAndDial(dv, cmd)
      [] dv.status = "UP"            -> Invalid(dv)

\* Faulty: a hang-up that took too long is not recorded as down (no line 629).
ToDisconnectingForever(dv, cmd) ==
    CASE dv.status \in {"CONNECTING", "DISCONNECTING"} ->
           Enter(LinkForceDown(dv, cmd), "DISCONNECTING")
      [] dv.status = "UP" -> Enter(LinkDown(dv, cmd), "DISCONNECTING")
      [] dv.status = "DOWN" -> Invalid(dv)

ToDisconnecting(dv, cmd) ==
    CASE dv.status = "CONNECTING" ->
           Enter(LinkForceDown(dv, cmd), "DISCONNECTING")
      [] dv.status = "UP" -> Enter(LinkDown(dv, cmd), "DISCONNECTING")
      [] dv.status = "DISCONNECTING" -> Enter(LinkForceDown(dv, cmd), "DOWN")
      [] dv.status = "DOWN" -> Invalid(dv)

\* Faulty: ISUP is believed whatever the server thinks.
ToUpAlways(dv) == Enter(Done([dv EXCEPT !.connect_age = 0]), "UP")

ToUp(dv) ==
    IF dv.status = "CONNECTING"
    THEN Enter(Done([dv EXCEPT !.connect_age = 0]), "UP")
    ELSE Invalid(dv)

AlterDeviceStatus(dv, new, cmd) ==
    CASE new = "CONNECTING"    -> ToConnecting(dv, cmd)
      [] new = "DISCONNECTING" -> ToDisconnecting(dv, cmd)
      [] new = "UP"            -> ToUp(dv)
      [] new = "DOWN"          -> ToDown(dv, cmd)

-----------------------------------------------------------------------------
(***************************************************************************)
(* The lists.                                                              *)
(***************************************************************************)
RemoveDeviceFromAllClients(table, known, d) ==
    [c \in Clients |-> IF c \in known
                       THEN [table[c] EXCEPT !.devices_connected = @ \ {d}]
                       ELSE table[c]]

\* Faulty: remove_device_from_all_clients() is forgotten.
AfterScriptsOneSided(r, d, table, known) == table

AfterScripts(r, d, table, known) ==
    IF r.cleared THEN RemoveDeviceFromAllClients(table, known, d) ELSE table

\* The first half of connect_client_to_device(): dial unless somebody has.
DialIfUnused(dv, cmd) ==
    IF dv.clients_connected = {}
    THEN AlterDeviceStatus(AllRetries(dv), "CONNECTING", cmd)
    ELSE Done(dv)

\* Faulty: hang up when any user leaves.
HangUpAlways(dv, c, cmd) ==
    LET left == [dv EXCEPT !.clients_connected = @ \ {c}]
    IN  IF c \in dv.clients_connected
        THEN AlterDeviceStatus(left, "DISCONNECTING", cmd)
        ELSE Done(left)

\* Faulty: never hang up.
HangUpNever(dv, c, cmd) == Done([dv EXCEPT !.clients_connected = @ \ {c}])

\* The first half of disconnect_client_from_device(): hang up after the last
\* user.  Leaving a link one is not on is not an error.
HangUpIfLast(dv, c, cmd) ==
    LET left == [dv EXCEPT !.clients_connected = @ \ {c}]
    IN  IF c \in dv.clients_connected /\ left.clients_connected = {}
        THEN AlterDeviceStatus(left, "DISCONNECTING", cmd)
        ELSE Done(left)

\* The two handlers that work on both lists, as the new (device, client) pair.
ConnectClientToDevice(c, d, cmd, table, known) ==
    LET r   == DialIfUnused(device[d], cmd)
        tbl == AfterScripts(r, d, table, known)
    IN  /\ device' = [device EXCEPT ![d] =
                        IF r.ok
                        THEN [r.dev EXCEPT !.clients_connected = @ \cup {c}]
                        ELSE r.dev]
        /\ client' = IF r.ok
                     THEN [tbl EXCEPT ![c].devices_connected = @ \cup {d}]
                     ELSE tbl
        /\ ran' = [i \in DOMAIN r.ran |-> <<d, r.ran[i]>>]

DisconnectClientFromDevice(c, d, cmd, table, known) ==
    LET r   == HangUpIfLast(device[d], c, cmd)
        tbl == AfterScripts(r, d, table, known)
    IN  /\ device' = [device EXCEPT ![d] = r.dev]
        /\ client' = IF r.ok
                     THEN [tbl EXCEPT ![c].devices_connected = @ \ {d}]
                     ELSE tbl
        /\ ran' = [i \in DOMAIN r.ran |-> <<d, r.ran[i]>>]

\* alter_device_status() called on its own.
Alter(d, r, table, known) ==
    /\ device' = [device EXCEPT ![d] = r.dev]
    /\ client' = AfterScripts(r, d, table, known)
    /\ ran' = [i \in DOMAIN r.ran |-> <<d, r.ran[i]>>]

-----------------------------------------------------------------------------
(***************************************************************************)
(* Datagrams.  The uptime in a status is left out.                         *)
(***************************************************************************)
PrintDeviceStatus(d) ==
    [device |-> d, status |-> device[d].status,
     users |-> IF device[d].status = "UP"
               THEN Cardinality(device[d].clients_connected) ELSE 0]

Broadcast(kind, body) == [kind |-> kind, to |-> NoClient, body |-> body]
Reply(kind, c, body)  == [kind |-> kind, to |-> c, body |-> body]

-----------------------------------------------------------------------------
(***************************************************************************)
(* process_client(): every datagram from a client first enters it in       *)
(* g_clients if it is new, and stamps last_heard_from.                     *)
(***************************************************************************)
Known(c) == g_clients \cup {c}
Heard(c) == [client EXCEPT ![c] =
                IF c \in g_clients THEN [@ EXCEPT !.heard_age = 0]
                                   ELSE NewClient]

FromClient(c) ==
    /\ pc = "select"
    /\ pc' = "broadcast"
    /\ g_clients' = Known(c)
    /\ UNCHANGED <<g_keep_going, clients_left, devices_left, leaving>>

\* UP <device>
ClientUp(c, d, cmd) ==
    /\ FromClient(c)
    /\ ConnectClientToDevice(c, d, cmd, Heard(c), Known(c))
    /\ sent' = NoPacket

\* DOWN <device>: only a device on the client's own list is found.
ClientDown(c, d, cmd) ==
    /\ FromClient(c)
    /\ d \in Heard(c)[c].devices_connected
    /\ DisconnectClientFromDevice(c, d, cmd, Heard(c), Known(c))
    /\ sent' = NoPacket

\* remove_all_clients_from_device(), which leaves the clients' own lists alone.
NoUsers(r) ==
    Returns(r.ok, [r.dev EXCEPT !.clients_connected = {}], r.cleared, r.ran)

\* Faulty: the users are dropped before it is known whether the link is.
ClientForceDownClearsFirst(c, d, cmd) ==
    /\ FromClient(c)
    /\ Alter(d, NoUsers(AlterDeviceStatus(device[d], "DOWN", cmd)),
             Heard(c), Known(c))
    /\ sent' = NoPacket

\* FORCE_DOWN <device>: if alter_device_status() did not fail, the device's
\* user list is emptied, whatever the script's exit status.
ClientForceDown(c, d, cmd) ==
    LET r == AlterDeviceStatus(device[d], "DOWN", cmd)
    IN  /\ FromClient(c)
        /\ Alter(d, IF r.ok THEN NoUsers(r) ELSE r, Heard(c), Known(c))
        /\ sent' = NoPacket

\* DEVICES, STATUS <device>, CLIENT_STATUS: an answer and no other effect.
ClientAsks(c) ==
    /\ FromClient(c)
    /\ client' = Heard(c)
    /\ \/ sent' = Reply("DEVICES", c, Devices)
       \/ \E d \in Devices : sent' = Reply("STATUS", c, PrintDeviceStatus(d))
       \/ sent' = Reply("CLIENT_STATUS", c, Heard(c)[c].devices_connected)
    /\ ran' = <<>>
    /\ UNCHANGED device

\* PING, a device nobody has heard of, DOWN for a device the client is not
\* on, or a command nobody has heard of: the prologue is all that happens.
ClientPing(c) ==
    /\ FromClient(c)
    /\ client' = Heard(c)
    /\ ran' = <<>>
    /\ sent' = NoPacket
    /\ UNCHANGED device

FromPeer ==
    /\ pc = "select"
    /\ pc' = "broadcast"
    /\ sent' = NoPacket
    /\ UNCHANGED <<g_clients, g_keep_going, clients_left, devices_left,
                   leaving>>

\* ISUP <device>
PeerIsUp(d) ==
    /\ FromPeer
    /\ Alter(d, ToUp(device[d]), client, g_clients)

\* Faulty: ISDOWN is believed only of a link that is being hung up.
PeerIsDownIfHungUp(d, cmd) ==
    /\ FromPeer
    /\ Alter(d, IF device[d].status = "DISCONNECTING"
                THEN ToDown(device[d], cmd) ELSE Invalid(device[d]), client, g_clients)

\* ISDOWN <device>
PeerIsDown(d, cmd) ==
    /\ FromPeer
    /\ Alter(d, AlterDeviceStatus(device[d], "DOWN", cmd), client, g_clients)

\* select() runs out of time, or recvfrom() fails, or the prefix or the
\* device is unknown.
NothingToDo ==
    /\ FromPeer
    /\ ran' = <<>>
    /\ UNCHANGED <<device, client>>

-----------------------------------------------------------------------------
(***************************************************************************)
(* The main loop.                                                          *)
(***************************************************************************)
Quiet == ran' = <<>> /\ sent' = NoPacket

\* Static data is fresh in every process; g_keep_going is 1.
Init ==
    /\ pc = "exited"
    /\ device = [d \in Devices |-> NewDevice]
    /\ client = [c \in Clients |-> NewClient]
    /\ g_clients = {}
    /\ g_keep_going = TRUE
    /\ clients_left = {}
    /\ devices_left = {}
    /\ leaving = NoClient
    /\ ran = <<>>
    /\ sent = NoPacket

\* The process is started, for the first time or again.
Start ==
    /\ pc = "exited"
    /\ pc' = "while"
    /\ sent' = Broadcast("INIT", {})
    /\ ran' = <<>>
    /\ UNCHANGED <<device, client, g_clients, g_keep_going, clients_left,
                   devices_left, leaving>>

\* Faulty: the flag is never looked at.
TestNothing ==
    /\ pc = "while"
    /\ pc' = "select"
    /\ Quiet
    /\ UNCHANGED <<device, client, g_clients, g_keep_going, clients_left,
                   devices_left, leaving>>

\* while (g_keep_going): a signal that arrives between this test and select()
\* is noticed only after select() returns.
TestKeepGoing ==
    /\ pc = "while"
    /\ pc' = IF g_keep_going THEN "select" ELSE "quit"
    /\ Quiet
    /\ UNCHANGED <<device, client, g_clients, g_keep_going, clients_left,
                   devices_left, leaving>>

\* EINTR from select(): the turn goes on, and is the last.
SelectInterrupted ==
    /\ pc = "select"
    /\ g_keep_going' = FALSE
    /\ pc' = "broadcast"
    /\ Quiet
    /\ UNCHANGED <<device, client, g_clients, clients_left, devices_left,
                   leaving>>

BroadcastStatus ==
    /\ pc = "broadcast"
    /\ sent' = Broadcast("STATUS", {PrintDeviceStatus(d) : d \in Devices})
    /\ ran' = <<>>
    /\ pc' = "clients"
    /\ clients_left' = g_clients
    /\ UNCHANGED <<device, client, g_clients, g_keep_going, devices_left,
                   leaving>>

-----------------------------------------------------------------------------
(***************************************************************************)
(* timeout_old_clients().                                                  *)
(***************************************************************************)
\* Faulty: the client is freed without remove_client_from_all_devices().
TimeoutOldClientAtOnce(c) ==
    /\ pc = "clients"
    /\ c \in clients_left
    /\ clients_left' = clients_left \ {c}
    /\ IF client[c].heard_age > g_client_timeout
       THEN leaving' = c /\ devices_left' = {} /\ pc' = "expire"
       ELSE UNCHANGED <<leaving, devices_left, pc>>
    /\ Quiet
    /\ UNCHANGED <<device, client, g_clients, g_keep_going>>

\* Faulty: the sweep does not move on before the entry is freed (next_pos).
TimeoutOldClientStays(c) ==
    /\ pc = "clients"
    /\ c \in clients_left
    /\ IF client[c].heard_age > g_client_timeout
       THEN /\ leaving' = c /\ devices_left' = Devices /\ pc' = "expire"
            /\ UNCHANGED clients_left
       ELSE /\ clients_left' = clients_left \ {c}
            /\ UNCHANGED <<leaving, devices_left, pc>>
    /\ Quiet
    /\ UNCHANGED <<device, client, g_clients, g_keep_going>>

TimeoutOldClient(c) ==
    /\ pc = "clients"
    /\ c \in clients_left
    /\ clients_left' = clients_left \ {c}
    /\ IF client[c].heard_age > g_client_timeout
       THEN /\ leaving' = c
            /\ devices_left' = Devices
            /\ pc' = "expire"
       ELSE UNCHANGED <<leaving, devices_left, pc>>
    /\ Quiet
    /\ UNCHANGED <<device, client, g_clients, g_keep_going>>


\* One step of remove_client_from_all_devices().  An error other than ENODEV,
\* i.e. one of alter_device_status(), gives up the whole sweep over g_clients;
\* the client stays on the list for the next turn.
ExpireFromDevice(d, cmd) ==
    /\ pc = "expire"
    /\ d \in devices_left
    /\ DisconnectClientFromDevice(leaving, d, cmd, client, g_clients)
    /\ IF HangUpIfLast(device[d], leaving, cmd).ok
       THEN /\ devices_left' = devices_left \ {d}
            /\ UNCHANGED <<pc, clients_left, leaving>>
       ELSE /\ devices_left' = Devices
            /\ pc' = "devices"
            /\ clients_left' = {}
            /\ leaving' = NoClient
    /\ sent' = NoPacket
    /\ UNCHANGED <<g_clients, g_keep_going>>

\* rm_client() and free().  What free() leaves of devices_connected is lost.
FreeClient ==
    /\ pc = "expire"
    /\ devices_left = {}
    /\ g_clients' = g_clients \ {leaving}
    /\ client' = [client EXCEPT ![leaving].heard_age = 0]
    /\ leaving' = NoClient
    /\ pc' = "clients"
    /\ Quiet
    /\ UNCHANGED <<device, g_keep_going, clients_left, devices_left>>

ClientsSwept ==
    /\ pc = "clients"
    /\ clients_left = {}
    /\ devices_left' = Devices
    /\ pc' = "devices"
    /\ Quiet
    /\ UNCHANGED <<device, client, g_clients, g_keep_going, clients_left,
                   leaving>>

(***************************************************************************)
(* timeout_old_devices(): an error gives up the rest of the list.          *)
(***************************************************************************)
Overdue(dv) ==
    \/ dv.status = "CONNECTING" /\ dv.connect_age > g_connect_timeout
    \/ dv.status = "DISCONNECTING" /\ dv.connect_age > g_disconnect_timeout

TimeoutOldDevice(d, cmd) ==
    LET r == IF Overdue(device[d])
             THEN AlterDeviceStatus(device[d], device[d].status, cmd)
             ELSE Done(device[d])
    IN  /\ pc = "devices"
        /\ d \in devices_left
        /\ Alter(d, r, client, g_clients)
        /\ IF r.ok
           THEN devices_left' = devices_left \ {d} /\ UNCHANGED pc
           ELSE devices_left' = {} /\ pc' = "while"
        /\ sent' = NoPacket
        /\ UNCHANGED <<g_clients, g_keep_going, clients_left, leaving>>

DevicesSwept ==
    /\ pc = "devices"
    /\ devices_left = {}
    /\ pc' = "while"
    /\ Quiet
    /\ UNCHANGED <<device, client, g_clients, g_keep_going, clients_left,
                   devices_left, leaving>>

-----------------------------------------------------------------------------
(***************************************************************************)
(* The end of the process, and its surroundings.                           *)
(***************************************************************************)
\* The process is gone, and its memory with it.
Exit ==
    /\ pc' = "exited"
    /\ device' = [d \in Devices |-> NewDevice]
    /\ client' = [c \in Clients |-> NewClient]
    /\ g_clients' = {}
    /\ g_keep_going' = TRUE
    /\ clients_left' = {}
    /\ devices_left' = {}
    /\ leaving' = NoClient
    /\ ran' = <<>>

\* broadcast_quit_message() and return from main().
Quit ==
    /\ pc = "quit"
    /\ sent' = Broadcast("QUIT", {})
    /\ Exit

\* exit (EXIT_FAILURE) when select() fails for another reason than EINTR, or
\* the process is killed: no QUIT is sent.
Crash ==
    /\ pc # "exited"
    /\ sent' = NoPacket
    /\ Exit

\* SIGTERM or SIGINT: termination_handler().
Terminate ==
    /\ pc # "exited"
    /\ g_keep_going' = FALSE
    /\ Quiet
    /\ UNCHANGED <<device, client, g_clients, pc, clients_left, devices_left,
                   leaving>>

\* A second passes.
Tick ==
    /\ pc # "exited"
    /\ device' = [d \in Devices |->
                    [device[d] EXCEPT !.connect_age = Older(@)]]
    /\ client' = [c \in Clients |->
                    IF c \in g_clients
                    THEN [client[c] EXCEPT !.heard_age = Older(@)]
                    ELSE client[c]]
    /\ Quiet
    /\ UNCHANGED <<g_clients, g_keep_going, pc, clients_left, devices_left,
                   leaving>>

-----------------------------------------------------------------------------
ClientSpeaks ==
    \/ \E c \in Clients, d \in Devices, cmd \in Commands :
         ClientUp(c, d, cmd) \/ ClientDown(c, d, cmd)
                             \/ ClientForceDown(c, d, cmd)
    \/ \E c \in Clients : ClientAsks(c) \/ ClientPing(c)

PeerSpeaks ==
    \/ \E d \in Devices : PeerIsUp(d)
    \/ \E d \in Devices, cmd \in Commands : PeerIsDown(d, cmd)

Sweep ==
    \/ \E c \in Clients : TimeoutOldClient(c)
    \/ \E d \in Devices, cmd \in Commands :
         ExpireFromDevice(d, cmd) \/ TimeoutOldDevice(d, cmd)
    \/ FreeClient
    \/ ClientsSwept
    \/ DevicesSwept

\* What the running process does by itself: select() returns at the latest
\* after poll_time.
ServerStep ==
    \/ TestKeepGoing
    \/ ClientSpeaks
    \/ PeerSpeaks
    \/ NothingToDo
    \/ SelectInterrupted
    \/ BroadcastStatus
    \/ Sweep
    \/ Quit

Next ==
    \/ Start
    \/ ServerStep
    \/ Crash
    \/ Terminate
    \/ Tick

Spec == Init /\ [][Next]_vars

\* The loop never blocks for longer than poll_time, and time passes.
FairSpec == Spec /\ WF_vars(ServerStep) /\ WF_vars(Tick)

-----------------------------------------------------------------------------
(***************************************************************************)
(* Properties.                                                             *)
(***************************************************************************)
Users(d) == device[d].clients_connected

\* A script the step runs.
RunsScript(d, script) == <<d, script>> \in {ran'[i] : i \in DOMAIN ran'}

\* Every variable has its type; a client is being removed exactly while
\* remove_client_from_all_devices() runs, and it is still on the list.
TypeOK ==
    /\ device \in [Devices -> Device]
    /\ client \in [Clients -> Client]
    /\ g_clients \subseteq Clients
    /\ g_keep_going \in BOOLEAN
    /\ pc \in {"exited", "while", "select", "broadcast", "clients", "expire",
               "devices", "quit"}
    /\ clients_left \subseteq g_clients \ {leaving}
    /\ devices_left \subseteq Devices
    /\ IF pc = "expire" THEN leaving \in g_clients ELSE leaving = NoClient

\* list_fns.c:317-341 frees a client_t after remove_client_from_all_devices():
\* no device's user list may still point to it, and its own list must be empty
\* or its nodes are lost.  And a user of a device has the device on its own
\* list, the only place DOWN <device> looks it up (process_client.c:66).
NoDanglingClient ==
    /\ \A d \in Devices : \A c \in Users(d) :
         c \in g_clients /\ d \in client[c].devices_connected
    /\ \A c \in Clients \ g_clients : client[c].devices_connected = {}

\* list_fns.c:403-418: once the walk over g_devices has passed a device, the
\* client being removed and that device have let go of each other, whatever the
\* scripts did; this is what makes the free() safe.
ExpiredOff ==
    pc = "expire" => \A d \in Devices \ devices_left :
        leaving \notin Users(d) /\ d \notin client[leaving].devices_connected

\* list_fns.c:479-507: a link starts to be hung up only after its last user
\* left, and UP <device> while it is on the way down dials it again or fails:
\* nobody is ever counted as a user of a link that is going down.
DisconnectingUnused ==
    \A d \in Devices : device[d].status = "DISCONNECTING" => Users(d) = {}

\* list_fns.c:481-483, "If doing this causes clients_connected to become empty,
\* bring down the link": while system() can fork, no link is up or being dialled
\* for nobody.
UnusedLinkReleased ==
    \A d \in Devices :
        device[d].status \in {"UP", "CONNECTING"} => Users(d) # {}

\* While the scripts all work, the two cross lists agree and nobody waits for a
\* link that is down.
ListsAgree ==
    \A d \in Devices :
        /\ \A c \in g_clients : d \in client[c].devices_connected => c \in Users(d)
        /\ device[d].status = "DOWN" => Users(d) = {}

\* README.states:36, 50 and 52, list_fns.c:607-611 and 649-662: a link that is up is
\* never dialled, and comes up only out of CONNECTING, whatever datagrams arrive.
\* (README.states:39 also lists Disconnecting -> Link Up, by the server itself, as
\* possible; the code never does it, and takes an ISUP for a link that is being hung
\* up for invalid.)
OnlyUpFromConnecting ==
    [][\A d \in Devices :
         /\ device[d].status = "UP" => device'[d].status # "CONNECTING"
         /\ device'[d].status = "UP" => device[d].status \in {"UP", "CONNECTING"}]_vars

\* README.protocol:64-68: as long as one other client has an interest in a link
\* that is up, nothing but the peer or FORCE_DOWN takes it down, and then at once.
LinkKeptWhileUsed ==
    [][\A d \in Devices :
         device[d].status = "UP" /\ device'[d].status = "DISCONNECTING"
           => \E c \in Users(d) : Users(d) = {c} /\ Users(d)' = {}]_vars

\* process_client.c:81-94 and list_fns.c:547-576: several users lose a link in one
\* step only if the server ends, or has run the link's force_down script and counts
\* the link as down.  The DOWN or the silence of one client, a dialling and a
\* hang-up cost no other client the link, and neither does a FORCE_DOWN whose script
\* cannot be started.  One whose script runs and exits non-zero does, although the
\* line may still be up: alter_device_status() fails only for < 0, and then
\* process_client.c:93 empties the list.
UsersLeaveOneAtATime ==
    [][\A d \in Devices :
         Cardinality(Users(d) \ Users(d)') > 1
           => \/ pc' = "exited"
              \/ RunsScript(d, "force") /\ device'[d].status = "DOWN"]_vars

\* list_fns.c:594-597: a link that is on its way down is dialled only after the
\* force_down script has killed what is left of the old connection.
RedialKillsFirst ==
    [][\A d \in Devices :
         device[d].status = "DISCONNECTING" /\ RunsScript(d, "up")
           => ran' = <<<<d, "force">>, <<d, "up">>>>]_vars

\* README.protocol:45-47 and list_fns.c:319-323: a client that stays silent is
\* forgotten, also when scripts fail, as long as they can be started.  (If not, the
\* run doc_silent shows a client that never is: list_fns.c:334-335.)
SilentClientForgotten ==
    \A c \in Clients :
        []<>(c \notin g_clients \/ client[c].heard_age = 0)

\* list_fns.c:121-123: no link is dialled forever.
ConnectingEnds ==
    \A d \in Devices : []<>(device[d].status # "CONNECTING")

\* list_fns.c:125-127: no link is hung up forever.
DisconnectingEnds ==
    \A d \in Devices : []<>(device[d].status # "DISCONNECTING")

\* server.c:193-200: once a signal asked for it the process ends.
ShutdownCompletes == ~g_keep_going ~> pc = "exited"

-----------------------------------------------------------------------------
(***************************************************************************)
(* The promise to the clients, of which every step above is a step or a    *)
(* stutter.                                                                *)
(***************************************************************************)
Promise == INSTANCE SharedLink WITH
    Links    <- Devices,
    Machines <- Clients,
    Reliable <- Outcomes = {"ok"} /\ g_retries >= 0,
    users    <- [d \in Devices |-> device[d].clients_connected],
    phase    <- [d \in Devices |-> device[d].status]

\* README.protocol:60-68 and README.states: as far as its clients can tell, the
\* server is no more than SharedLink, whatever the datagrams, the scripts and
\* the sweeps do.
SharedLinkPromise == Promise!Spec

\* list_fns.c:457-507: with scripts that work, a link is being dialled or up
\* exactly while some client is counted as its user.
InUseWhileWanted == Promise!InUseWhileWanted

-----------------------------------------------------------------------------
(***************************************************************************)
(* What a document says and the code does not do (MCLinkServer_doc_up      *)
(* finds the counterexample).                                              *)
(***************************************************************************)
\* README.protocol:60-63, UP <device> "Request the particular device be brought
\* up ... regardless of the current status": whoever is taken on as a user of a
\* link finds it up or being dialled.
UpBringsLinkUp ==
    [][\A d \in Devices :
         Users(d)' \ Users(d) # {} => device'[d].status \in {"CONNECTING", "UP"}]_vars

=============================================================================
