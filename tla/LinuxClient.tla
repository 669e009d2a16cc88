----------------------------- MODULE LinuxClient -----------------------------
(***************************************************************************)
(* The Linux client: src/linux_client/client.c, listen_status.c and        *)
(* list_fns.c.                                                             *)
(*                                                                         *)
(* Two threads share the list g_servers.  main() waits until there is a    *)
(* server and then prints the list every five seconds; the listener takes  *)
(* the servers' broadcasts off the multicast socket and keeps the list.    *)
(* g_servers_mutex protects it, except that the STATUS branch of           *)
(* process_command() unlocks the mutex twice and never locks it.           *)
(*                                                                         *)
(* Abstractions.  A list is the sequence of its servers, and a server's    *)
(* devices are a set: last_heard_from, statuses and times are only         *)
(* printed.  g_socket_fd_mutex is left out, since only the listener takes  *)
(* it once main() has set up the socket.  malloc() and select() succeed.   *)
(* The mutex is a default one, whose unlock releases it whoever holds it.  *)
(***************************************************************************)
EXTENDS Sequences, SequencesExt, FiniteSets

CONSTANTS
    Servers,    \* link servers on the network, known by IP address
    Devices,    \* the devices their STATUS messages may name
    None        \* a NULL server_list_t pointer

ASSUME NoneAssumption == None \notin Servers

VARIABLES
    g_servers,  \* the list
    devices,    \* devices_controlled of every server_t on it
    mutex,      \* g_servers_mutex: "free" or the thread that has it
    main,       \* where main() is
    walk,       \* s_list_pos of main(), see Walk
    listener,   \* where the listener is
    message,    \* what it has received last
    robbed      \* a thread has unlocked the mutex while the other one had it

vars == <<g_servers, devices, mutex, main, walk, listener, message, robbed>>

-----------------------------------------------------------------------------
Kinds   == {"INIT", "STATUS", "QUIT", "OTHER"}
Message == [from : Servers, kind : Kinds, body : SUBSET Devices]

\* s_list_pos points to the node of the server at, and the nodes ahead can be
\* reached from it.  linked: they are those of g_servers, and not a list that
\* was cut off it.  stale: that node, or a device node of at, has been freed.
Walk == [at : Servers \cup {None}, ahead : Seq(Servers),
         linked : BOOLEAN, stale : BOOLEAN]

From(list) == [at     |-> IF list = <<>> THEN None ELSE Head(list),
               ahead  |-> IF list = <<>> THEN <<>> ELSE Tail(list),
               linked |-> TRUE, stale |-> FALSE]

Visits(s) == walk.at = s /\ walk.linked

Init ==
    /\ g_servers = <<>>
    /\ devices = [s \in Servers |-> {}]
    /\ mutex = "free"
    /\ main = "test"
    /\ walk = From(<<>>)
    /\ listener = "select"
    /\ message \in [from : Servers, kind : {"OTHER"}, body : {{}}]
    /\ robbed = FALSE

Lock(self) ==
    /\ mutex = "free"
    /\ mutex' = self
    /\ UNCHANGED robbed

Unlock(self) ==
    /\ mutex' = "free"
    /\ robbed' = (robbed \/ mutex \notin {self, "free"})

-----------------------------------------------------------------------------
(***************************************************************************)
(* main() and wait_for_servers().                                          *)
(***************************************************************************)
MainOnly == UNCHANGED <<g_servers, devices, listener, message>>

\* if (g_servers == NULL), without the mutex.
TestServers ==
    /\ main = "test"
    /\ main' = IF g_servers = <<>> THEN "wait_lock" ELSE "lock"
    /\ MainOnly
    /\ UNCHANGED <<mutex, robbed, walk>>

WaitLock ==
    /\ main = "wait_lock"
    /\ Lock("main")
    /\ main' = "wait"
    /\ MainOnly
    /\ UNCHANGED walk

\* The while loop of wait_for_servers() ends, or pthread_cond_timedwait() gives
\* up the mutex and blocks.
WaitTest ==
    /\ main = "wait"
    /\ Unlock("main")
    /\ main' = IF g_servers = <<>> THEN "blocked" ELSE "lock"
    /\ MainOnly
    /\ UNCHANGED walk

\* It returns after a second, or for no reason.  If it timed out, errno, which
\* it does not set, decides whether to wait on or to fail.
WaitReturns ==
    /\ main = "blocked"
    /\ main' \in {"wait_lock", "give_up"}
    /\ MainOnly
    /\ UNCHANGED <<mutex, robbed, walk>>

\* It has the mutex back; return (-1) and exit (EXIT_FAILURE).
GiveUp ==
    /\ main = "give_up"
    /\ Lock("main")
    /\ main' = "exited"
    /\ MainOnly
    /\ UNCHANGED walk

DisplayLock ==
    /\ main = "lock"
    /\ Lock("main")
    /\ walk' = From(g_servers)
    /\ main' = "walk"
    /\ MainOnly

\* Print the server and its devices and follow next.  What freed memory holds
\* is anybody's guess: the old contents, a NULL, another node or a bad pointer.
DisplayServer ==
    /\ main = "walk"
    /\ walk.at # None
    /\ \/ walk' = [From(walk.ahead) EXCEPT !.linked = walk.linked]
          /\ UNCHANGED main
       \/ /\ walk.stale
          /\ \E i \in 1 .. Len(g_servers) + 1 :
                walk' = From(SubSeq(g_servers, i, Len(g_servers)))
          /\ UNCHANGED main
       \/ /\ walk.stale
          /\ main' = "exited"
          /\ UNCHANGED walk
    /\ MainOnly
    /\ UNCHANGED <<mutex, robbed>>

DisplayDone ==
    /\ main = "walk"
    /\ walk.at = None
    /\ Unlock("main")
    /\ main' = "sleep"
    /\ walk' = From(<<>>)
    /\ MainOnly

WakeUp ==
    /\ main = "sleep"
    /\ main' = "test"
    /\ MainOnly
    /\ UNCHANGED <<mutex, robbed, walk>>

-----------------------------------------------------------------------------
(***************************************************************************)
(* The listener: process_command().                                        *)
(***************************************************************************)
Running == main # "exited"

\* get_server(), which reads the list without the mutex.
GetServer(s) == Contains(g_servers, s)

\* Faulty: every sender is taken for a new server.
ReceiveAsNew(s, kind, body) ==
    /\ Running
    /\ listener = "select"
    /\ kind = "STATUS" \/ body = {}
    /\ message' = [from |-> s, kind |-> kind, body |-> body]
    /\ listener' = "add"
    /\ UNCHANGED <<g_servers, devices, mutex, main, walk, robbed>>

\* recvfrom() and get_server().
Receive(s, kind, body) ==
    /\ Running
    /\ listener = "select"
    /\ kind = "STATUS" \/ body = {}
    /\ message' = [from |-> s, kind |-> kind, body |-> body]
    /\ listener' = IF GetServer(s) THEN "hear" ELSE "add"
    /\ UNCHANGED <<g_servers, devices, mutex, main, walk, robbed>>

\* pthread_mutex_lock() in front of the four critical sections.
Inside == [add |-> "adding", hear |-> "hearing", init |-> "dropping",
           quit |-> "quitting"]

ListenerLock ==
    /\ Running
    /\ listener \in DOMAIN Inside
    /\ Lock("listener")
    /\ listener' = Inside[listener]
    /\ UNCHANGED <<g_servers, devices, main, walk, message>>

\* add_server() at the end of the list, and pthread_cond_signal().  (Its own look for
\* the address, list_fns.c:149-154, finds nothing: get_server() found nothing before
\* and nobody but this thread adds.)
AddServer ==
    LET s == message.from
    IN  /\ Running
        /\ listener = "adding"
        /\ g_servers' = Append(g_servers, s)
        /\ devices' = [devices EXCEPT ![s] = {}]
        /\ walk' = IF walk.at # None /\ walk.linked
                   THEN [walk EXCEPT !.ahead = Append(@, s)] ELSE walk
        /\ main' = IF main = "blocked" THEN "wait_lock" ELSE main
        /\ Unlock("listener")
        /\ listener' = "hear"
        /\ UNCHANGED message

\* Faulty: INIT frees the devices without locking the mutex.
HearServerDropsAtOnce ==
    /\ Running
    /\ listener = "hearing"
    /\ Unlock("listener")
    /\ listener' = CASE message.kind = "INIT"   -> "dropping"
                     [] message.kind = "QUIT"   -> "quit"
                     [] message.kind = "STATUS" -> "status"
                     [] message.kind = "OTHER"  -> "select"
    /\ UNCHANGED <<g_servers, devices, main, walk, message>>

\* last_heard_from, and on to the branch for the message.
HearServer ==
    /\ Running
    /\ listener = "hearing"
    /\ Unlock("listener")
    /\ listener' = CASE message.kind = "INIT"   -> "init"
                     [] message.kind = "QUIT"   -> "quit"
                     [] message.kind = "STATUS" -> "status"
                     [] message.kind = "OTHER"  -> "select"
    /\ UNCHANGED <<g_servers, devices, main, walk, message>>

\* INIT: rm_device() until devices_controlled is empty.
DropDevice(d) ==
    LET s == message.from
    IN  /\ Running
        /\ listener = "dropping"
        /\ d \in devices[s]
        /\ devices' = [devices EXCEPT ![s] = @ \ {d}]
        /\ walk' = IF Visits(s) THEN [walk EXCEPT !.stale = TRUE] ELSE walk
        /\ UNCHANGED <<g_servers, mutex, robbed, main, listener, message>>

DroppedAll ==
    /\ Running
    /\ listener = "dropping"
    /\ devices[message.from] = {}
    /\ Unlock("listener")
    /\ listener' = "select"
    /\ UNCHANGED <<g_servers, devices, main, walk, message>>

\* What freeing the node of s does to main()'s walk over the list.
WalkWithout(s) ==
    IF walk.linked
    THEN [walk EXCEPT !.ahead = RemoveFirst(@, s), !.stale = @ \/ walk.at = s]
    ELSE walk

\* rm_server(): the first node is freed and the list with it, although the
\* nodes behind it keep their links; any other node is unlinked and freed.
RmServer(s) ==
    IF Head(g_servers) = s
    THEN /\ g_servers' = <<>>
         /\ walk' = [WalkWithout(s) EXCEPT !.linked = (walk.at = None)]
    ELSE /\ g_servers' = RemoveFirst(g_servers, s)
         /\ walk' = WalkWithout(s)

\* Faulty: the QUIT branch returns without unlocking the mutex.
QuitServerKeepsLock ==
    /\ Running
    /\ listener = "quitting"
    /\ RmServer(message.from)
    /\ UNCHANGED <<mutex, robbed>>
    /\ listener' = "select"
    /\ UNCHANGED <<devices, main, message>>

QuitServer ==
    /\ Running
    /\ listener = "quitting"
    /\ RmServer(message.from)
    /\ Unlock("listener")
    /\ listener' = "select"
    /\ UNCHANGED <<devices, main, message>>

\* STATUS: the mutex is unlocked before process_status_message() ...
StatusUnlock ==
    /\ Running
    /\ listener = "status"
    /\ Unlock("listener")
    /\ listener' = "updating"
    /\ UNCHANGED <<g_servers, devices, main, walk, message>>

\* add_device() of each of them; one that is there already stays as it is.
AddDevices(list, body) == list \cup body

\* ... which adds the devices it does not know, and again after it.
UpdateDevices ==
    /\ Running
    /\ listener = "updating"
    /\ devices' = [devices EXCEPT ![message.from] = AddDevices(@, message.body)]
    /\ Unlock("listener")
    /\ listener' = "select"
    /\ UNCHANGED <<g_servers, main, walk, message>>

-----------------------------------------------------------------------------
MainLocks == WaitLock \/ GiveUp \/ DisplayLock

MainStep ==
    \/ TestServers
    \/ MainLocks
    \/ WaitTest
    \/ WaitReturns
    \/ DisplayServer
    \/ DisplayDone
    \/ WakeUp

ListenerStep ==
    \/ ListenerLock
    \/ AddServer
    \/ HearServer
    \/ \E d \in Devices : DropDevice(d)
    \/ DroppedAll
    \/ QuitServer
    \/ StatusUnlock
    \/ UpdateDevices

Next ==
    \/ MainStep
    \/ ListenerStep
    \/ \E s \in Servers, kind \in Kinds, body \in SUBSET Devices :
         Receive(s, kind, body)

Spec == Init /\ [][Next]_vars

\* Both threads run, and neither is always beaten to the mutex by the other,
\* which blocks in select() or sleeps between any two turns.  Nobody has to
\* send anything.
FairSpec ==
    /\ Spec
    /\ WF_vars(MainStep) /\ SF_vars(MainLocks)
    /\ WF_vars(ListenerStep) /\ SF_vars(ListenerLock)

-----------------------------------------------------------------------------
(***************************************************************************)
(* Properties.                                                             *)
(***************************************************************************)
\* Every variable has its type; no server is on the list twice.
TypeOK ==
    /\ g_servers \in Seq(Servers)
    /\ \A i, j \in DOMAIN g_servers : g_servers[i] = g_servers[j] => i = j
    /\ devices \in [Servers -> SUBSET Devices]
    /\ mutex \in {"free", "main", "listener"}
    /\ main \in {"test", "wait_lock", "wait", "blocked", "give_up", "lock",
                 "walk", "sleep", "exited"}
    /\ walk \in Walk
    /\ listener \in {"select", "status", "updating"} \cup DOMAIN Inside
                    \cup {Inside[l] : l \in DOMAIN Inside}
    /\ message \in Message
    /\ robbed \in BOOLEAN

\* client.c:91-114: as long as nobody has unlocked a mutex that was not theirs
\* (listen_status.c:167-175), main() walks a list that stands still: the rest of
\* its walk is the rest of g_servers, and none of it has been freed.
WalkIntact ==
    main = "walk" /\ ~robbed =>
        /\ mutex = "main"
        /\ ~walk.stale
        /\ walk.at # None =>
             \E i \in DOMAIN g_servers :
                <<walk.at>> \o walk.ahead = SubSeq(g_servers, i, Len(g_servers))

\* client.c:76-77: as long as nobody has unlocked a mutex that was not theirs, a
\* server that stays on the list is shown, for ever again, while the client runs:
\* no signal is lost, and no thread keeps the mutex.
EveryServerShown ==
    \A s \in Servers :
        []<>(walk.at = s \/ ~Contains(g_servers, s) \/ main = "exited" \/ robbed)

\* listen_status.c:150, "the server has quit.  Remove it from our list": a
\* server leaves the list because it said so itself.
OnlyQuitterRemoved ==
    [][\A s \in Servers :
         Contains(g_servers, s) /\ ~Contains(g_servers', s)
           => message.kind = "QUIT" /\ message.from = s]_vars

=============================================================================
