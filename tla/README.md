# A specification of Link Control

Link Control lets the machines of a small network share dial-up links. A server
next to the modem dials and hangs up; clients ask it for a link and let go of it;
a small program that pppd starts tells the server when a link has really come up
or gone down. This directory holds TLA+ models of it, the TLC configurations that
check them, and TLAPS proofs about all of them.

    tlc -workers 2 -config MCLinkServer_lists.cfg MCLinkServer.tla
    tlapm LinkServer_proofs.tla

## 1. The system

| Component | State | Operations | Talks to |
|---|---|---|---|
| Link server (`server/`) | `g_devices`: per link `status`, `connect_time`, `retries`, `clients_connected`; `g_clients`: per client `last_heard_from`, `devices_connected`; `g_keep_going` | client messages UP, DOWN, FORCE_DOWN, PING, DEVICES, STATUS, CLIENT_STATUS; peer messages ISUP, ISDOWN; sweeps over silent clients and overdue links; broadcasts INIT, STATUS, QUIT | clients by UDP, multicast group, scripts by `system()` |
| Start of a program (`read_config.c`, one copy in each of `server/`, `linux_client/`, `peer/`) | the settings, `g_devices`, offset `cur_pos` | read the command line; find and read the program's section; the server: find and read every `[Device]` section | the program it is part of, once |
| Notification peer (`peer/`) | `g_command`, `g_device` | one datagram, ISUP or ISDOWN, and exit | server; started by pppd through `rpm/ip-up.local`, `ip-down.local` |
| Linux client (`linux_client/`) | list of servers and their devices, a mutex, a condition | display thread; listener thread for INIT, STATUS, QUIT | multicast group only; it sends nothing |
| Java client (`java_client/`) | servers, devices, their status, the client's own status per device, time stamps | multicast thread, ageing thread, user's thread (Connect, Disconnect, Refresh) | multicast group, server by UDP with retries |
| Multicast helpers, packaging, makefiles | none | | |

What is hard about it:

* **Two cross lists.** Who uses a link is stored twice, in the `device_t` and in
  the `client_t`, and every operation changes the two one after the other with a
  script that may fail in between.
* **Scripts.** `system()` can succeed, fail (non-zero exit) or not start at all
  (`-1`). The code tests `< 0` in one place and `== 0` in another, so the three
  have different effects on status, time stamp and both lists.
* **Nobody confirms anything.** Datagrams get lost, late and doubled. The server
  relies on three timeouts: silent clients, links that do not come up, links
  that do not go down.
* **One time stamp per link** that means "dialled", "came up" or "hung up".
* **Sweeps that give up** half way when one script cannot be started.
* **Crash and restart** with a physical link that knows nothing of it.
* **Threads** in the two clients: a mutex that is unlocked without being locked
  (Linux), monitors taken in both orders (Java).

What makes each component correct:

* server: no pointer to a freed client; nobody cut off by another client's DOWN
  or silence; no link open, dialled or hung up for nobody or for ever; redials
  bounded; a link that is going down is killed before it is dialled again;
  termination on a signal;
* start: what the command line and the file say is what is set, every section is
  read, and the reading ends;
* peer with server and link: the server's idea of a line meets the line's own, and
  the line is used for somebody or not at all;
* clients: what is shown is what the servers last said, for the servers that are
  there, and the threads neither race nor wait for each other.

## 2. Modules

| Module | Models |
|---|---|
| `SharedLink` | what the server promises the users of a link; abstract |
| `LinkServer` | the server process: all message handlers, broadcasts, both sweeps, signals, crash and restart; implements `SharedLink` |
| `LinkServerHistory` | `LinkServer` with two history variables, for the time and the number of attempts to dial |
| `LinkServerOrder` | `LinkServer` with the order of its list of clients |
| `LinkSystem` | `LinkServer` with the telephone line, pppd and the notification peer |
| `LinuxClient` | the two threads of the Linux client, the mutex, the condition variable, the list |
| `JavaClient` | the three threads of the Java client, the server list and the monitors |
| `Startup` | command lines and configuration files of the three C programs, and the peer's datagram |
| `MC*` | instances for TLC |
| `LinkServer_proofs` | the lists, the status and the refinement of `SharedLink` |
| `LinkServerScripts_proofs` | which scripts a step runs, with what effect |
| `LinkServerHistory_proofs` | the connect timeout, the number of attempts |
| `LinkSystem_proofs` | the cross lists with scripts that work, the line, the reports |
| `LinuxClient_proofs`, `JavaClient_proofs`, `Startup_proofs` | one per component |
| `ListLemmas` | lists without duplicates, for both clients |

### LinkServer

The state is the C state: `device` and `client` are the structures, `g_clients`
the list, `pc` the place in the loop of `main()`. `clients_left` and
`devices_left` are the rest of the list a sweep walks, `leaving` the client that
`remove_client_from_all_devices()` is working on. `ran` and `sent` are what the
last step ran and sent; they carry no information to the next step.

One turn of the loop is: `TestKeepGoing`; `select()` returns with a datagram (one
action per message, `ClientUp` ... `PeerIsDown`), with nothing (`NothingToDo`) or
interrupted (`SelectInterrupted`); `BroadcastStatus`; the client sweep
(`TimeoutOldClient`, `ExpireFromDevice` once per device, `FreeClient`); the
device sweep (`TimeoutOldDevice`). A message handler is one action, because the
process has one thread and nothing else touches its memory: the only concurrent
events are signals and time, and they may fall between any two steps. The sweeps
take one step per list entry because each entry may run a script, and time
passes meanwhile.

`alter_device_status()` is the operator `AlterDeviceStatus`, one case per target
status. It returns a record: did the C function return `>= 0`, the device after
it, whether `link_force_down()` cleared both lists, which scripts it ran. Three
details matter and are kept: `link_up()` and `link_down()` stamp `connect_time`
only if the script exits 0; `link_force_down()` clears the lists only if the
script exits 0; the status is assigned whenever `system()` did not return -1.

Abstractions:

* Lists are sets. `add_client()` and `add_device()` refuse duplicates, nothing
  but a sweep depends on the order, and the model lets a sweep take any order.
  What holds in any order holds in the code's; what is refuted has to be refuted in
  the code's own order, which `LinkServerOrder` keeps: `add_client()` appends, the
  sweep over the clients goes from the head of the list to its end.
* Times are ages, `now - stamp`, and saturate at `MaxAge`, which is larger than
  every timeout: the code only compares ages with timeouts.
* `retries` stays at -1 once it is there; the code only tests for `< 0`.
* A datagram can be any message from any machine at any time, whoever sent it:
  that includes every loss, delay, repetition and reordering. Malformed messages
  and unknown device names change nothing but the sender's time stamp, as PING
  does.
* `malloc()` succeeds, the `sleep(2)` in `alter_device_status()` is time passing,
  a script missing from the configuration (`system(NULL)`) counts as failed.
* Uptimes in messages, logging and the debug dumps are left out, and with the text
  of datagrams the 0 that a datagram of 400 bytes gets one byte behind `recv_buffer`
  (server.c:216).

`LinkServerHistory` adds `dial_age`, the time since the up script last ran for a link,
and `attempts`, how often it ran since a client's UP ran it: 1 when it runs outside
of the sweep over the links, one more each time it runs in that sweep. `connect_time`
and `retries` mean different things at different times and these two do not.

### SharedLink

A link has `users` and a `phase`. A machine joins: the first one dials, the others
change nothing. A machine leaves: the last one hangs up, the others change nothing.
A link that is being dialled may be answered. A link may be lost, and its users
are then told so, all of them. Nothing else happens, but for the loss of the whole
server. `Reliable` says whether scripts work. If they do not, three things are
excused: a link lost with users left on it, a link not hung up when the last one
leaves, a link that is given up in the same step in which it was joined. The
loop, the sweeps, both time stamps, the retries, the clients' own lists and the
scripts are all invisible here.

`LinkServer!Promise` is the instance: `users` is `clients_connected`, `phase` is
`status`, and `Reliable` is "every script exits 0 and `retries` is not negative".
`SharedLinkPromise` is its specification as a property of `LinkServer`.

### LinkSystem

The server never looks at a line. `line` is what the line does: idle, dialling, up
or hanging up. It moves by itself (`ComesUp`, `DialFails`, `GoesDown`) and by the
scripts a server step has run (`React`): `link_up` starts pppd unless it runs,
`link_down` asks it to hang up (once more, if it is hanging up already: it reports
the end all the same), `link_force_down` kills it before it returns, and a killed
pppd may or may not have run the peer. `reports` is the server's socket:
the peer's datagrams wait there while the server sweeps and runs scripts, and are
delivered in order; any may be lost, all are lost when the server ends. Messages
of clients still come from anywhere at any time. A new server (`Begin`) finds
lines as they are.

Two history variables say when nothing can be asked of the server's belief:
`unheard`, that a report was lost about a link which has not come to rest since;
`orphan`, that the line is in use since before the server started. They feed back
into nothing.

pppd and the scripts are not in the repository; `server/link_server.conf` and
`rpm/ip-up.local` show how they are used, and the definitions are marked external.

### Startup

The three `read_config.c` are copies of one another but for switches, sections and
options; the operators are shared and the actions named by program. Each switch or
argument is a step of `parse_command_line()`; opening the file, each line of a
section, each call of `get_next_device_section()` are steps of `read_config()`. A
file is a sequence of sections with a kind, a length and lines, after some
characters of comment. Lines have forms instead of characters, those that
`parse_line()` tells apart.

Kept as they are: `++i > argc` lets the NULL after the arguments through;
`strpbrk(prev_pos + 1, ...)` reads a blank line together with the next line, so
that the next line's option is lost; a line without a separator is no error and
sets the option of the line before it once more; `name` and `value` of the loop
are uninitialised at first, and freed at the end of each turn in the device
section; the copy of a section has no NUL at its end. A quote that is not closed
makes `parse_line()` compute a length from a NULL, for which `malloc()` has no room:
`value` is then NULL. The file's own variables override the command line, because
`main()` reads it second.

What is undefined is narrowed. A value that was never written, or is freed, is
something that matches no option, or ends the process. What the loop finds behind
the copy of a section is assumed to be nothing, or one line without a separator, or
something that ends the process. Memory that happens to hold several lines there, or
an option, could set anything, and nothing here speaks of that.

### JavaClient

`multicast` is `multicastThread`, `age` is `ageThread`, `awt` the event thread with
the Connect and Disconnect buttons and the server list. `pc` says where each is,
`held` which monitors it is in, `Wants` which it needs to go on. Every linkServer,
every linkDevice and the linkServerList is a monitor. What makes the order of
monitors hard to see in the code: a thread that changes the server list is in the
list's monitor when `notifyObservers()` redraws the window, and the window then
enters the monitors of the device shown before and the device shown next
(`deleteObserver`, `addObserver`). So three threads redraw, two of them inside the
list's monitor.

A redraw is a recursion. The window knows servers by host name, and whoever needs the
selected server looks its name up (linkControl.java:397-416). A name that does not
lead back to a server on the list makes `getSelectedServer()` redraw the window, which
selects the first name, for which it is asked in turn: if that is the same name, until
the stack overflows (`Overflow`), which ends the thread, unless it is the event thread.
`Misnamed` are the servers whose names may fail, anew at every redraw. A device that
has gone from its server's list makes `getSelectedDevice()` redraw from inside a redraw
(`"again"`). Every redraw starts by disabling both buttons (451-452), and only the
display of a device, or a change of the device observed, enables one (219-232):
`enabled`, without which `Press` cannot happen. `watched` says that the device list
being filled is the one the window observes.

`linkServerList.getServer()` reads the size once and then looks at one index after
the other in no monitor; `ageThread`'s enumeration is a counter. Both are stepwise.
A vector that has become shorter ends `multicastThread`
(ArrayIndexOutOfBoundsException) or `ageThread` (NoSuchElementException); so do a
message that is none of INIT, QUIT and STATUS, a message or an answer with too few
words, a STATUS about an unknown device, which is looked up before its monitor is
waited for, and a PING that cannot be sent. A dead thread is modelled, not excused.

A `linkServer` object is an address and a number, because objects of one address
can exist side by side (one on the list, one removed but still being worked on) and
`removeElement()` compares objects: `linkServer` overloads `equals` without
overriding it. Devices of an earlier device list matter only while someone may be
in their monitor. Left out: clock values (whether a server is silent is a free
choice), what is displayed about a device, and the retries inside
`serverCommunicator`: an exchange is answered or throws. Of the window's corner cases,
left out are a redraw inside a redraw inside a redraw, the user's second click when the
name of the server that was selected led nowhere and the first one is selected instead,
and a click that waits in the event queue while a redraw disables its button: it counts
as not made.

### LinuxClient

`main` and `listener` say where the threads are, `mutex` who has
`g_servers_mutex`, `walk` what `s_list_pos` points to and what can be reached
from there. Every lock, critical section, wait and wake-up is a step. `add_server()`
looks for the address once more (list_fns.c:149-154); nothing comes of it, because
only the listener adds and has just found nothing. The mutex
is a default mutex of the C library: unlocking releases it, whoever has it. The
STATUS branch (listen_status.c:167-175) does that twice, so a STATUS that arrives
while `main()` prints takes `main()`'s lock away; a later INIT or QUIT can then
free what `main()` stands on. `stale` records that, and the next step of a stale
walk may do anything reading freed memory can do: go on as if nothing had
happened, stop, end up elsewhere in the list, or crash. `robbed` remembers that a
thread unlocked the other's mutex: `WalkIntact` is about the time before that, and
what can happen afterwards is modelled but has no run of its own. `rm_server()` is modelled as it is: removing
the first node sets the list to NULL.

`last_heard_from`, statuses and times of devices are left out because this client
only prints them. `timeout_old_servers()` is not modelled because nothing calls
it: a server that dies without a QUIT stays on the screen, although the comment
in list_fns.c:249-251 says it is "removed from existance".

## 3. Runs

| Run | Instance | Shows |
|---|---|---|
| `lists` | 2 clients, 2 links, any script outcome | `TypeOK`; nothing points to a freed client (`NoDanglingClient`, `ExpiredOff`); nobody uses a link that is going down (`DisconnectingUnused`) |
| `sharing` | 3 clients, 1 link, any outcome, timeouts of 1 | what one step may do to a shared link: `OnlyUpFromConnecting`, `LinkKeptWhileUsed`, `UsersLeaveOneAtATime`, `RedialKillsFirst`; the refinement `SharedLinkPromise` with its excuses |
| `progress` | 2 clients, 1 link, 2 retries, scripts that start | liveness, `UnusedLinkReleased`; every attempt to dial gets its time (`AttemptGetsItsTime`), and there are at most one and `g_retries` more (`AttemptsBounded`) |
| `system` | 2 clients, 1 link and its line, 5 reports, scripts that work | the line is used for somebody or not at all (`LineOnlyForUsers`); a link believed up is up unless a report is lost or on its way (`UpIsUp`); the cross lists agree (`ListsAgree`); `InUseWhileWanted`; the refinement without excuses |
| `linux` | 3 servers, 1 device | list intact under the lock, every server shown |
| `java` | 2 servers, one of them clicked, the other with a name that may lead nowhere | no server entered twice (`ServerKnownOnce`); the monitors deadlock in two ways only (`OnlyDeadlock`); every server on the list is looked at again and again (`EveryServerWatched`) |
| `config` | 5351 inputs | settings and devices as the file and the command line say; the peer sends what it was told; well-placed files are read to the end |
| `doc_*` | | a sentence of the documentation or a comment that the code does not keep |

Bounds. Two links are needed where a sweep can be given up between them and where
a handler of one link could disturb another; one is enough for properties of a
single link, since handlers of a link read no other link. Three clients are
needed to tell "the last user left" from "another user left" and from "all left".
`g_retries = 1` gives a first attempt, a redial and giving up; `progress` has 2, so that
a redial too many is not the same as giving up late. A timeout of 0 with
ages 0 and 1 already distinguishes "in time" and "overdue"; the `sharing` run has
one more age so that a stamp can be fresh, old and overdue. Section lengths 9, 10
and 20 are shorter, equal and longer than what may come before a section. Three
servers give the list of the Linux client a first, a middle and a last node.
`MaxReports = 5` holds the reports of two earlier connections, up and down each, and
one of the present connection: a wrong belief needs the server to read an ISUP of an
old connection while the present one ends unreported, and with fewer places some of
those reports are always lost, which excuses it; more are lost, which any report may
be. Two servers in the Java
client let one move under an index or the enumeration when the other is removed;
the second server's device is never clicked, which loses nothing the first does not
do and keeps the run small, and the first server's name never fails: the two together
have every order of a good and a bad name on the list. `config` takes all command lines of three arguments,
all sections of four lines of five forms, two device sections, and all files of
three sections, and four of two lengths; a line acts on nothing but `name`, `value`
and its option, so four show every carry-over from line to line.
Clients are symmetric in the safety runs, and links where there are two; no
liveness run uses symmetry.

Fairness. `FairSpec` of the server asks that the process runs and that time
passes: `select()` has a timeout, and it is assumed that a script returns. Nothing
is assumed of clients, the peer or the network. `FairSpec` of the Linux client
asks that both threads run and that neither is for ever beaten to the mutex by the
other; each of them blocks or sleeps between two turns, without the mutex. `FairSpec` of the
Java client is strong fairness of each thread's steps: a thread that waits for a
monitor gets it if the monitor is left again and again, which is what a Java
virtual machine that starves nobody does; nothing makes a server send or the user
click. Startup is one thread and has weak fairness.

Disagreements with the documentation that runs show:

* `doc_up`: README.protocol:60. UP does not dial if the link went down with users left
  on its list. That happens after ISDOWN, and after a dialling that ran out of retries,
  if the force-down script exits non-zero: `link_force_down()` then empties no list,
  and nothing else does. (After FORCE_DOWN process_client.c:93 does.)
* `doc_silent`: README.protocol:45-47 and list_fns.c:319-320. While a script cannot be
  started, removing a client from a link fails and gives up the sweep of the clients
  behind it until the next turn (list_fns.c:334, 412). The failing client has let go of
  that link by then, so the next sweep gets further, unless it has renewed its interest
  and is overdue again: which it is if the turn, in which some script blocks, takes
  longer than `client_timeout`. If that happens in every turn, a silent client behind
  it on the list is never removed. `progress` shows that it is if scripts can be started.
* `doc_ends`: read_config.c:284-288. `cur_pos` counts from the section but is used
  as if it counted from the start of the file; the search may never end. For the
  same reason sections may be skipped.
* `doc_quit`: linux_client/listen_status.c:150. QUIT of the first server on the
  list removes all.
* `doc_connect`: java_client/linkDevice.java:188. Connect() is in its device's monitor
  and waits for the server's; multicastThread in updateDeviceStatus() is in the server's,
  has looked the device up and waits for the device's: the run's counterexample. The
  redraw that reInit() causes does the same (linkServer.java:164). `OnlyDeadlock` says
  that these are the only two circular waits.

Others, seen while modelling, without a run of their own. The server:

* a link that is being hung up never goes to up, which README.states:39 lists as a
  transition of the server's own: an ISUP is invalid then (list_fns.c:649-662), and
  `OnlyUpFromConnecting` says so. Nor does FORCE_DOWN take a link that is down to
  disconnecting (README.states:44);
* the sweep redials at `retries` 0 too (list_fns.c:601), against the comment "if retries
  > 0, decrement it and retry" (list_fns.c:121-123). As the first attempt has spent one
  retry, `AttemptsBounded` holds: one attempt and `g_retries` redials;
* a FORCE_DOWN whose script exits non-zero drops all users and records the link as
  down, although the line may still be up (process_client.c:91-94): alter_device_status()
  fails only for < 0. `UsersLeaveOneAtATime` allows for it;
* a link that is up goes straight to down on ISDOWN and FORCE_DOWN, which
  README.states:51 excludes; FORCE_DOWN runs no script if the link is being hung up
  (README.protocol:69-72); after a FORCE_DOWN whose script exits non-zero
  CLIENT_STATUS still names the link (README.protocol:110-112); what the two sweeps
  change is broadcast a turn later, not "immediately" (README.protocol:132);
* if the hang-up script cannot be started when the last user leaves, the link stays
  up for nobody: the client is off the list, a repeated DOWN returns early and the
  sweep does not look at links that are up (list_fns.c:482-498, against
  README.protocol:64-66). `SharedLink!Leave` shows it as an excuse;
* a link that is hung up while it is connecting, or whose down script exits
  non-zero, keeps its old `connect_time` and may be forced down at once
  (list_fns.c:618-648, against the comment at 125-127);
* a datagram that fills `recv_buffer` gets its 0 one byte behind it (server.c:206-216);
* the comment in server/read_config.c:31-32 gives 7200 and 3 as defaults for
  `client_timeout` and `retries`, server.h:23-24 2400 and 2.

Starting up:

* `srv_addr` and `multicast_port` are documented (server/read_config.c:27, 30) but
  not read; `srv_inaddr` is read, but only if it is a number, which an address is not;
* `-c` or `-p` as the last argument uses NULL (server/read_config.c:125, 135); `-p`
  has no `break`;
* the file is read after the command line and overrides it;
* an option behind a blank line is lost, a line without a separator sets the option
  before it again, and a section without a line after its header, or one with any
  line but an option in a device section, may end the process;
* rpm/ip-up.local and ip-down.local call the peer with one argument, "NOTIFY ISUP"
  or "NOTIFY ISDOWN", and neither -U nor -D: it refuses and sends nothing, so with
  the packaged hooks every report is lost. `LinkSystem` includes that behaviour but
  does not assume it; the peer without any argument passes its own test and then
  gives NULL to strcat().

The clients:

* `wait_for_servers()` of the Linux client tests `errno` and not the result of the
  wait, so the client ends after a second without a server unless `errno` happens to
  be right (client.c:179-188);
* `ageThread` ends if the list becomes shorter between hasMoreElements() and
  nextElement(), or a PING cannot be sent; `multicastThread` ends if it becomes
  shorter during its scan, on a message it does not know, or on a STATUS about a device
  that is not on the list; a server whose host name does not lead back to it ends the
  thread that redraws it, by a recursion without end (linkControl.java:405-412); the
  client then goes on showing what it last heard;
* if Connect() gets no answer, the server selected in the window is removed, which
  need not be the device's (linkControl.java:61); if another thread has removed it
  already, the Error that "cannot happen" (linkControl.java:69) does;
* serverCommunicator.java:85-89 promises a doubled timeout that the `finally` block
  takes back, and retries that do not send again;
* linkControlApp.java:61 passes the port to Integer.getInteger(), which looks for a
  system property of that name.

## 4. Proofs

Every invariant and every action property that a run checks is a theorem, for every
value of the constants that meets the ASSUMEs of the modules. What a theorem assumes
beyond that is in its statement.

| Module | Theorem | Statement |
|---|---|---|
| `LinkServer_proofs` | `TypeTheorem` | `Spec => []TypeOK` |
| | `NoDanglingTheorem` | `Spec => []NoDanglingClient` |
| | `ExpiredOffTheorem` | `Spec => []ExpiredOff` |
| | `DisconnectingTheorem` | `Spec => []DisconnectingUnused` |
| | `OnlyUpFromConnectingTheorem` | `Spec => OnlyUpFromConnecting` |
| | `LinkKeptTheorem` | `Spec => LinkKeptWhileUsed` |
| | `SharedLinkTheorem` | `Spec => SharedLinkPromise` |
| | `InUseTheorem` | `Spec => []InUseWhileWanted` |
| `LinkServerScripts_proofs` | `RedialTheorem` | `Spec => RedialKillsFirst` |
| | `UsersLeaveTheorem` | `Spec => UsersLeaveOneAtATime` |
| | `UnusedTheorem` | `Startable /\ Spec => []UnusedLinkReleased` |
| `LinkServerHistory_proofs` | `AttemptTheorem` | `Startable /\ HistorySpec => AttemptGetsItsTime` |
| | `AttemptsTheorem` | `HistorySpec => []AttemptsBounded` |
| `LinkSystem_proofs` | `ListsAgreeTheorem` | `Reliable /\ Spec => []ListsAgree` |
| | `ServerTheorem` | `SystemSpec => Spec` |
| | `SystemTypeTheorem` | `SystemSpec => []SystemTypeOK` |
| | `LineOnlyForUsersTheorem` | `Reliable /\ SystemSpec => []LineOnlyForUsers` |
| | `UpIsUpTheorem` | `Outcomes = {"ok"} /\ SystemSpec => []UpIsUp` |
| | `SystemPromiseTheorem` | `SystemSpec => SharedLinkPromise` |
| `LinuxClient_proofs` | `TypeTheorem` | `Spec => []TypeOK` |
| | `WalkTheorem` | `Spec => []WalkIntact` |
| `JavaClient_proofs` | `TypeTheorem` | `Spec => []TypeOK` |
| | `KnownOnceTheorem` | `Spec => []ServerKnownOnce` |
| | `DeadlockTheorem` | `Spec => []OnlyDeadlock` |
| `Startup_proofs` | `TypeTheorem` | `Spec => []TypeOK` |
| | `PeerTheorem` | `Spec => []PeerSaysWhatItWasTold` |
| | `DevicesTheorem` | `Spec => []DevicesAsWritten` |
| | `SettingsTheorem` | `Spec => []SettingsAsWritten` |

### What is assumed

Of the constants, in the modules: timeouts below `MaxAge`, an integer number of
retries, outcomes among the three, a natural number of places in the socket; the
Java client knows finitely many addresses; `None` and `NoClient`, the NULLs, are none
of the things they stand beside; a way to start a program is one of the three
programs, a list of strings, and up to two files made of sections of lines. TLC
evaluates all of them. Two conjuncts of `Startup!NoneAssumption` say nothing new: none
of the provers knows that a literal is in STRING.

Of the scripts, in the statements. `Startable`: `system()` can always start a script,
with any exit status. `UnusedLinkReleased` and `AttemptGetsItsTime` are false without
it: if the hang-up script of the last user cannot be started the link stays up for
nobody, and an attempt that could not be started leaves the old stamp
(list_fns.c:482-498, 605). `Reliable`: every script exits 0, and `retries` is not
negative, as a configuration with `retries` -1 kills a link instead of dialling it.
`LineOnlyForUsers` and `ListsAgree` need it because a force-down script that exits
non-zero leaves the line up, and the clients on their own lists (list_fns.c:566-574).
`UpIsUp` only needs the exit status.

### The server

The inductive invariant is `IInv`, the conjunction of `TypeOK`,
`NoDanglingClient`, `DisconnectingUnused` and `ExpiredOff`. `NoDanglingClient` is
not inductive alone: `FreeClient` frees a client without looking at any device,
and is safe only because the walk over the devices has passed all of them and
each of them has let go of the client, whatever its script did: `ExpiredOff`.

The first layer of lemmas says what each link function returns (`Sound`: it
empties the user list and says so, or leaves the users alone; and which status
results). The second says that the four ways of changing the cross lists
(`ConnectLemma`, `DisconnectLemma`, `AlterLemma`, `HeardLemma`) preserve
`ListsOK`, which is `NoDanglingClient` about any three values, so that it can be
applied to the lists half way through a handler. The third has one lemma per
action. The action properties follow from a table of status transitions
(`Transition`) that every step respects (`TransitionLemma`).

The refinement. `Init` maps to `Promise!Init` by definition. For a step, one lemma
per action shows that each link it touches makes one of the abstract per-link steps
(`Joined`, `HasLeft`, `IsAnswered`, `Lost`) or stays the `Same`, and the others stay
the same; `LiftLemma` turns one such link into a step of `SharedLink`, and
`PromisedStepLemma` collects the actions, so that `[Next]_vars` maps to
`[Promise!Next]_Promise!vars`. It needs `IInv` because a handler may find a link
with users that is going down only if `DisconnectingUnused` failed. The proof
distinguishes what scripts do only where `Reliable` does. `InUseTheorem` then is an
invariant of the abstract steps (`InUseLemma`), carried over.

The scripts. `Orderly(old, new, scripts)` is what one call may do to one link: which of
the five lists of scripts it may run, in which order for which old status, what they
cost in retries (`Counts`: a dialling starts over with `g_retries` or goes on with one
less), what status and users they leave. Every call of a link function is
`Orderly` (`ToDownOrderlyLemma` ... `TimeoutOrderlyLemma`); a step makes one call for
one link, or none, or ends the process (`CallLemma`); so every step is orderly for
every link, and `RunsScript` says which scripts it saw (`LinkLemma`). The properties are then
about three values and not about the program. `UsersLeaveTheorem` says how the link is
recorded, not that the line is dead; what the scripts do to the line is `LinkSystem`.

The connect timeout. `connect_time` and the history both start at a dial, but
`connect_time` is set by other steps too, and not by every attempt. `DialInv`: while a
link connects, the age of `connect_time` is at most the age of the last attempt. Each
call that leaves a link connecting stamps it or has dialled nothing and kept the stamp
(`Stamps`), and a second that passes keeps the order of the two ages, saturated or not
(`OlderLemma`). Scripts run in the sweep over the links only for the link that
`timeout_old_devices()` found overdue (`OvertakenLemma`).

The number of attempts. `AttemptInv`: while a link connects, the attempts made and the
retries left are together at most `g_retries`. A client's UP that runs the up script
starts over with 1 attempt and `g_retries - 1` left (`SweepCountsLemma` says that the
sweep only goes on); a redial takes one from the retries and adds one to the attempts.
The code redials at 0, so the attempts end at `g_retries + 1`, with -1 left. No
assumption on the scripts is needed: one that could not be started counts as well.

### The system

`ServerTheorem` makes every theorem about the server one about the system. The lists:
`AgreeOn` is `ListsAgree` about any three values, like `ListsOK` before it. The line:
`LineOK` is `LineOnlyForUsers` for one link, preserved because the step in which the
last user goes runs a script that hangs up or kills (`EndsUse`, part of `Orderly`),
and because only a step that leaves the link connecting, so in use by
`InUseWhileWanted`, dials.

`UpIsUp` is silent as long as a report waits and so cannot be inductive. `Belief` is:
if the last report about a link that waits is an ISUP, or none waits and the server
believes the link up, and none was lost, then the line is up or hanging up. A line
that stops being up adds an ISDOWN at the end of the queue or loses it, and a line
that begins to dial was idle, so that by `Belief` no ISUP about it was the last to
wait. Reports of earlier connections in front of the last do not matter: the proof
needs no bound on them. The attempt to prove this corrected the model: `link_down`
used to make a line that was hanging up idle, without a report. Five reports in the
socket are needed to see what follows from that, and the run had three.

### The Linux client

`IndInv` adds four facts to the types. What the listener knows of its sender, found
before it took the mutex, is still so when it acts (`SenderKnown`: the main thread
changes nothing). Without a theft of the mutex both threads have it in their critical
sections (`Exclusive`). What `main()` has still to print is the end of the list from
some index on (`WalkStill`), and what is linked to it is on the list, once
(`WalkInList`). The listener then changes the list only while `main()` is not on it.

### The Java client

`ServerKnownOnce` is about a scan without a monitor. `ScanMissesNobody` is why it
holds: the size is read once; as long as nobody is removed, the sender is not among
the servers passed; a removal, which may move the sender in front of the index,
leaves the vector shorter than the size that was read, and nothing but the scanning
thread itself makes it longer, so that the scan meets ArrayIndexOutOfBoundsException
before its end and never creates a second server (`NewIsNew`). That the end of the
thread is what keeps the list correct is not a comfort, but it is what the code does.

`OnlyDeadlock` follows from where each thread may be inside a monitor (`HeldOK`): the
listener in its server's or in the list's, `ageThread` in the list's, the event thread
in the device its button acts on (Connect) or in the list's. A thread that waits inside a monitor waits
to redraw or, the listener, to update a device, or, the event thread, for the server
in Connect. A thread inside the list's monitor wants a device's monitor, which only
Connect can be inside; Connect wants a server's, which only the listener can be
inside; so a circle closes only if the listener, inside that server's monitor, wants
the button's device in turn: to update it (`StuckInStatus`), or to take the window's
observer off it or put it on (`StuckInReInit`).

### Starting up

`SettingsAsWritten` and the others compare the result of a program that goes
through arguments and lines with a statement about all of them at once. The induction
is over the steps of the program: `SettingsInv` says of every option that it is what
the arguments, or lines, before the present one say (`AskedBefore`, `Before`), and
`ReadLine` and `ReadBlank` extend `Before` by a line. Three things make it hard:

* a switch takes the argument behind it, and a blank line the next line, also if that
  is a switch or blank. Of a run of them every other one is itself taken:
  `OddLemma` turns the count that the properties use into a fact about neighbours, for
  which the first and the last of a set of numbers must exist (`MinLemma`,
  `MaxLemma`);
* a line that does nothing sets the option of the line before it again. `Settled`:
  that changes nothing. It fails just behind a line with a name and no value, where
  `Dangling` holds; the properties are about sections without such lines, as
  `NamesHaveValues` says;
* devices get into `g_devices` only under a name that is not there yet:
  `Collected` says that nothing is lost and nothing is there twice.

### Only model-checked

What holds eventually, because it needs fairness: `ConnectingEnds`,
`DisconnectingEnds`, `SilentClientForgotten`, `ShutdownCompletes`,
`EveryServerShown`, `EveryServerWatched`, `WellPlacedFilesRead`. And the `doc_*` runs,
whose point is a counterexample.

## 5. Not modelled, and the plan

Not modelled:

* the windows, text and constants of the Java client: layout without state;
* the retries and clocks of `serverCommunicator`, and the clock values in the Java
  client: no property here depends on how long a wait is;
* `timeout_old_servers()` of the Linux client: nothing calls it;
* `common/mcast.c`: wrappers around setsockopt() and ioctl() without state or order;
* what the write behind `recv_buffer` (server.c:216) hits: it depends on the compiler;
* fork(), socket set-up, debug dumps, makefiles and packaging.

Next: an abstract specification of the Linux client's display (what is shown is a
sublist of the servers heard of), of which `WalkIntact` is now the core; the device
lists of the Java client, of which only the monitors are modelled; the retries of
`serverCommunicator`, if a property is found that depends on them.
