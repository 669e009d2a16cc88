----------------------------- MODULE JavaClient -----------------------------
(***************************************************************************)
(* The Java client: its three threads, the list of servers they share and  *)
(* the monitors that are to protect it (src/java_client).                  *)
(*                                                                         *)
(*   multicast - multicastThread, which follows the servers' broadcasts    *)
(*   age       - ageThread, which drops silent servers and polls the rest  *)
(*   awt       - the event thread, in which the buttons and lists run      *)
(*                                                                         *)
(* Every linkServer, every linkDevice and the linkServerList is a monitor. *)
(* A thread that changes the server list also redraws the window, from     *)
(* inside the list's monitor (Observable.notifyObservers), whatever thread *)
(* it is.                                                                  *)
(*                                                                         *)
(* Abstractions.  A server offers one device.  A linkServer object is its  *)
(* address and a number; the numbers of objects nobody works with any more *)
(* are used again, which is why threads forget what they worked on.  A     *)
(* linkDevice is its server and whether it is in that server's present     *)
(* list or in an earlier one.  What is displayed about a device is left    *)
(* out; which device is displayed matters, because its monitor is taken.   *)
(* Times are left out: whether ageThread finds a server silent, or a poll  *)
(* due, is left open; what a datagram or an answer says is left open until *)
(* it is looked at.  A change of the server list and the redrawing of its  *)
(* names are one step.  A thread that ends with an Error or a              *)
(* RuntimeException is dead; the event thread goes on.                     *)
(*                                                                         *)
(* The window knows a server by its host name and looks that name up when  *)
(* it needs the server.  Whether the name leads back to the address is     *)
(* left open at every redraw, and stays so until the next.                 *)
(***************************************************************************)
EXTENDS Integers, Sequences, FiniteSets, SequencesExt

CONSTANTS
    Servers,    \* addresses of link servers
    Clicked,    \* those whose devices the user connects and disconnects
    Misnamed,   \* those whose host names need not lead back to their addresses
    None        \* null

Listener == "multicast"
Ager     == "age"
User     == "awt"
Threads  == {Listener, Ager, User}

Objects == Servers \X (0 .. 4)                   \* linkServer objects
Devices == Objects \X {"present", "earlier"}     \* linkDevice objects

\* null is none of these; addresses are 32 bits.
ASSUME NoneAssumption == None \notin Servers \cup Objects \cup Devices
ASSUME ServersAssumption == IsFiniteSet(Servers)

AddressOf(o) == o[1]
ServerOf(d)  == d[1]

VARIABLES
    servers,     \* linkServerList.serverList, a Vector
    pc, at,      \* where each thread is, and the linkServer it works on
    then,        \* where each thread may go on after it redrew the window
    held,        \* the monitors each thread is in
    sender,      \* where the datagram multicastThread works on comes from
    scan,        \* its index, and the size it read, in linkServerList.getServer()
    count,       \* how far ageThread's Enumeration is
    button,      \* the device a button acts on
    selected,    \* the address selected in the window's server list
    watched,     \* the window observes the linkDeviceList that is being filled
    shown,       \* the linkDevice the window observes
    enabled      \* one of the buttons is enabled

window == <<selected, watched, shown, enabled>>
vars == <<servers, pc, at, then, held, sender, scan, count, button, window>>

NoScan   == [index |-> 1, size |-> 0]

Init ==
    /\ servers = <<>>
    /\ pc = [t \in Threads |-> CASE t = "multicast" -> "receive"
                                 [] t = "age"       -> "look"
                                 [] t = "awt"       -> "idle"]
    /\ at = [t \in Threads |-> None]
    /\ then = [t \in Threads |-> {}]
    /\ held = [t \in Threads |-> {}]
    /\ sender = None
    /\ scan = NoScan
    /\ count = 0
    /\ button = None
    /\ selected = None
    /\ watched = FALSE
    /\ shown = None
    /\ enabled = FALSE

-----------------------------------------------------------------------------
(***************************************************************************)
(* Objects.                                                                *)
(***************************************************************************)
Listed(o) == o \in ToSet(servers)

\* linkServerList.getServer() and exists() compare addresses.
WithAddress(s) == {o \in ToSet(servers) : AddressOf(o) = s}
LookUp(s) == IF WithAddress(s) = {} THEN None ELSE CHOOSE o \in WithAddress(s) : TRUE

Present(o) == <<o, "present">>

\* Between the start of reInit() and the answers, or the removal if there are
\* none, a server has an empty device list.
Empty(o) ==
    /\ o = at[Listener]
    /\ pc[Listener] \in {"answer", "drop"}

\* getSelectedDevice(): the device of that name in the server's present list.
DeviceOf(o) == IF o = None \/ Empty(o) THEN None ELSE Present(o)

InUse == ToSet(servers) \cup {at[t] : t \in Threads}
                        \cup {ServerOf(d) : d \in {shown, button} \ {None}}

NewObject(s) == CHOOSE o \in Objects \ InUse : AddressOf(o) = s

-----------------------------------------------------------------------------
(***************************************************************************)
(* Monitors.  Wants(t) are the ones thread t has to enter to go on; it can *)
(* when no other thread is in one of them.                                 *)
(***************************************************************************)
List == <<"list">>
Server(o) == <<"server", o>>
Device(d) == <<"device", d>>

\* updateCurrentDeviceObserver(): deleteObserver() on the old device,
\* addObserver() on the new one.
NextShown == DeviceOf(LookUp(selected))

\* In a redraw, and in one that was begun from inside another.
Redrawing == {"gui", "again"}

Wants(t) ==
    CASE pc[t] \in {"add", "remove", "drop"}  -> {List}
      [] pc[t] \in Redrawing                  -> {Device(d) : d \in {shown, NextShown} \ {None}}
      [] pc[t] \in {"init", "status", "poll"}  -> {Server(at[t])}
      [] pc[t] = "connect"                     -> {Server(ServerOf(button))}
      [] pc[t] = "update"                      -> {Device(Present(at[t]))}
      [] OTHER                                 -> {}

WaitsFor(t, u) == u # t /\ Wants(t) \cap held[u] # {}

Ready(t, label) == pc[t] = label /\ \A u \in Threads : ~WaitsFor(t, u)

Resting == {"receive", "look", "idle", "dead"}

\* A thread that is through with a server forgets it.
Goto(t, label) ==
    /\ pc' = [pc EXCEPT ![t] = label]
    /\ at' = IF label \in Resting THEN [at EXCEPT ![t] = None] ELSE at
    /\ sender' = IF t = Listener /\ label # "create" THEN None ELSE sender

-----------------------------------------------------------------------------
(***************************************************************************)
(* The window.                                                             *)
(***************************************************************************)
\* The device the window observes, forgotten when nobody can be in its monitor.
Observed(list, acting) ==
    IF shown \in {Present(o) : o \in ToSet(list)} \cup {acting} THEN shown ELSE None

First(list) == IF list = <<>> THEN None ELSE AddressOf(Head(list))

\* serverListObserver.updateServerList(), or itemStateChanged() of the server
\* list if sel is chosen by the user, up to where the device list is redrawn; it
\* starts with clearDeviceStatus().  Thread t then is in the monitors mons, and
\* goes on at one of the labels.
Display(t, list, sel, mons, labels) ==
    LET o == IF sel = None THEN None ELSE CHOOSE x \in ToSet(list) : AddressOf(x) = sel
        nested   == pc[t] = "gui"
        displays == o # None /\ ~Empty(o)
    IN  /\ selected' = sel
        /\ watched' = IF pc[Listener] = "answer" THEN o = at[Listener] ELSE FALSE
        /\ enabled' = FALSE
        /\ shown' = IF nested /\ ~displays THEN None ELSE Observed(list, button)
        /\ IF displays
           THEN /\ Goto(t, IF nested THEN "again" ELSE "gui")
                /\ then' = [then EXCEPT ![t] = labels]
                /\ held' = [held EXCEPT ![t] = @ \cup mons]
           ELSE /\ \E label \in labels : Goto(t, label)
                /\ then' = [then EXCEPT ![t] = {}]
                /\ held' = [held EXCEPT ![t] = {}]

\* getSelectedServer() does not find the server of the name selected and redraws the
\* window, which selects the first name, for which getSelectedServer() is asked:
\* if that is the same name, until the stack overflows.
Overflow(t, list) ==
    /\ Goto(t, IF t = User THEN "idle" ELSE "dead")
    /\ then' = [then EXCEPT ![t] = {}]
    /\ held' = [held EXCEPT ![t] = {}]
    /\ shown' = Observed(list, button)
    /\ selected' = None
    /\ watched' = FALSE /\ enabled' = FALSE

Redraw(t, list, sel, mons, labels) ==
    \/ Display(t, list, sel, mons, labels)
    \/ sel \in Misnamed /\ sel = First(list) /\ Overflow(t, list)

\* deviceListItemListener.itemStateChanged(), and out of all monitors.  A button is
\* enabled with the device it is to act on.
ShowDevice(t) ==
    /\ shown' = IF pc[t] = "gui" THEN NextShown ELSE None
    /\ enabled' = (enabled \/ NextShown # None)
    /\ \E label \in then[t] : Goto(t, label)
    /\ then' = [then EXCEPT ![t] = {}]
    /\ held' = [held EXCEPT ![t] = {}]
    /\ UNCHANGED <<selected, watched>>

\* If getSelectedDevice() does not find the device any more, the window is redrawn
\* from inside; after that the device displayed is not the one observed.  A third
\* redraw inside the second is left out.
RedrawDevice(t) ==
    /\ pc[t] \in Redrawing /\ Ready(t, pc[t])
    /\ LET unnamed == selected = None /\ servers # <<>>
           gone    == selected # None /\ NextShown = None /\ pc[t] = "gui"
       IN  \/ unnamed /\ Overflow(t, servers)
           \/ gone /\ Redraw(t, servers, First(servers), {}, then[t])
           \/ ~unnamed /\ ~gone /\ ShowDevice(t)
    /\ UNCHANGED <<servers, scan, count, button>>

-----------------------------------------------------------------------------
(***************************************************************************)
(* linkServerList.add() and remove().  Vector.removeElement() looks for    *)
(* this very object: linkServer overloads equals() and does not override   *)
(* it.                                                                     *)
(***************************************************************************)
Without(o) == RemoveFirst(servers, o)

\* Thread t removes the server it works on, if nobody else has done so.
RemoveServer(t, from, labels) ==
    /\ Ready(t, from)
    /\ IF Listed(at[t])
       THEN /\ servers' = Without(at[t])
            /\ Redraw(t, Without(at[t]), First(Without(at[t])), {List}, labels)
       ELSE /\ \E label \in labels : Goto(t, label)
            /\ UNCHANGED <<servers, then, held, window>>
    /\ UNCHANGED <<scan, count, button>>

-----------------------------------------------------------------------------
(***************************************************************************)
(* multicastThread.                                                        *)
(***************************************************************************)

\* What a step of the listener that does not touch the window leaves alone.
ListenerOnly == UNCHANGED <<servers, then, count, button, window>>

\* parseMessage(): INIT, QUIT or STATUS, and an Error for anything else.
Handlers == {"init", "remove", "status", "dead"}

\* Faulty: the scan leaves out the first server.
ReceiveLate(s) ==
    /\ pc[Listener] = "receive"
    /\ sender' = s
    /\ scan' = [index |-> 2, size |-> Len(servers)]
    /\ pc' = [pc EXCEPT ![Listener] = "scan"]
    /\ UNCHANGED <<at, held>> /\ ListenerOnly

\* receive(), and the size the scan in getServer() will believe in.
Receive(s) ==
    /\ pc[Listener] = "receive"
    /\ sender' = s
    /\ scan' = [index |-> 1, size |-> Len(servers)]
    /\ pc' = [pc EXCEPT ![Listener] = "scan"]
    /\ UNCHANGED <<at, held>> /\ ListenerOnly

ScanEnds(label) == Goto(Listener, label) /\ scan' = NoScan

\* The scan in getServer() is in no monitor.
ScanMisses ==
    /\ pc[Listener] = "scan"
    /\ scan.index > scan.size
    /\ ScanEnds("create")
    /\ UNCHANGED <<held>> /\ ListenerOnly

\* elementAt() throws ArrayIndexOutOfBoundsException.
ScanFails ==
    /\ pc[Listener] = "scan"
    /\ scan.index <= scan.size /\ scan.index > Len(servers)
    /\ ScanEnds("dead")
    /\ UNCHANGED <<held>> /\ ListenerOnly

\* updateLastHeardFrom() needs the server's monitor, which only this thread
\* keeps for longer than an assignment.
ScanLooks ==
    /\ pc[Listener] = "scan"
    /\ scan.index <= scan.size /\ scan.index <= Len(servers)
    /\ LET o == servers[scan.index]
       IN  IF AddressOf(o) = sender
           THEN /\ \E label \in Handlers :
                     /\ pc' = [pc EXCEPT ![Listener] = label]
                     /\ at' = [at EXCEPT ![Listener] = IF label \in Resting THEN None ELSE o]
                /\ sender' = None
                /\ scan' = NoScan
           ELSE /\ scan' = [scan EXCEPT !.index = @ + 1]
                /\ UNCHANGED <<at, pc, sender>>
    /\ UNCHANGED held /\ ListenerOnly

\* new linkServer(): DEVICES, and CLIENT_STATUS for its device, are answered; or
\* not, and the datagram is forgotten; or with too few words, for which nextToken()
\* throws NoSuchElementException.
Create ==
    LET o == NewObject(sender)
    IN  /\ pc[Listener] = "create"
        /\ \/ /\ at' = [at EXCEPT ![Listener] = o]
              /\ pc' = [pc EXCEPT ![Listener] = "add"]
              /\ sender' = None
           \/ \E label \in {"receive", "dead"} : Goto(Listener, label)
        /\ UNCHANGED <<held, scan>> /\ ListenerOnly

\* linkServerList.add().  "This should _NEVER_ happen. _EVER_!" if it is there.
Add ==
    /\ Ready(Listener, "add")
    /\ LET o == at[Listener]
       IN  IF WithAddress(AddressOf(o)) # {}
           THEN /\ Goto(Listener, "impossible")
                /\ UNCHANGED <<servers, then, held, window>>
           ELSE /\ servers' = Append(servers, o)
                /\ Redraw(Listener, Append(servers, o), First(Append(servers, o)),
                          {List}, Handlers)
    /\ UNCHANGED <<scan, count, button>>

\* QUIT, or the failure of reInit().
ListenerRemove ==
    \/ RemoveServer(Listener, "remove", {"receive"})
    \/ RemoveServer(Listener, "drop", {"receive"})

\* reInit() enters the server's monitor and starts a new, empty device list.
\* Of the devices of earlier lists only the one a button acts on can keep
\* anybody waiting.
ReInit ==
    LET o == at[Listener]
        Earlier(d) == IF d # Present(o) THEN d
                      ELSE IF d = button THEN <<o, "earlier">> ELSE None
    IN  /\ Ready(Listener, "init")
        /\ button' = Earlier(button)
        /\ shown' = Earlier(shown)
        /\ held' = [held EXCEPT ![Listener] = {Server(o)},
                                ![User] = {Device(Earlier(d)) : d \in {button} \ {None}}
                                          \cup (@ \cap {List})]
        /\ watched' = FALSE
        /\ Goto(Listener, "answer")
        /\ UNCHANGED <<servers, then, scan, count, selected, enabled>>

\* The observers of the new list are told, and the window redraws the device list.
DevicesAnswered ==
    /\ watched
    /\ Goto(Listener, "gui")
    /\ then' = [then EXCEPT ![Listener] = {"receive"}]
    /\ enabled' = FALSE
    /\ UNCHANGED held

\* Faulty: the server is removed from inside its own monitor.
RequestDeviceListDrops ==
    /\ pc[Listener] = "answer"
    /\ \/ DevicesAnswered
       \/ /\ \/ ~watched /\ Goto(Listener, "receive")
             \/ Goto(Listener, "drop")
          /\ UNCHANGED <<held, then, enabled>>
    /\ watched' = FALSE
    /\ UNCHANGED <<servers, scan, count, button, selected, shown>>

\* requestDeviceList(): the answers come, the device is added, and the observers
\* of the new list are told, all inside the server's monitor; or they do not, and
\* the server is removed from the list, outside it; or they have too few words.
RequestDeviceList ==
    /\ pc[Listener] = "answer"
    /\ \/ DevicesAnswered
       \/ /\ \/ ~watched /\ Goto(Listener, "receive")
             \/ \E label \in {"drop", "dead"} : Goto(Listener, label)
          /\ held' = [held EXCEPT ![Listener] = {}]
          /\ UNCHANGED <<then, enabled>>
    /\ watched' = FALSE
    /\ UNCHANGED <<servers, scan, count, button, selected, shown>>

\* updateDeviceStatus() enters the server's monitor, and then the device's.
Status ==
    /\ Ready(Listener, "status")
    /\ Goto(Listener, "update")
    /\ held' = [held EXCEPT ![Listener] = {Server(at[Listener])}]
    /\ UNCHANGED <<scan>> /\ ListenerOnly

\* "This shouldn't happen.  Received status information about unknown device":
\* the server has been restarted with another configuration, and its INIT lost; or
\* the status has too few words.  Each device is looked up before its monitor is
\* waited for, the first one when the listener has entered the server's.
UnknownDevice ==
    /\ Ready(Listener, "status") \/ Ready(Listener, "update")
    /\ Goto(Listener, "dead")
    /\ held' = [held EXCEPT ![Listener] = {}]
    /\ UNCHANGED scan /\ ListenerOnly

\* The device tells its observer, and updateCurrentDevice() enables a button.  (The
\* device of a server that is not listed may be observed without being in shown.)
Update ==
    LET o == at[Listener]
    IN  /\ Ready(Listener, "update")
        /\ Goto(Listener, "receive")
        /\ held' = [held EXCEPT ![Listener] = {}]
        /\ enabled' \in IF shown = Present(o) THEN {TRUE}
                        ELSE IF Listed(o) THEN {enabled} ELSE {enabled, TRUE}
        /\ UNCHANGED <<servers, then, scan, count, button, selected, watched, shown>>

ListenerStep ==
    \/ ScanMisses \/ ScanFails \/ ScanLooks \/ Create \/ Add
    \/ ListenerRemove \/ ReInit \/ RequestDeviceList \/ Status
    \/ UnknownDevice \/ Update
    \/ RedrawDevice(Listener)

-----------------------------------------------------------------------------
(***************************************************************************)
(* ageThread.                                                              *)
(***************************************************************************)
AgerOnly == UNCHANGED <<servers, then, held, scan, button, window>>

\* Faulty: each round begins with the second server.
LookFromSecond ==
    /\ pc[Ager] = "look"
    /\ IF count < Len(servers)
       THEN Goto(Ager, "next") /\ UNCHANGED count
       ELSE count' = 1 /\ Goto(Ager, "look")
    /\ AgerOnly

\* hasMoreElements(); at the end sleep(), and a new Enumeration.
Look ==
    /\ pc[Ager] = "look"
    /\ IF count < Len(servers)
       THEN Goto(Ager, "next") /\ UNCHANGED count
       ELSE count' = 0 /\ Goto(Ager, "look")
    /\ AgerOnly

\* timeSince > clientPollFrequency, and a PING is sent; or not; or the PING fails.
AfterSilence == {"poll", "look", "dead"}

\* nextElement() throws NoSuchElementException if the vector has become shorter.
\* The server is found silent (clientForgetServerFrequency), or not.
NextElement ==
    /\ pc[Ager] = "next"
    /\ IF count < Len(servers)
       THEN /\ count' = count + 1
            /\ \E label \in {"remove"} \cup AfterSilence :
                 /\ pc' = [pc EXCEPT ![Ager] = label]
                 /\ at' = [at EXCEPT ![Ager] =
                               IF label \in {"remove", "poll"} THEN servers[count + 1] ELSE None]
            /\ UNCHANGED sender
       ELSE Goto(Ager, "dead") /\ UNCHANGED count
    /\ AgerOnly

\* "Sombody beat us to it.  Never mind."
AgerRemove == RemoveServer(Ager, "remove", AfterSilence)

\* updateLastTalkedTo()
Poll ==
    /\ Ready(Ager, "poll")
    /\ Goto(Ager, "look")
    /\ UNCHANGED count /\ AgerOnly

AgerStep ==
    \/ Look \/ NextElement \/ AgerRemove \/ Poll
    \/ RedrawDevice(Ager)

-----------------------------------------------------------------------------
(***************************************************************************)
(* The event thread.                                                       *)
(***************************************************************************)
\* The user selects a server; the window redraws without the list's monitor.  If the
\* name does not lead back, the first server is selected instead.  (The window then
\* shows none of its devices until the user selects it; that click is left out.)
Select(s) ==
    /\ pc[User] = "idle"
    /\ WithAddress(s) # {}
    /\ \E sel \in {s} \cup (IF s \in Misnamed THEN {First(servers)} ELSE {}) :
         Redraw(User, servers, sel, {}, {"idle"})
    /\ UNCHANGED <<servers, scan, count, button>>

\* Faulty: the button does not ask whether a device is selected.
PressAnything ==
    /\ pc[User] = "idle"
    /\ enabled /\ selected \in Clicked
    /\ button' = NextShown
    /\ held' = [held EXCEPT ![User] = {Device(NextShown)}]
    /\ Goto(User, "connect")
    /\ UNCHANGED <<servers, then, scan, count, window>>

\* A button is pressed: Connect() or Disconnect() of the selected device, inside its
\* monitor; or a redraw, if the device has gone from its server's list.
Press ==
    /\ pc[User] = "idle"
    /\ enabled /\ selected \in Clicked
    /\ \/ /\ NextShown # None
          /\ button' = NextShown
          /\ held' = [held EXCEPT ![User] = {Device(NextShown)}]
          /\ Goto(User, "connect")
          /\ UNCHANGED <<then, window>>
       \/ /\ NextShown = None
          /\ Redraw(User, servers, First(servers), {}, {"idle"})
          /\ UNCHANGED button
    /\ UNCHANGED <<servers, scan, count>>

\* updateLastTalkedTo() needs the server's monitor; UP or DOWN is sent and answered,
\* and in refreshClientStatus() once more updateLastTalkedTo(), and CLIENT_STATUS,
\* all inside the device's monitor.  If an answer does not come, the listener of
\* the button asks getSelectedServer(), in no monitor, for the server to remove,
\* which need not be the device's any more.
Connect ==
    /\ Ready(User, "connect")
    /\ \/ Goto(User, "idle")
       \/ /\ LookUp(selected) # None
          /\ at' = [at EXCEPT ![User] = LookUp(selected)]
          /\ pc' = [pc EXCEPT ![User] = "remove"]
          /\ UNCHANGED sender
    /\ held' = [held EXCEPT ![User] = {}]
    /\ button' = None
    /\ shown' = Observed(servers, None)
    /\ UNCHANGED <<servers, then, scan, count, selected, watched, enabled>>

\* "This cannot happen": an Error, which the event thread survives, if the
\* server is not on the list any more.
UserRemove == RemoveServer(User, "remove", {"idle"})

UserStep ==
    \/ Connect \/ UserRemove \/ RedrawDevice(User)

-----------------------------------------------------------------------------
Next ==
    \/ \E s \in Servers : Receive(s)
    \/ ListenerStep
    \/ AgerStep
    \/ \E s \in Servers : Select(s)
    \/ Press
    \/ UserStep

Spec == Init /\ [][Next]_vars

\* Threads that can go on do, and a thread that waits for a monitor that is
\* left again and again gets it.  Nothing makes a server or the user do anything.
FairSpec ==
    Spec /\ SF_vars(ListenerStep) /\ SF_vars(AgerStep) /\ SF_vars(UserStep)

-----------------------------------------------------------------------------
\* The shape of the state; a device acted on is a device (linkControl.java), and
\* neither the enumeration nor the size a scan goes by exceeds what the list can hold.
TypeOK ==
    /\ servers \in Seq(Objects)
    /\ pc \in [Threads -> {"receive", "scan", "create", "add", "init", "answer", "drop",
                          "status", "update", "impossible", "look", "next",
                          "poll", "idle", "connect", "remove", "gui", "again", "dead"}]
    /\ at \in [Threads -> Objects \cup {None}]
    /\ \A t \in Threads : held[t] \subseteq {List} \cup {Server(o) : o \in Objects}
                                               \cup {Device(d) : d \in Devices}
    /\ {shown, button} \subseteq Devices \cup {None}
    /\ {selected, sender} \subseteq Servers \cup {None}
    /\ count \in 0 .. Cardinality(Servers)
    /\ scan.size \in 0 .. Cardinality(Servers)

\* multicastThread.java:80-83, "This should _NEVER_ happen. _EVER_! First a server
\* claims not to exist, then it does": although getServer() looks through the
\* vector in no monitor while others remove from it, no server is entered twice.
ServerKnownOnce ==
    /\ pc[Listener] # "impossible"
    /\ \A i, j \in DOMAIN servers :
         AddressOf(servers[i]) = AddressOf(servers[j]) => i = j

\* A button's device is in the event thread's hands, its server in the listener's, and
\* the event thread wants the server (linkDevice.java:191-193).
Opposed ==
    /\ pc[User] = "connect" /\ held[User] = {Device(button)}
    /\ Server(ServerOf(button)) \in held[Listener]

\* The listener is to update that very device (linkServer.java:180, 215) ...
StuckInStatus == Opposed /\ pc[Listener] = "update" /\ button = Present(at[Listener])

\* ... or has a new device list from reInit() and takes the window's observer off
\* that device or puts it on (linkServer.java:164, linkControl.java:191-198).
StuckInReInit == Opposed /\ pc[Listener] \in Redrawing /\ button \in {shown, NextShown}

Stuck == StuckInStatus \/ StuckInReInit

\* linkDevice.java:191 enters a device and then its server; linkServer.java:180 and
\* 164 are reached inside a server and enter a device.  Threads wait for each other in
\* a circle, of two or of all three, in these two ways only: the event thread in
\* Connect() against the listener in updateDeviceStatus(), and the event thread in
\* Connect() against the redraw that reInit() causes.  The list's monitor, which is
\* kept while the window is redrawn, is in no circle.
OnlyDeadlock ==
    \A t, u, v \in Threads :
        WaitsFor(t, u) /\ WaitsFor(u, v) /\ t \in {v, u} \cup {x \in Threads : WaitsFor(v, x)}
            => Stuck

\* The server the enumeration comes to next.
NextIs(s) == count < Len(servers) /\ AddressOf(servers[count + 1]) = s

\* ageThread.java:54-67: every server on the list is looked at again and again,
\* although the enumeration skips one after every server that is removed before
\* its place; unless one of the two ends of the thread comes first.
EveryServerWatched ==
    \A s \in Servers :
        \/ []<>(WithAddress(s) = {} \/ pc[Ager] = "dead" \/ Stuck)
        \/ []<><<NextElement /\ NextIs(s)>>_vars

\* linkDevice.java:187-190, "Connect sends the connect command to the server, then
\* updates the client status to reflect the fact that it has connected."
ConnectReturns == button # None ~> button = None

=============================================================================
