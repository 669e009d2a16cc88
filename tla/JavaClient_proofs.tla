--------------------------- MODULE JavaClient_proofs ---------------------------
(***************************************************************************)
(* Proofs about the Java client, for any number of servers.                *)
(*                                                                         *)
(* ServerKnownOnce.  multicastThread looks for the sender of a datagram in *)
(* a vector from which the two other threads remove servers, in no         *)
(* monitor, and creates the server if it does not find it.  A removal      *)
(* moves servers it has not seen to places it has passed; but then the     *)
(* vector has become shorter than the size it read, and elementAt() throws *)
(* before the search ends (ScanMissesNobody).  Nobody else adds servers,   *)
(* so the one it then creates is still new when it is added (NewIsNew).    *)
(*                                                                         *)
(* OnlyDeadlock.  Of the monitors a thread is in while it waits for one,   *)
(* the event thread's is that of the device connected (HeldByUser), the    *)
(* listener's are the server it works on or the list (HeldByListener) and  *)
(* ageThread's is the list (HeldByAger); and the device is the only one of *)
(* the event thread's that a thread inside a monitor waits for.            *)
(***************************************************************************)
EXTENDS JavaClient, ListLemmas, FiniteSetTheorems

-----------------------------------------------------------------------------
\* The labels of each thread.
ListenerAt == {"receive", "scan", "create", "add", "init", "answer", "drop", "status",
               "update", "impossible", "remove", "gui", "again", "dead"}
AgerAt     == {"look", "next", "poll", "remove", "gui", "again", "dead"}
UserAt     == {"idle", "connect", "remove", "gui", "again"}

Labels == ListenerAt \cup AgerAt \cup UserAt

PcOK ==
    /\ pc \in [Threads -> Labels]
    /\ pc[Listener] \in ListenerAt /\ pc[Ager] \in AgerAt /\ pc[User] \in UserAt

ThenOK ==
    /\ then \in [Threads -> SUBSET (Handlers \cup {"receive"} \cup AfterSilence \cup {"idle"})]
    /\ then[Listener] \subseteq Handlers \cup {"receive"}
    /\ then[Ager] \subseteq AfterSilence
    /\ then[User] \subseteq {"idle"}

\* A thread works on a server where its next step needs one.
AtOK ==
    /\ at \in [Threads -> Objects \cup {None}]
    /\ pc[Listener] \in {"receive", "scan", "create"} => at[Listener] = None
    /\ pc[Listener] \in {"add", "init", "answer", "drop", "status", "update",
                         "remove", "gui", "again"} => at[Listener] \in Objects

\* The vector, and what the three threads know of it.
UniqueIn(list) ==
    \A i, j \in DOMAIN list : AddressOf(list[i]) = AddressOf(list[j]) => i = j

ListOK == servers \in Seq(Objects) /\ UniqueIn(servers)

SelectionOK ==
    /\ shown \in Devices \cup {None}
    /\ button \in Devices \cup {None}
    /\ selected \in Servers \cup {None}
    /\ button # None <=> pc[User] = "connect"

SenderOK ==
    /\ sender \in Servers \cup {None}
    /\ pc[Listener] \in {"scan", "create"} => sender \in Servers

\* No enumeration or scan goes further than the list was ever long.
Bound == 0 .. Cardinality(Servers)
PlacesOK ==
    /\ count \in Bound
    /\ scan.size \in Bound

\* As long as nobody has been removed since the scan began, the sender is not among
\* those it has passed; afterwards, it fails before it is through.
ScanMissesNobody ==
    pc[Listener] = "scan" =>
        /\ scan \in [index : Nat, size : Nat]
        /\ 1 <= scan.index /\ scan.index <= scan.size + 1
        /\ Len(servers) <= scan.size
        /\ \/ \A i \in DOMAIN servers : i < scan.index => AddressOf(servers[i]) # sender
           \/ scan.index <= scan.size /\ Len(servers) < scan.size

\* The server created is not on the list, and stays so until it is added.
Unlisted(s) == \A i \in DOMAIN servers : AddressOf(servers[i]) # s
NewIsNew ==
    /\ pc[Listener] = "create" => Unlisted(sender)
    /\ pc[Listener] = "add" => Unlisted(AddressOf(at[Listener]))
    /\ pc[Listener] # "impossible"

\* The monitors each thread is in, and where.
ServerMonitors == {Server(o) : o \in Objects}
DeviceMonitors == {Device(d) : d \in Devices}
Monitors == {List} \cup ServerMonitors \cup DeviceMonitors

\* A thread can be in the monitors mons where it is.
HeldByListener(label, mons) ==
    /\ mons \subseteq {List} \cup ServerMonitors
    /\ label \notin {"gui", "again", "answer", "update"} => mons = {}
HeldByAger(label, mons) ==
    /\ mons \subseteq {List}
    /\ label \notin {"gui", "again"} => mons = {}
HeldByUser(label, mons) ==
    /\ label = "connect" => mons \subseteq DeviceMonitors
    /\ label \in {"gui", "again"} => mons \subseteq {List}
    /\ label \notin {"connect", "gui", "again"} => mons = {}
HeldBy(t, label, mons) ==
    /\ t = Listener => HeldByListener(label, mons)
    /\ t = Ager => HeldByAger(label, mons)
    /\ t = User => HeldByUser(label, mons)

HeldOK ==
    /\ held \in [Threads -> SUBSET Monitors]
    /\ \A t \in Threads : HeldBy(t, pc[t], held[t])
    /\ pc[User] = "connect" => held[User] \subseteq {Device(button)}

IndInv ==
    /\ PcOK /\ ThenOK /\ AtOK /\ ListOK /\ SelectionOK /\ SenderOK /\ PlacesOK
    /\ ScanMissesNobody /\ NewIsNew /\ HeldOK

-----------------------------------------------------------------------------
(***************************************************************************)
(* Lists of servers.                                                       *)
(***************************************************************************)
LEMMA ObjectLemma == \A o \in Objects : AddressOf(o) \in Servers
BY DEF Objects, AddressOf

\* Whoever has an address of his own is on the list once.
LEMMA UniqueOnce ==
  ASSUME NEW list, UniqueIn(list)
  PROVE  Once(list)
BY DEF UniqueIn, Once

\* No more servers than addresses.
LEMMA LengthLemma ==
  ASSUME NEW list \in Seq(Objects), UniqueIn(list)
  PROVE  Len(list) \in Bound
<1> DEFINE f == [i \in 1 .. Len(list) |-> AddressOf(list[i])]
<1>1. Len(list) \in Nat /\ DOMAIN list = 1 .. Len(list)
  OBVIOUS
<1>2. f \in [1 .. Len(list) -> Servers]
  BY ObjectLemma
<1>3. \A i, j \in 1 .. Len(list) : f[i] = f[j] => i = j
  BY <1>1 DEF UniqueIn
<1> HIDE DEF f
<1>4. f \in Injection(1 .. Len(list), Servers)
  BY <1>2, <1>3 DEF Injection, IsInjective
<1>5. Cardinality(1 .. Len(list)) <= Cardinality(Servers)
  BY <1>4, FS_Injection, ServersAssumption
<1>6. Cardinality(1 .. Len(list)) = Len(list)
  BY <1>1, FS_Interval
<1>7. Cardinality(Servers) \in Nat
  BY FS_CardinalityType, ServersAssumption
<1>8. QED
  BY <1>1, <1>5, <1>6, <1>7 DEF Bound

\* Removing one leaves the addresses of the others, each of them once.
LEMMA RemoveUnique ==
  ASSUME NEW list \in Seq(Objects), UniqueIn(list), NEW o, Contains(list, o)
  PROVE  LET new == RemoveFirst(list, o)
         IN  /\ new \in Seq(Objects) /\ UniqueIn(new)
             /\ Len(new) = Len(list) - 1
             /\ \A i \in DOMAIN new : \E j \in DOMAIN list : new[i] = list[j]
<1> DEFINE new == RemoveFirst(list, o)
<1>1. /\ new \in Seq(Objects) /\ Once(new) /\ Len(new) = Len(list) - 1
      /\ \A x : Contains(new, x) <=> Contains(list, x) /\ x # o
  BY UniqueOnce, RemoveFirstLemma
<1> HIDE DEF new
<1>2. \A i \in DOMAIN new : Contains(new, new[i])
  BY <1>1 DEF Contains
<1>3. \A i \in DOMAIN new : \E j \in DOMAIN list : new[i] = list[j]
  <2> SUFFICES ASSUME NEW i \in DOMAIN new
               PROVE  \E j \in DOMAIN list : new[i] = list[j]
    OBVIOUS
  <2>1. Contains(list, new[i])
    BY <1>1, <1>2
  <2>2. DOMAIN list = 1 .. Len(list)
    OBVIOUS
  <2>3. QED
    BY <2>1, <2>2 DEF Contains
<1>4. UniqueIn(new)
  <2> SUFFICES ASSUME NEW i \in DOMAIN new, NEW j \in DOMAIN new,
                      AddressOf(new[i]) = AddressOf(new[j])
               PROVE  i = j
    BY DEF UniqueIn
  <2>1. new[i] = new[j]
    BY <1>3 DEF UniqueIn
  <2>2. QED
    BY <2>1, <1>1 DEF Once
<1>5. QED
  BY <1>1, <1>3, <1>4 DEF new

\* Adding one with a new address.
LEMMA AppendUnique ==
  ASSUME NEW list \in Seq(Objects), UniqueIn(list), NEW o \in Objects,
         \A i \in DOMAIN list : AddressOf(list[i]) # AddressOf(o)
  PROVE  LET new == Append(list, o)
         IN  new \in Seq(Objects) /\ new # <<>> /\ UniqueIn(new)
<1> DEFINE new == Append(list, o)
<1>1. /\ new \in Seq(Objects) /\ Len(list) \in Nat /\ DOMAIN list = 1 .. Len(list)
      /\ DOMAIN new = 1 .. Len(list) + 1
      /\ \A i \in 1 .. Len(list) : new[i] = list[i]
      /\ new[Len(list) + 1] = o
      /\ new # <<>>
  OBVIOUS
<1> HIDE DEF new
<1>2. UniqueIn(new)
  BY <1>1 DEF UniqueIn
<1>3. QED
  BY <1>1, <1>2 DEF new

\* Contains, Listed, WithAddress and Unlisted.
LEMMA ListedLemma ==
  ASSUME servers \in Seq(Objects)
  PROVE  /\ \A o : Listed(o) <=> Contains(servers, o)
         /\ \A s : Unlisted(s) <=> WithAddress(s) = {}
         /\ \A s : LookUp(s) # None => LookUp(s) \in Objects /\ AddressOf(LookUp(s)) = s
         /\ \A s : LookUp(s) = None \/ LookUp(s) \in ToSet(servers)
<1>1. \A o : Listed(o) <=> Contains(servers, o)
  BY DEF Listed, ToSet, Contains
<1>2. \A s : Unlisted(s) <=> WithAddress(s) = {}
  BY DEF Unlisted, WithAddress, ToSet
<1>3. ToSet(servers) \subseteq Objects
  BY DEF ToSet
<1>4. ASSUME NEW s, WithAddress(s) # {}
      PROVE  LookUp(s) \in ToSet(servers) /\ AddressOf(LookUp(s)) = s
  <2>1. LookUp(s) = CHOOSE o \in WithAddress(s) : TRUE
    BY <1>4 DEF LookUp
  <2>2. LookUp(s) \in WithAddress(s)
    BY <1>4, <2>1
  <2>3. QED
    BY <2>2 DEF WithAddress
<1>5. \A s : WithAddress(s) = {} => LookUp(s) = None
  BY DEF LookUp
<1>6. QED
  BY <1>1, <1>2, <1>3, <1>4, <1>5

\* The device shown or to be shown is a device, or none.
LEMMA ShownLemma ==
  ASSUME servers \in Seq(Objects)
  PROVE  NextShown \in Devices \cup {None}
<1>1. \A o \in Objects : Present(o) \in Devices
  BY DEF Present, Devices
<1>2. LookUp(selected) = None \/ LookUp(selected) \in Objects
  BY ListedLemma
<1>3. QED
  BY <1>1, <1>2 DEF NextShown, DeviceOf

\* What the window selects when its server is gone, the first one on the list or nothing,
\* is a server that may be selected (linkControl.java).
LEMMA FirstLemma ==
  ASSUME NEW list \in Seq(Objects)
  PROVE  First(list) \in Servers \cup {None}
<1>1. list # <<>> => Head(list) \in Objects
  OBVIOUS
<1>2. QED
  BY <1>1, ObjectLemma DEF First

-----------------------------------------------------------------------------
(***************************************************************************)
(* What most steps do to the invariant.                                    *)
(***************************************************************************)
LEMMA ThreadsLemma ==
  /\ Threads = {Listener, Ager, User}
  /\ Listener # Ager /\ Listener # User /\ Ager # User
BY DEF Threads, Listener, Ager, User

\* A thread that goes on somewhere it has what it needs.
LEMMA GotoLemma ==
  ASSUME PcOK, AtOK, SenderOK, NEW t \in Threads, NEW label, Goto(t, label),
         t = Listener => /\ label \in ListenerAt \ {"scan", "create"}
                         /\ \/ label \in {"receive", "impossible", "dead"}
                            \/ at[Listener] \in Objects,
         t = Ager => label \in AgerAt,
         t = User => label \in UserAt
  PROVE  /\ PcOK' /\ AtOK' /\ SenderOK'
         /\ pc'[t] = label
         /\ \A u \in Threads \ {t} : pc'[u] = pc[u] /\ at'[u] = at[u]
         /\ t # Listener => sender' = sender
<1> USE ThreadsLemma
<1>1. label \in Labels
  BY DEF Labels
<1>2. /\ pc' \in [Threads -> Labels]
      /\ pc'[t] = label
      /\ \A u \in Threads \ {t} : pc'[u] = pc[u]
  BY <1>1 DEF PcOK, Goto
<1>3. /\ at' \in [Threads -> Objects \cup {None}]
      /\ at'[t] = IF label \in Resting THEN None ELSE at[t]
      /\ \A u \in Threads \ {t} : at'[u] = at[u]
  BY DEF AtOK, Goto
<1>4. sender' = IF t = Listener /\ label # "create" THEN None ELSE sender
  BY DEF Goto
<1>5. PcOK'
  BY <1>2 DEF PcOK
<1>6. AtOK'
  <2>1. CASE t = Listener
    BY <2>1, <1>2, <1>3 DEF AtOK, ListenerAt, Resting
  <2>2. CASE t # Listener
    BY <2>2, <1>2, <1>3 DEF AtOK
  <2>3. QED
    BY <2>1, <2>2
<1>7. SenderOK'
  BY <1>2, <1>4 DEF SenderOK
<1>8. QED
  BY <1>2, <1>3, <1>4, <1>5, <1>6, <1>7

\* multicastThread is not about to enter a server, or this step is none of its.
NotEntering ==
    \/ pc'[Listener] \notin {"scan", "create", "add", "impossible"}
    \/ /\ pc'[Listener] = pc[Listener] /\ at'[Listener] = at[Listener]
       /\ sender' = sender /\ scan' = scan

\* Nothing happens to the list.
LEMMA SameList ==
  ASSUME IndInv, servers' = servers, NotEntering
  PROVE  ListOK' /\ ScanMissesNobody' /\ NewIsNew'
<1> USE DEF IndInv
<1>1. ListOK'
  BY DEF ListOK
<1>2. CASE pc'[Listener] \notin {"scan", "create", "add", "impossible"}
  BY <1>1, <1>2 DEF ScanMissesNobody, NewIsNew
<1>3. CASE /\ pc'[Listener] = pc[Listener] /\ at'[Listener] = at[Listener]
           /\ sender' = sender /\ scan' = scan
  <2>1. ScanMissesNobody'
    BY <1>3 DEF ScanMissesNobody
  <2>2. NewIsNew'
    BY <1>3 DEF NewIsNew, Unlisted
  <2>3. QED
    BY <1>1, <2>1, <2>2
<1>4. QED
  BY <1>2, <1>3 DEF NotEntering

\* A server is removed, maybe under the eyes of the scan.
LEMMA ShorterList ==
  ASSUME IndInv, NEW o, Listed(o), servers' = Without(o), NotEntering
  PROVE  ListOK' /\ ScanMissesNobody' /\ NewIsNew'
<1> USE DEF IndInv
<1>1. servers \in Seq(Objects) /\ UniqueIn(servers) /\ Contains(servers, o)
  BY ListedLemma DEF ListOK
<1>2. /\ servers' \in Seq(Objects) /\ UniqueIn(servers')
      /\ Len(servers') = Len(servers) - 1
      /\ \A i \in DOMAIN servers' : \E j \in DOMAIN servers : servers'[i] = servers[j]
  BY <1>1, RemoveUnique DEF Without
<1>3. ListOK'
  BY <1>2 DEF ListOK, UniqueIn
<1>4. Len(servers) \in Nat /\ DOMAIN servers = 1 .. Len(servers)
  BY <1>1
<1>5. CASE pc'[Listener] \notin {"scan", "create", "add", "impossible"}
  BY <1>3, <1>5 DEF ScanMissesNobody, NewIsNew
<1>6. CASE /\ pc'[Listener] = pc[Listener] /\ at'[Listener] = at[Listener]
           /\ sender' = sender /\ scan' = scan
  <2>1. \A s : Unlisted(s) => Unlisted(s)'
    BY <1>2 DEF Unlisted
  <2>2. NewIsNew'
    BY <1>6, <2>1 DEF NewIsNew, Unlisted
  <2>3. ScanMissesNobody'
    <3> SUFFICES ASSUME pc[Listener] = "scan"
                 PROVE  /\ Len(servers') <= scan.size
                        /\ \/ \A i \in DOMAIN servers' :
                                 i < scan.index => AddressOf(servers'[i]) # sender
                           \/ scan.index <= scan.size /\ Len(servers') < scan.size
      BY <1>6 DEF ScanMissesNobody
    <3>1. /\ scan.index \in Nat /\ scan.size \in Nat
          /\ scan.index <= scan.size + 1 /\ Len(servers) <= scan.size
          /\ \/ \A i \in DOMAIN servers : i < scan.index => AddressOf(servers[i]) # sender
             \/ scan.index <= scan.size /\ Len(servers) < scan.size
      BY DEF ScanMissesNobody
    <3>2. Len(servers') <= scan.size /\ Len(servers') < scan.size
      BY <3>1, <1>2, <1>4
    <3>3. CASE scan.index <= scan.size
      BY <3>2, <3>3
    <3>4. CASE ~(scan.index <= scan.size)
      <4>1. \A i \in DOMAIN servers : i < scan.index
        BY <3>1, <3>4, <1>4
      <4>2. \A i \in DOMAIN servers : AddressOf(servers[i]) # sender
        BY <4>1, <3>1, <3>4
      <4>3. \A i \in DOMAIN servers' : AddressOf(servers'[i]) # sender
        BY <4>2, <1>2
      <4>4. QED
        BY <3>2, <4>3
    <3>5. QED
      BY <3>3, <3>4
  <2>4. QED
    BY <1>3, <2>2, <2>3
<1>7. QED
  BY <1>5, <1>6 DEF NotEntering

\* One thread enters and leaves monitors.
LEMMA HeldLemma ==
  ASSUME IndInv, NEW t \in Threads, NEW mons \in SUBSET Monitors,
         held' = [held EXCEPT ![t] = mons],
         \A u \in Threads \ {t} : pc'[u] = pc[u],
         HeldBy(t, pc'[t], mons),
         \/ pc'[User] # "connect"
         \/ t # User /\ button' = button
         \/ t = User /\ mons \subseteq {Device(button')}
  PROVE  HeldOK'
<1>1. /\ held \in [Threads -> SUBSET Monitors] /\ \A u \in Threads : HeldBy(u, pc[u], held[u])
      /\ pc[User] = "connect" => held[User] \subseteq {Device(button)}
  BY DEF IndInv, HeldOK
<1>2. held' \in [Threads -> SUBSET Monitors]
  BY <1>1
<1>3. \A u \in Threads : held'[u] = IF u = t THEN mons ELSE held[u]
  BY <1>1
<1>4. \A u \in Threads : HeldBy(u, pc'[u], held'[u])
  BY <1>1, <1>3
<1>5. pc'[User] = "connect" => held'[User] \subseteq {Device(button')}
  <2>1. CASE t = User
    BY <1>3, <2>1, ThreadsLemma
  <2>2. CASE t # User
    <3>1. held'[User] = held[User] /\ pc'[User] = pc[User]
      BY <1>3, <2>2, ThreadsLemma
    <3>2. QED
      BY <1>1, <2>2, <3>1
  <2>3. QED
    BY <2>1, <2>2
<1>6. QED
  BY <1>2, <1>4, <1>5 DEF HeldOK

\* A thread with no monitor goes on to where it needs to be in none.
LEMMA SameHeld ==
  ASSUME IndInv, NEW t \in Threads, held' = held, held[t] = {}, button' = button,
         \A u \in Threads \ {t} : pc'[u] = pc[u]
  PROVE  HeldOK'
<1>1. /\ held \in [Threads -> SUBSET Monitors] /\ \A u \in Threads : HeldBy(u, pc[u], held[u])
      /\ pc[User] = "connect" => held[User] \subseteq {Device(button)}
  BY DEF IndInv, HeldOK
<1>2. HeldBy(t, pc'[t], {})
  BY DEF HeldBy, HeldByListener, HeldByAger, HeldByUser
<1>3. \A u \in Threads : HeldBy(u, pc'[u], held[u])
  BY <1>1, <1>2
<1>4. pc'[User] = "connect" => held[User] \subseteq {Device(button)}
  BY <1>1, ThreadsLemma
<1>5. QED
  BY <1>1, <1>3, <1>4 DEF HeldOK

\* Where each thread is in no monitor.
LEMMA NotInside ==
  ASSUME IndInv
  PROVE  /\ pc[Listener] \notin {"gui", "again", "answer", "update"} => held[Listener] = {}
         /\ pc[Ager] \notin {"gui", "again"} => held[Ager] = {}
         /\ pc[User] \notin {"connect", "gui", "again"} => held[User] = {}
BY ThreadsLemma DEF IndInv, HeldOK, HeldBy, HeldByListener, HeldByAger, HeldByUser

\* The window is redrawn by a thread that was in no monitor, or is in a redraw already;
\* or the stack overflows.
LEMMA RedrawLemma ==
  ASSUME IndInv, NEW t \in Threads, NEW list \in Seq(Objects),
         NEW sel \in Servers \cup {None}, NEW mons \in SUBSET {List}, NEW labels,
         \/ Overflow(t, list)
         \/ /\ Redraw(t, list, sel, mons, labels)
            /\ \/ held[t] = {}
               \/ pc[t] = "gui" /\ mons = {},
         UNCHANGED <<scan, count, button>>, pc[t] # "connect",
         t = Listener => labels \subseteq Handlers \cup {"receive"} /\ at[Listener] \in Objects,
         t = Ager => labels \subseteq AfterSilence,
         t = User => labels \subseteq {"idle"}
  PROVE  /\ PcOK' /\ ThenOK' /\ AtOK' /\ SenderOK' /\ SelectionOK' /\ PlacesOK' /\ HeldOK'
         /\ pc'[t] \notin {"scan", "create", "add", "impossible"}
         /\ \A u \in Threads \ {t} : pc'[u] = pc[u] /\ at'[u] = at[u]
         /\ t # Listener => sender' = sender
<1> USE ThreadsLemma DEF IndInv
<1> DEFINE fails == IF t = User THEN "idle" ELSE "dead"
           draws == IF pc[t] = "gui" THEN "again" ELSE "gui"
<1>1. \/ /\ Goto(t, draws)
         /\ then' = [then EXCEPT ![t] = labels]
         /\ held' = [held EXCEPT ![t] = @ \cup mons]
         /\ held[t] = {} \/ (pc[t] = "gui" /\ mons = {})
      \/ /\ \E label \in labels \cup {fails} : Goto(t, label)
         /\ then' = [then EXCEPT ![t] = {}]
         /\ held' = [held EXCEPT ![t] = {}]
  BY DEF Redraw, Display, Overflow
<1>2. selected' \in {sel, None} /\ shown' \in {shown, None}
  BY DEF Redraw, Display, Overflow, Observed
<1>3. PICK label \in labels \cup {draws, fails} : Goto(t, label)
  BY <1>1
<1>4. /\ t = Listener => label \in ListenerAt \ {"scan", "create", "add", "impossible"}
      /\ t = Ager => label \in AgerAt
      /\ t = User => label \in UserAt \ {"connect"}
  BY <1>3 DEF ListenerAt, AgerAt, UserAt, Handlers, AfterSilence
<1>5. /\ PcOK' /\ AtOK' /\ SenderOK'
      /\ pc'[t] = label
      /\ \A u \in Threads \ {t} : pc'[u] = pc[u] /\ at'[u] = at[u]
      /\ t # Listener => sender' = sender
  BY <1>3, <1>4, GotoLemma
<1>6. pc'[t] \notin {"scan", "create", "add", "impossible"}
  BY <1>4, <1>5 DEF AgerAt, UserAt
<1>7. ThenOK'
  <2>1. labels \subseteq Handlers \cup {"receive"} \cup AfterSilence \cup {"idle"}
    OBVIOUS
  <2>2. then' = [then EXCEPT ![t] = labels] \/ then' = [then EXCEPT ![t] = {}]
    BY <1>1
  <2>3. QED
    BY <2>1, <2>2 DEF ThenOK
<1>8. SelectionOK'
  <2>1. pc'[User] = "connect" <=> pc[User] = "connect"
    BY <1>4, <1>5
  <2>2. QED
    BY <1>2, <2>1 DEF SelectionOK
<1>9. PlacesOK'
  BY DEF PlacesOK
<1>10. HeldOK'
  <2>1. held \in [Threads -> SUBSET Monitors] /\ HeldBy(t, pc[t], held[t])
    BY DEF HeldOK
  <2>2. pc'[User] # "connect" \/ (t # User /\ button' = button)
    BY <1>4, <1>5
  <2>3. CASE held' = [held EXCEPT ![t] = {}]
    <3>1. HeldBy(t, pc'[t], {})
      BY DEF HeldBy, HeldByListener, HeldByAger, HeldByUser
    <3>2. {} \in SUBSET Monitors
      OBVIOUS
    <3>3. QED
      BY <1>5, <2>2, <2>3, <3>1, <3>2, HeldLemma
  <2>4. CASE /\ Goto(t, draws) /\ held' = [held EXCEPT ![t] = @ \cup mons]
             /\ held[t] = {} \/ (pc[t] = "gui" /\ mons = {})
    <3>1. pc'[t] = draws
      BY <2>4 DEF Goto, PcOK
    <3>2. CASE held[t] = {}
      <4>1. held' = [held EXCEPT ![t] = mons]
        BY <2>4, <2>1, <3>2
      <4>2. mons \in SUBSET Monitors
        BY DEF Monitors
      <4>3. HeldBy(t, pc'[t], mons)
        BY <3>1 DEF HeldBy, HeldByListener, HeldByAger, HeldByUser
      <4>4. QED
        BY <1>5, <2>2, <4>1, <4>2, <4>3, HeldLemma
    <3>3. CASE pc[t] = "gui" /\ mons = {}
      <4>1. held' = [held EXCEPT ![t] = held[t]]
        BY <2>4, <2>1, <3>3
      <4>2. held[t] \in SUBSET Monitors
        BY <2>1
      <4>3. HeldBy(t, pc'[t], held[t])
        BY <2>1, <3>1, <3>3 DEF HeldBy, HeldByListener, HeldByAger, HeldByUser
      <4>4. QED
        BY <1>5, <2>2, <4>1, <4>2, <4>3, HeldLemma
    <3>4. QED
      BY <2>4, <3>2, <3>3
  <2>5. QED
    BY <1>1, <2>3, <2>4
<1>11. QED
  BY <1>5, <1>6, <1>7, <1>8, <1>9, <1>10

\* A step of t's from one label to another that changes neither the list nor what
\* is selected, and leaves t in no monitor it was not in.
LEMMA GoOnLemma ==
  ASSUME IndInv, NEW t \in Threads, NEW label, Goto(t, label),
         UNCHANGED <<servers, button, selected, then>>,
         scan' = scan \/ (t = Listener /\ scan' = NoScan),
         shown' \in Devices \cup {None}, count' \in Bound,
         pc[t] # "connect", label # "connect",
         t = Listener => /\ label \in ListenerAt \ {"scan", "create", "add", "impossible"}
                         /\ \/ label \in {"receive", "dead"}
                            \/ at[Listener] \in Objects,
         t = Ager => label \in AgerAt,
         t = User => label \in UserAt,
         HeldOK'
  PROVE  IndInv'
<1> USE ThreadsLemma DEF IndInv
<1>1. /\ PcOK' /\ AtOK' /\ SenderOK'
      /\ pc'[t] = label
      /\ \A u \in Threads \ {t} : pc'[u] = pc[u] /\ at'[u] = at[u]
      /\ t # Listener => sender' = sender
  BY GotoLemma
<1>2. ThenOK'
  BY DEF ThenOK
<1>3. SelectionOK'
  <2>1. pc'[User] = "connect" <=> pc[User] = "connect"
    BY <1>1
  <2>2. QED
    BY <2>1 DEF SelectionOK
<1>4. PlacesOK'
  <2>1. 0 \in Bound
    BY FS_CardinalityType, ServersAssumption DEF Bound
  <2>2. QED
    BY <2>1 DEF PlacesOK, NoScan
<1>5. NotEntering
  BY <1>1 DEF NotEntering
<1>6. ListOK' /\ ScanMissesNobody' /\ NewIsNew'
  BY <1>5, SameList
<1>7. QED
  BY <1>1, <1>2, <1>3, <1>4, <1>6

\* linkServerList.remove() by any of the threads.
LEMMA RemoveServerStep ==
  ASSUME IndInv, NEW t \in Threads, NEW from \in {"remove", "drop"}, NEW labels,
         RemoveServer(t, from, labels),
         t = Listener => labels \subseteq {"receive"},
         t = Ager => labels \subseteq AfterSilence,
         t = User => labels \subseteq {"idle"}
  PROVE  IndInv'
<1> USE ThreadsLemma DEF IndInv
<1>1. pc[t] = from /\ UNCHANGED <<scan, count, button>>
  BY DEF RemoveServer, Ready
<1>2. held[t] = {}
  BY <1>1, NotInside
<1>3. t = Listener => at[Listener] \in Objects
  BY <1>1 DEF AtOK
<1>4. CASE Listed(at[t])
  <2> DEFINE o == at[t]
             new == Without(o)
  <2>1. servers' = new /\ Redraw(t, new, First(new), {List}, labels)
    BY <1>4 DEF RemoveServer
  <2>2. servers \in Seq(Objects) /\ UniqueIn(servers) /\ Contains(servers, o)
    BY <1>4, ListedLemma DEF ListOK
  <2>3. new \in Seq(Objects)
    BY <2>2, RemoveUnique DEF Without
  <2>4. First(new) \in Servers \cup {None}
    BY <2>3, FirstLemma
  <2> HIDE DEF new, o
  <2>5. {List} \in SUBSET {List} /\ labels \subseteq labels
    OBVIOUS
  <2>6. /\ PcOK' /\ ThenOK' /\ AtOK' /\ SenderOK' /\ SelectionOK' /\ PlacesOK' /\ HeldOK'
        /\ pc'[t] \notin {"scan", "create", "add", "impossible"}
        /\ \A u \in Threads \ {t} : pc'[u] = pc[u] /\ at'[u] = at[u]
        /\ t # Listener => sender' = sender
    BY <1>1, <1>2, <1>3, <2>1, <2>3, <2>4, <2>5, RedrawLemma DEF Handlers
  <2>7. NotEntering
    BY <2>6, <1>1 DEF NotEntering
  <2>8. ListOK' /\ ScanMissesNobody' /\ NewIsNew'
    BY <1>4, <2>1, <2>7, ShorterList DEF new, o
  <2>9. QED
    BY <2>6, <2>8
<1>5. CASE ~Listed(at[t])
  <2>1. /\ \E label \in labels : Goto(t, label)
        /\ UNCHANGED <<servers, then, held, window>>
    BY <1>5 DEF RemoveServer
  <2>2. PICK label \in labels : Goto(t, label)
    BY <2>1
  <2>3. /\ t = Listener => label = "receive"
        /\ t = Ager => label \in AgerAt
        /\ t = User => label \in UserAt
        /\ label # "connect"
    BY <2>2 DEF AgerAt, UserAt, AfterSilence
  <2>4. \A u \in Threads \ {t} : pc'[u] = pc[u]
    BY <2>2 DEF Goto, PcOK
  <2>5. HeldOK'
    BY <1>1, <1>2, <2>1, <2>4, SameHeld
  <2>6. shown' \in Devices \cup {None} /\ count' \in Bound /\ UNCHANGED selected
    BY <1>1, <2>1 DEF SelectionOK, PlacesOK, window
  <2>7. t = Listener => label \in ListenerAt \ {"scan", "create", "add", "impossible"}
    BY <2>3 DEF ListenerAt
  <2>8. QED
    BY <1>1, <2>1, <2>2, <2>3, <2>5, <2>6, <2>7, GoOnLemma
<1>6. QED
  BY <1>4, <1>5

\* deviceListItemListener.itemStateChanged() finds its device.
LEMMA ShowDeviceStep ==
  ASSUME IndInv, NEW t \in Threads, pc[t] \in Redrawing, ShowDevice(t),
         UNCHANGED <<servers, scan, count, button>>
  PROVE  IndInv'
<1> USE ThreadsLemma DEF IndInv
<1>1. /\ pc[t] \in {"gui", "again"} /\ shown' \in {NextShown, None}
      /\ then' = [then EXCEPT ![t] = {}] /\ held' = [held EXCEPT ![t] = {}]
      /\ UNCHANGED <<servers, scan, count, button, selected, watched>>
  BY DEF ShowDevice, Redrawing
<1>2. PICK label \in then[t] : Goto(t, label)
  BY DEF ShowDevice
<1>3. /\ t = Listener => /\ label \in ListenerAt \ {"scan", "create", "add", "impossible"}
                         /\ at[Listener] \in Objects
      /\ t = Ager => label \in AgerAt
      /\ t = User => label \in UserAt
      /\ label # "connect"
  BY <1>1, <1>2 DEF ThenOK, AtOK, ListenerAt, AgerAt, UserAt, Handlers, AfterSilence
<1>4. /\ PcOK' /\ AtOK' /\ SenderOK'
      /\ pc'[t] = label
      /\ \A u \in Threads \ {t} : pc'[u] = pc[u] /\ at'[u] = at[u]
      /\ t # Listener => sender' = sender
  BY <1>2, <1>3, GotoLemma
<1>5. ThenOK'
  BY <1>1 DEF ThenOK
<1>6. SelectionOK'
  <2>1. pc'[User] = "connect" <=> pc[User] = "connect"
    BY <1>1, <1>3, <1>4
  <2>2. shown' \in Devices \cup {None}
    BY <1>1, ShownLemma DEF ListOK
  <2>3. QED
    BY <1>1, <2>1, <2>2 DEF SelectionOK
<1>7. PlacesOK'
  BY <1>1 DEF PlacesOK
<1>8. HeldOK'
  <2>1. HeldBy(t, pc'[t], {}) /\ {} \in SUBSET Monitors
    BY DEF HeldBy, HeldByListener, HeldByAger, HeldByUser
  <2>2. QED
    BY <1>1, <1>4, <2>1, HeldLemma
<1>9. NotEntering
  BY <1>1, <1>3, <1>4 DEF NotEntering
<1>10. ListOK' /\ ScanMissesNobody' /\ NewIsNew'
  BY <1>1, <1>9, SameList
<1>11. QED
  BY <1>4, <1>5, <1>6, <1>7, <1>8, <1>10

\* It does, or begins over, or gets no further.
LEMMA RedrawDeviceStep ==
  ASSUME IndInv, NEW t \in Threads, RedrawDevice(t)
  PROVE  IndInv'
<1> USE ThreadsLemma DEF IndInv
<1>1. pc[t] \in Redrawing /\ UNCHANGED <<servers, scan, count, button>>
  BY DEF RedrawDevice
<1>2. \/ Overflow(t, servers)
      \/ pc[t] = "gui" /\ Redraw(t, servers, First(servers), {}, then[t])
      \/ ShowDevice(t)
  BY DEF RedrawDevice
<1>3. servers \in Seq(Objects) /\ First(servers) \in Servers \cup {None}
  BY FirstLemma DEF ListOK
<1>4. /\ t = Listener => then[t] \subseteq Handlers \cup {"receive"} /\ at[Listener] \in Objects
      /\ t = Ager => then[t] \subseteq AfterSilence
      /\ t = User => then[t] \subseteq {"idle"}
      /\ pc[t] # "connect"
  BY <1>1 DEF ThenOK, AtOK, Redrawing
<1>5. CASE Overflow(t, servers) \/ (pc[t] = "gui" /\ Redraw(t, servers, First(servers), {}, then[t]))
  <2>1. /\ PcOK' /\ ThenOK' /\ AtOK' /\ SenderOK' /\ SelectionOK' /\ PlacesOK' /\ HeldOK'
        /\ pc'[t] \notin {"scan", "create", "add", "impossible"}
        /\ \A u \in Threads \ {t} : pc'[u] = pc[u] /\ at'[u] = at[u]
        /\ t # Listener => sender' = sender
    BY <1>1, <1>3, <1>4, <1>5, RedrawLemma DEF Redrawing
  <2>2. NotEntering
    BY <1>1, <2>1 DEF NotEntering
  <2>3. ListOK' /\ ScanMissesNobody' /\ NewIsNew'
    BY <1>1, <2>2, SameList
  <2>4. QED
    BY <2>1, <2>3
<1>6. CASE ShowDevice(t)
  BY <1>1, <1>6, ShowDeviceStep
<1>7. QED
  BY <1>2, <1>5, <1>6

-----------------------------------------------------------------------------
(***************************************************************************)
(* ageThread.                                                              *)
(***************************************************************************)
\* Looking at the next server, starting again, and the end of a turn.
LEMMA LookPollStep == IndInv /\ (Look \/ Poll) => IndInv'
<1> SUFFICES ASSUME IndInv, Look \/ Poll PROVE IndInv'
  OBVIOUS
<1> USE ThreadsLemma DEF IndInv
<1>1. /\ pc[Ager] \in {"look", "poll"}
      /\ UNCHANGED <<servers, then, held, scan, button, selected, shown>>
  BY DEF Look, Poll, AgerOnly, Ready, window
<1>2. PICK label \in {"next", "look"} : Goto(Ager, label)
  BY DEF Look, Poll
<1>3. count' \in Bound
  <2>1. Cardinality(Servers) \in Nat
    BY FS_CardinalityType, ServersAssumption
  <2>2. count' \in {count, 0}
    BY DEF Look, Poll
  <2>3. QED
    BY <2>1, <2>2 DEF PlacesOK, Bound
<1>4. HeldOK'
  <2>1. held[Ager] = {}
    BY <1>1, NotInside
  <2>2. \A u \in Threads \ {Ager} : pc'[u] = pc[u]
    BY <1>2 DEF Goto, PcOK
  <2>3. QED
    BY <1>1, <2>1, <2>2, SameHeld
<1>5. shown' \in Devices \cup {None}
  BY <1>1 DEF SelectionOK
<1>6. label \in AgerAt /\ label # "connect"
  BY <1>2 DEF AgerAt
<1>7. QED
  BY <1>1, <1>2, <1>3, <1>4, <1>5, <1>6, GoOnLemma

\* nextElement()
LEMMA NextElementStep == IndInv /\ NextElement => IndInv'
<1> SUFFICES ASSUME IndInv, NextElement PROVE IndInv'
  OBVIOUS
<1> USE ThreadsLemma DEF IndInv
<1>1. /\ pc[Ager] = "next"
      /\ UNCHANGED <<servers, then, held, scan, button, selected, shown>>
  BY DEF NextElement, AgerOnly, window
<1>2. held[Ager] = {}
  BY <1>1, NotInside
<1>3. CASE count < Len(servers)
  <2>1. /\ count' = count + 1 /\ UNCHANGED sender
        /\ \E label \in {"remove"} \cup AfterSilence :
             /\ pc' = [pc EXCEPT ![Ager] = label]
             /\ at' = [at EXCEPT ![Ager] =
                          IF label \in {"remove", "poll"} THEN servers[count + 1] ELSE None]
    BY <1>3 DEF NextElement
  <2>2. PICK label \in {"remove"} \cup AfterSilence :
             /\ pc' = [pc EXCEPT ![Ager] = label]
             /\ at' = [at EXCEPT ![Ager] =
                          IF label \in {"remove", "poll"} THEN servers[count + 1] ELSE None]
    BY <2>1
  <2>3. Len(servers) \in Bound /\ Bound \subseteq Int
    BY LengthLemma DEF ListOK, Bound
  <2>4. count \in Nat /\ count + 1 \in Bound
    <3>1. Cardinality(Servers) \in Nat
      BY FS_CardinalityType, ServersAssumption
    <3>2. QED
      BY <3>1, <2>3, <1>3 DEF PlacesOK, Bound
  <2>5. servers[count + 1] \in Objects
    <3>1. servers \in Seq(Objects) /\ Len(servers) \in Nat
      BY DEF ListOK
    <3>2. count + 1 \in 1 .. Len(servers)
      BY <3>1, <2>4, <1>3
    <3>3. QED
      BY <3>1, <3>2
  <2>6. /\ label \in AgerAt /\ label \in Labels
    BY <2>2 DEF AfterSilence, AgerAt, Labels
  <2>7. /\ pc' \in [Threads -> Labels] /\ pc'[Ager] = label
        /\ pc'[Listener] = pc[Listener] /\ pc'[User] = pc[User]
        /\ at' \in [Threads -> Objects \cup {None}]
        /\ at'[Listener] = at[Listener]
    BY <2>2, <2>5, <2>6 DEF PcOK, AtOK
  <2>8. PcOK' /\ AtOK' /\ SenderOK'
    BY <2>1, <2>6, <2>7 DEF PcOK, AtOK, SenderOK
  <2>9. ThenOK' /\ SelectionOK' /\ PlacesOK'
    BY <1>1, <2>1, <2>4, <2>7 DEF ThenOK, SelectionOK, PlacesOK
  <2>10. NotEntering
    BY <1>1, <2>1, <2>7 DEF NotEntering
  <2>11. ListOK' /\ ScanMissesNobody' /\ NewIsNew'
    BY <1>1, <2>10, SameList
  <2>12. HeldOK'
    BY <1>1, <1>2, <2>7, SameHeld
  <2>13. QED
    BY <2>8, <2>9, <2>11, <2>12
<1>4. CASE ~(count < Len(servers))
  <2>1. Goto(Ager, "dead") /\ count' = count
    BY <1>4 DEF NextElement
  <2>2. \A u \in Threads \ {Ager} : pc'[u] = pc[u]
    BY <2>1 DEF Goto, PcOK
  <2>3. HeldOK'
    BY <1>1, <1>2, <2>2, SameHeld
  <2>4. shown' \in Devices \cup {None} /\ count' \in Bound
    BY <1>1, <2>1 DEF SelectionOK, PlacesOK
  <2>5. "dead" \in AgerAt
    BY DEF AgerAt
  <2>6. QED
    BY <1>1, <2>1, <2>3, <2>4, <2>5, GoOnLemma
<1>5. QED
  BY <1>3, <1>4

\* Whatever ageThread does (ageThread.java) keeps the list, the monitors and the places.
LEMMA AgerIndInv == IndInv /\ AgerStep => IndInv'
<1> SUFFICES ASSUME IndInv, AgerStep PROVE IndInv'
  OBVIOUS
<1>1. CASE Look \/ Poll
  BY <1>1, LookPollStep
<1>2. CASE NextElement
  BY <1>2, NextElementStep
<1>3. CASE AgerRemove
  BY <1>3, RemoveServerStep, ThreadsLemma DEF AgerRemove
<1>4. CASE RedrawDevice(Ager)
  BY <1>4, RedrawDeviceStep, ThreadsLemma
<1>5. QED
  BY <1>1, <1>2, <1>3, <1>4 DEF AgerStep

-----------------------------------------------------------------------------
(***************************************************************************)
(* The event thread.                                                       *)
(***************************************************************************)
\* The user selects a server.
LEMMA SelectStep ==
  ASSUME IndInv, NEW s \in Servers, Select(s)
  PROVE  IndInv'
<1> USE ThreadsLemma DEF IndInv
<1>1. /\ pc[User] = "idle" /\ UNCHANGED <<servers, scan, count, button>>
      /\ \E sel \in {s, First(servers)} : Redraw(User, servers, sel, {}, {"idle"})
  BY DEF Select
<1>2. held[User] = {}
  BY <1>1, NotInside
<1>3. servers \in Seq(Objects)
  BY DEF ListOK
<1>4. /\ PcOK' /\ ThenOK' /\ AtOK' /\ SenderOK' /\ SelectionOK' /\ PlacesOK' /\ HeldOK'
      /\ pc'[Listener] = pc[Listener] /\ at'[Listener] = at[Listener]
      /\ sender' = sender
  <2>1. PICK sel \in {s, First(servers)} : Redraw(User, servers, sel, {}, {"idle"})
    BY <1>1
  <2>2. /\ {} \in SUBSET {List} /\ {"idle"} \subseteq {"idle"}
        /\ sel \in Servers \cup {None}
    BY <1>3, FirstLemma
  <2>3. QED
    BY <1>1, <1>2, <1>3, <2>1, <2>2, RedrawLemma
<1>5. NotEntering
  BY <1>1, <1>4 DEF NotEntering
<1>6. ListOK' /\ ScanMissesNobody' /\ NewIsNew'
  BY <1>1, <1>5, SameList
<1>7. QED
  BY <1>4, <1>6

\* Connect() or Disconnect() enters the device's monitor.
LEMMA PressDeviceStep ==
  ASSUME IndInv, pc[User] = "idle", NextShown # None, button' = NextShown,
         held' = [held EXCEPT ![User] = {Device(NextShown)}],
         Goto(User, "connect"),
         UNCHANGED <<servers, then, scan, count, selected, shown>>
  PROVE  IndInv'
<1> USE ThreadsLemma DEF IndInv
<1>1. /\ pc[User] = "idle" /\ NextShown # None /\ button' = NextShown
      /\ held' = [held EXCEPT ![User] = {Device(NextShown)}]
      /\ Goto(User, "connect")
      /\ UNCHANGED <<servers, then, scan, count, selected, shown>>
  OBVIOUS
<1>2. NextShown \in Devices
  BY <1>1, ShownLemma DEF ListOK
<1>3. /\ PcOK' /\ AtOK' /\ SenderOK'
      /\ pc'[User] = "connect"
      /\ \A u \in Threads \ {User} : pc'[u] = pc[u] /\ at'[u] = at[u]
      /\ sender' = sender
  <2>1. "connect" \in UserAt
    BY DEF UserAt
  <2>2. QED
    BY <1>1, <2>1, GotoLemma
<1>4. ThenOK' /\ SelectionOK' /\ PlacesOK'
  BY <1>1, <1>2, <1>3 DEF ThenOK, SelectionOK, PlacesOK
<1>5. HeldOK'
  <2> DEFINE mons == {Device(NextShown)}
  <2>1. mons \subseteq DeviceMonitors
    BY <1>2 DEF DeviceMonitors
  <2>2. held' = [held EXCEPT ![User] = mons] /\ mons \subseteq {Device(button')}
    BY <1>1
  <2> HIDE DEF mons
  <2>3. mons \in SUBSET Monitors
    BY <2>1 DEF Monitors
  <2>4. HeldBy(User, pc'[User], mons)
    BY <1>3, <2>1 DEF HeldBy, HeldByUser
  <2>5. QED
    BY <1>3, <2>2, <2>3, <2>4, HeldLemma
<1>6. NotEntering
  BY <1>1, <1>3 DEF NotEntering
<1>7. ListOK' /\ ScanMissesNobody' /\ NewIsNew'
  BY <1>1, <1>6, SameList
<1>8. QED
  BY <1>3, <1>4, <1>5, <1>7

\* Or the device has gone, and the window is redrawn.
LEMMA PressStep == IndInv /\ Press => IndInv'
<1> SUFFICES ASSUME IndInv, Press PROVE IndInv'
  OBVIOUS
<1> USE ThreadsLemma DEF IndInv
<1>1. /\ pc[User] = "idle" /\ UNCHANGED <<servers, scan, count>>
      /\ \/ /\ NextShown # None
            /\ button' = NextShown
            /\ held' = [held EXCEPT ![User] = {Device(NextShown)}]
            /\ Goto(User, "connect")
            /\ UNCHANGED <<then, selected, shown>>
         \/ /\ Redraw(User, servers, First(servers), {}, {"idle"})
            /\ UNCHANGED button
  BY DEF Press, window
<1>2. CASE /\ NextShown # None
           /\ button' = NextShown
           /\ held' = [held EXCEPT ![User] = {Device(NextShown)}]
           /\ Goto(User, "connect")
           /\ UNCHANGED <<then, selected, shown>>
  BY <1>1, <1>2, PressDeviceStep
<1>3. CASE Redraw(User, servers, First(servers), {}, {"idle"}) /\ UNCHANGED button
  <2>1. servers \in Seq(Objects) /\ First(servers) \in Servers \cup {None}
    BY FirstLemma DEF ListOK
  <2>2. held[User] = {} /\ {} \in SUBSET {List} /\ {"idle"} \subseteq {"idle"}
    BY <1>1, NotInside
  <2>3. /\ PcOK' /\ ThenOK' /\ AtOK' /\ SenderOK' /\ SelectionOK' /\ PlacesOK' /\ HeldOK'
        /\ pc'[Listener] = pc[Listener] /\ at'[Listener] = at[Listener]
        /\ sender' = sender
    BY <1>1, <1>3, <2>1, <2>2, RedrawLemma
  <2>4. NotEntering
    BY <1>1, <2>3 DEF NotEntering
  <2>5. ListOK' /\ ScanMissesNobody' /\ NewIsNew'
    BY <1>1, <2>4, SameList
  <2>6. QED
    BY <2>3, <2>5
<1>4. QED
  BY <1>1, <1>2, <1>3

\* It is answered, or not, and leaves it.
LEMMA ConnectStep == IndInv /\ Connect => IndInv'
<1> SUFFICES ASSUME IndInv, Connect PROVE IndInv'
  OBVIOUS
<1> USE ThreadsLemma DEF IndInv
<1>1. /\ pc[User] = "connect" /\ button' = None
      /\ held' = [held EXCEPT ![User] = {}]
      /\ shown' = Observed(servers, None)
      /\ UNCHANGED <<servers, then, scan, count, selected>>
  BY DEF Connect, Ready
<1>2. /\ PcOK' /\ AtOK' /\ SenderOK'
      /\ pc'[User] \in {"idle", "remove"}
      /\ \A u \in Threads \ {User} : pc'[u] = pc[u] /\ at'[u] = at[u]
      /\ sender' = sender
  <2>1. CASE Goto(User, "idle")
    <3>1. "idle" \in UserAt
      BY DEF UserAt
    <3>2. QED
      BY <2>1, <3>1, GotoLemma
  <2>2. CASE /\ LookUp(selected) # None
             /\ at' = [at EXCEPT ![User] = LookUp(selected)]
             /\ pc' = [pc EXCEPT ![User] = "remove"]
             /\ UNCHANGED sender
    <3>1. LookUp(selected) \in Objects
      BY <2>2, ListedLemma DEF ListOK
    <3>2. "remove" \in UserAt /\ "remove" \in Labels
      BY DEF UserAt, Labels
    <3>3. /\ pc' \in [Threads -> Labels] /\ pc'[User] = "remove"
          /\ at' \in [Threads -> Objects \cup {None}]
          /\ \A u \in Threads \ {User} : pc'[u] = pc[u] /\ at'[u] = at[u]
      BY <2>2, <3>1, <3>2 DEF PcOK, AtOK
    <3>4. PcOK' /\ AtOK' /\ SenderOK'
      BY <2>2, <3>2, <3>3 DEF PcOK, AtOK, SenderOK
    <3>5. QED
      BY <2>2, <3>3, <3>4
  <2>3. QED
    BY <2>1, <2>2 DEF Connect
<1>3. ThenOK' /\ SelectionOK' /\ PlacesOK'
  BY <1>1, <1>2 DEF ThenOK, SelectionOK, PlacesOK, Observed
<1>4. HeldOK'
  <2>1. HeldBy(User, pc'[User], {}) /\ {} \in SUBSET Monitors
    BY DEF HeldBy, HeldByUser
  <2>2. QED
    BY <1>1, <1>2, <2>1, HeldLemma
<1>5. NotEntering
  BY <1>1, <1>2 DEF NotEntering
<1>6. ListOK' /\ ScanMissesNobody' /\ NewIsNew'
  BY <1>1, <1>5, SameList
<1>7. QED
  BY <1>2, <1>3, <1>4, <1>6

\* Whatever the user does with the window (linkControl.java) keeps the list, the monitors
\* and the places.
LEMMA UserIndInv == IndInv /\ UserStep => IndInv'
<1> SUFFICES ASSUME IndInv, UserStep PROVE IndInv'
  OBVIOUS
<1>1. CASE Connect
  BY <1>1, ConnectStep
<1>2. CASE UserRemove
  BY <1>2, RemoveServerStep, ThreadsLemma DEF UserRemove
<1>3. CASE RedrawDevice(User)
  BY <1>3, RedrawDeviceStep, ThreadsLemma
<1>4. QED
  BY <1>1, <1>2, <1>3 DEF UserStep

-----------------------------------------------------------------------------
(***************************************************************************)
(* multicastThread.                                                        *)
(***************************************************************************)
\* receive(): the scan has seen nobody yet.
LEMMA ReceiveStep ==
  ASSUME IndInv, NEW s \in Servers, Receive(s)
  PROVE  IndInv'
<1> USE ThreadsLemma DEF IndInv
<1>1. /\ pc[Listener] = "receive" /\ sender' = s
      /\ scan' = [index |-> 1, size |-> Len(servers)]
      /\ pc' = [pc EXCEPT ![Listener] = "scan"]
      /\ UNCHANGED <<at, held, servers, then, count, button, selected, shown>>
  BY DEF Receive, ListenerOnly, window
<1>2. "scan" \in ListenerAt /\ "scan" \in Labels
  BY DEF ListenerAt, Labels
<1>3. /\ pc' \in [Threads -> Labels] /\ pc'[Listener] = "scan"
      /\ \A u \in Threads \ {Listener} : pc'[u] = pc[u]
  BY <1>1, <1>2 DEF PcOK
<1>4. PcOK' /\ AtOK' /\ SenderOK'
  BY <1>1, <1>2, <1>3 DEF PcOK, AtOK, SenderOK
<1>5. servers \in Seq(Objects) /\ Len(servers) \in Nat /\ Len(servers) \in Bound
      /\ DOMAIN servers = 1 .. Len(servers)
  BY LengthLemma DEF ListOK
<1>6. ThenOK' /\ SelectionOK' /\ PlacesOK' /\ ListOK'
  BY <1>1, <1>3, <1>5 DEF ThenOK, SelectionOK, PlacesOK, ListOK
<1>7. ScanMissesNobody'
  BY <1>1, <1>5 DEF ScanMissesNobody
<1>8. NewIsNew'
  BY <1>3 DEF NewIsNew
<1>9. HeldOK'
  <2>1. held[Listener] = {}
    BY <1>1, NotInside
  <2>2. QED
    BY <1>1, <1>3, <2>1, SameHeld
<1>10. QED
  BY <1>4, <1>6, <1>7, <1>8, <1>9

\* The sender has not been found, and is not there: had a server been removed while
\* it was searched for, the search would have failed.
LEMMA ScanMissesStep == IndInv /\ ScanMisses => IndInv'
<1> SUFFICES ASSUME IndInv, ScanMisses PROVE IndInv'
  OBVIOUS
<1> USE ThreadsLemma DEF IndInv
<1>1. /\ pc[Listener] = "scan" /\ scan.index > scan.size
      /\ Goto(Listener, "create") /\ scan' = NoScan
      /\ UNCHANGED <<held, servers, then, count, button, selected, shown>>
  BY DEF ScanMisses, ScanEnds, ListenerOnly, window
<1>2. "create" \in ListenerAt /\ "create" \in Labels
  BY DEF ListenerAt, Labels
<1>3. /\ pc' \in [Threads -> Labels] /\ pc'[Listener] = "create"
      /\ \A u \in Threads \ {Listener} : pc'[u] = pc[u]
      /\ at' = at /\ sender' = sender
  BY <1>1, <1>2 DEF PcOK, Goto, Resting
<1>4. PcOK' /\ AtOK' /\ SenderOK'
  BY <1>1, <1>2, <1>3 DEF PcOK, AtOK, SenderOK
<1>5. 0 \in Bound
  BY FS_CardinalityType, ServersAssumption DEF Bound
<1>6. ThenOK' /\ SelectionOK' /\ PlacesOK' /\ ListOK'
  BY <1>1, <1>3, <1>5 DEF ThenOK, SelectionOK, PlacesOK, ListOK, NoScan
<1>7. ScanMissesNobody'
  BY <1>3 DEF ScanMissesNobody
<1>8. Unlisted(sender)
  <2>1. /\ scan.index \in Nat /\ scan.size \in Nat
        /\ Len(servers) <= scan.size
        /\ \A i \in DOMAIN servers : i < scan.index => AddressOf(servers[i]) # sender
    BY <1>1 DEF ScanMissesNobody
  <2>2. servers \in Seq(Objects) /\ DOMAIN servers = 1 .. Len(servers) /\ Len(servers) \in Nat
    BY DEF ListOK
  <2>3. \A i \in DOMAIN servers : i < scan.index
    BY <1>1, <2>1, <2>2
  <2>4. QED
    BY <2>1, <2>3 DEF Unlisted
<1>9. NewIsNew'
  BY <1>1, <1>3, <1>8 DEF NewIsNew, Unlisted
<1>10. HeldOK'
  <2>1. held[Listener] = {}
    BY <1>1, NotInside
  <2>2. QED
    BY <1>1, <1>3, <2>1, SameHeld
<1>11. QED
  BY <1>4, <1>6, <1>7, <1>9, <1>10

\* The search looks at a server, and has found the sender or passes it.
LEMMA ScanLooksStep == IndInv /\ ScanLooks => IndInv'
<1> SUFFICES ASSUME IndInv, ScanLooks PROVE IndInv'
  OBVIOUS
<1> USE ThreadsLemma DEF IndInv
<1>1. /\ pc[Listener] = "scan"
      /\ scan.index <= scan.size /\ scan.index <= Len(servers)
      /\ UNCHANGED <<held, servers, then, count, button, selected, shown>>
  BY DEF ScanLooks, ListenerOnly, window
<1>2. /\ scan \in [index : Nat, size : Nat]
      /\ 1 <= scan.index /\ Len(servers) <= scan.size
      /\ \/ \A i \in DOMAIN servers : i < scan.index => AddressOf(servers[i]) # sender
         \/ scan.index <= scan.size /\ Len(servers) < scan.size
  BY <1>1 DEF ScanMissesNobody
<1>3. servers \in Seq(Objects) /\ DOMAIN servers = 1 .. Len(servers) /\ Len(servers) \in Nat
  BY DEF ListOK
<1> DEFINE o == servers[scan.index]
<1>4. o \in Objects
  BY <1>1, <1>2, <1>3
<1>5. held[Listener] = {}
  BY <1>1, NotInside
<1>6. CASE AddressOf(o) = sender
  <2>1. /\ \E label \in Handlers :
             /\ pc' = [pc EXCEPT ![Listener] = label]
             /\ at' = [at EXCEPT ![Listener] = IF label \in Resting THEN None ELSE o]
        /\ sender' = None /\ scan' = NoScan
    BY <1>6 DEF ScanLooks
  <2>2. PICK label \in Handlers :
             /\ pc' = [pc EXCEPT ![Listener] = label]
             /\ at' = [at EXCEPT ![Listener] = IF label \in Resting THEN None ELSE o]
    BY <2>1
  <2>3. /\ label \in ListenerAt /\ label \in Labels
        /\ label \in {"init", "remove", "status", "dead"}
    BY <2>2 DEF Handlers, ListenerAt, Labels
  <2>4. /\ pc' \in [Threads -> Labels] /\ pc'[Listener] = label
        /\ \A u \in Threads \ {Listener} : pc'[u] = pc[u]
        /\ at' \in [Threads -> Objects \cup {None}]
        /\ label # "dead" => at'[Listener] = o
    BY <1>4, <2>2, <2>3 DEF PcOK, AtOK, Resting
  <2>5. PcOK' /\ AtOK' /\ SenderOK'
    BY <1>4, <2>1, <2>3, <2>4 DEF PcOK, AtOK, SenderOK
  <2>6. 0 \in Bound
    BY FS_CardinalityType, ServersAssumption DEF Bound
  <2>7. ThenOK' /\ SelectionOK' /\ PlacesOK'
    BY <1>1, <2>1, <2>4, <2>6 DEF ThenOK, SelectionOK, PlacesOK, NoScan
  <2>8. NotEntering
    BY <2>3, <2>4 DEF NotEntering
  <2>9. ListOK' /\ ScanMissesNobody' /\ NewIsNew'
    BY <1>1, <2>8, SameList
  <2>10. HeldOK'
    BY <1>1, <1>5, <2>4, SameHeld
  <2>11. QED
    BY <2>5, <2>7, <2>9, <2>10
<1>7. CASE AddressOf(o) # sender
  <2>1. /\ scan' = [scan EXCEPT !.index = @ + 1]
        /\ UNCHANGED <<at, pc, sender>>
    BY <1>7 DEF ScanLooks
  <2>2. /\ scan' \in [index : Nat, size : Nat]
        /\ scan'.index = scan.index + 1 /\ scan'.size = scan.size
    BY <1>2, <2>1
  <2>3. PcOK' /\ AtOK' /\ SenderOK' /\ ThenOK' /\ SelectionOK' /\ PlacesOK' /\ ListOK'
    BY <1>1, <2>1, <2>2 DEF PcOK, AtOK, SenderOK, ThenOK, SelectionOK, PlacesOK, ListOK
  <2>4. NewIsNew'
    BY <1>1, <2>1 DEF NewIsNew
  <2>5. HeldOK'
    BY <1>1, <1>5, <2>1, SameHeld
  <2>6. scan.index \in Nat /\ scan.size \in Nat
    BY <1>2
  <2>7. \/ \A i \in DOMAIN servers : i < scan.index + 1 => AddressOf(servers[i]) # sender
        \/ scan.index + 1 <= scan.size /\ Len(servers) < scan.size
    <3>1. CASE \A i \in DOMAIN servers : i < scan.index => AddressOf(servers[i]) # sender
      <4>1. \A i \in DOMAIN servers : i < scan.index + 1 => i < scan.index \/ i = scan.index
        BY <1>3, <2>6
      <4>2. QED
        BY <3>1, <4>1, <1>7
    <3>2. CASE Len(servers) < scan.size
      BY <3>2, <1>1, <1>3, <2>6
    <3>3. QED
      BY <3>1, <3>2, <1>2
  <2>8. ScanMissesNobody'
    <3>1. 1 <= scan.index + 1 /\ scan.index + 1 <= scan.size + 1
      BY <1>1, <2>6
    <3>2. QED
      BY <1>1, <1>2, <2>1, <2>2, <2>7, <3>1 DEF ScanMissesNobody
  <2>9. QED
    BY <2>3, <2>4, <2>5, <2>8
<1>8. QED
  BY <1>6, <1>7

\* The search fails, because the list has become shorter.
LEMMA ScanFailsStep == IndInv /\ ScanFails => IndInv'
<1> SUFFICES ASSUME IndInv, ScanFails PROVE IndInv'
  OBVIOUS
<1> USE ThreadsLemma DEF IndInv
<1>1. /\ pc[Listener] = "scan" /\ Goto(Listener, "dead") /\ scan' = NoScan
      /\ UNCHANGED <<held, servers, then, count, button, selected, shown>>
  BY DEF ScanFails, ScanEnds, ListenerOnly, window
<1>2. HeldOK'
  <2>1. held[Listener] = {}
    BY <1>1, NotInside
  <2>2. \A u \in Threads \ {Listener} : pc'[u] = pc[u]
    BY <1>1 DEF Goto, PcOK
  <2>3. QED
    BY <1>1, <2>1, <2>2, SameHeld
<1>3. shown' \in Devices \cup {None} /\ count' \in Bound
  BY <1>1 DEF SelectionOK, PlacesOK
<1>4. "dead" \in ListenerAt \ {"scan", "create", "add", "impossible"}
  BY DEF ListenerAt
<1>5. QED
  BY <1>1, <1>2, <1>3, <1>4, GoOnLemma

\* There is always an object for a new server: five are enough.
LEMMA NewObjectLemma ==
  ASSUME IndInv, NEW s \in Servers, Unlisted(s), at[Listener] = None
  PROVE  NewObject(s) \in Objects /\ AddressOf(NewObject(s)) = s
<1> DEFINE free == {o \in Objects : o \notin InUse /\ AddressOf(o) = s}
           others == {at[Ager], at[User], ServerOf(shown), ServerOf(button)}
<1>1. \A n \in 0 .. 4 : <<s, n>> \in Objects /\ AddressOf(<<s, n>>) = s
  BY DEF Objects, AddressOf
<1>2. ASSUME NEW n \in 0 .. 4, <<s, n>> \in InUse
      PROVE  <<s, n>> \in others
  <2>1. <<s, n>> \notin ToSet(servers)
    BY <1>1 DEF Unlisted, ToSet
  <2>2. <<s, n>> # None
    BY <1>1, NoneAssumption
  <2>3. \A t \in Threads : at[t] \in {None, at[Ager], at[User]}
    BY ThreadsLemma
  <2>4. QED
    BY <1>2, <2>1, <2>2, <2>3 DEF InUse
<1>3. free # {}
  <2> SUFFICES ASSUME free = {} PROVE FALSE
    OBVIOUS
  <2>1. \A n \in 0 .. 4 : <<s, n>> \in others
    BY <1>1, <1>2
  <2>2. \A n \in 0 .. 4 : n \in {at[Ager][2], at[User][2], ServerOf(shown)[2], ServerOf(button)[2]}
    <3> SUFFICES ASSUME NEW n \in 0 .. 4
                 PROVE  n \in {at[Ager][2], at[User][2], ServerOf(shown)[2], ServerOf(button)[2]}
      OBVIOUS
    <3>1. <<s, n>>[2] = n
      OBVIOUS
    <3>2. QED
      BY <2>1, <3>1
  <2>3. 0 \in 0 .. 4 /\ 1 \in 0 .. 4 /\ 2 \in 0 .. 4 /\ 3 \in 0 .. 4 /\ 4 \in 0 .. 4
    OBVIOUS
  <2>4. QED
    BY <2>2, <2>3
<1>4. NewObject(s) = CHOOSE o \in Objects \ InUse : AddressOf(o) = s
  BY DEF NewObject
<1>5. QED
  BY <1>3, <1>4

\* new linkServer()
LEMMA CreateStep == IndInv /\ Create => IndInv'
<1> SUFFICES ASSUME IndInv, Create PROVE IndInv'
  OBVIOUS
<1> USE ThreadsLemma DEF IndInv
<1> DEFINE o == NewObject(sender)
<1>1. /\ pc[Listener] = "create"
      /\ UNCHANGED <<held, scan, servers, then, count, button, selected, shown>>
  BY DEF Create, ListenerOnly, window
<1>2. sender \in Servers /\ Unlisted(sender) /\ at[Listener] = None
  BY <1>1 DEF SenderOK, NewIsNew, AtOK
<1>3. o \in Objects /\ AddressOf(o) = sender
  BY <1>2, NewObjectLemma
<1>4. held[Listener] = {}
  BY <1>1, NotInside
<1> HIDE DEF o
<1>5. CASE /\ at' = [at EXCEPT ![Listener] = o]
           /\ pc' = [pc EXCEPT ![Listener] = "add"]
           /\ sender' = None
  <2>1. "add" \in ListenerAt /\ "add" \in Labels
    BY DEF ListenerAt, Labels
  <2>2. /\ pc' \in [Threads -> Labels] /\ pc'[Listener] = "add"
        /\ \A u \in Threads \ {Listener} : pc'[u] = pc[u]
        /\ at' \in [Threads -> Objects \cup {None}] /\ at'[Listener] = o
    BY <1>3, <1>5, <2>1 DEF PcOK, AtOK
  <2>3. PcOK' /\ AtOK' /\ SenderOK'
    BY <1>3, <1>5, <2>1, <2>2 DEF PcOK, AtOK, SenderOK
  <2>4. ThenOK' /\ SelectionOK' /\ PlacesOK' /\ ListOK'
    BY <1>1, <2>2 DEF ThenOK, SelectionOK, PlacesOK, ListOK
  <2>5. ScanMissesNobody'
    BY <2>2 DEF ScanMissesNobody
  <2>6. NewIsNew'
    BY <1>1, <1>2, <1>3, <2>2 DEF NewIsNew, Unlisted
  <2>7. HeldOK'
    BY <1>1, <1>4, <2>2, SameHeld
  <2>8. QED
    BY <2>3, <2>4, <2>5, <2>6, <2>7
<1>6. CASE \E label \in {"receive", "dead"} : Goto(Listener, label)
  <2> PICK label \in {"receive", "dead"} : Goto(Listener, label)
    BY <1>6
  <2>1. \A u \in Threads \ {Listener} : pc'[u] = pc[u]
    BY DEF Goto, PcOK
  <2>2. HeldOK'
    BY <1>1, <1>4, <2>1, SameHeld
  <2>3. shown' \in Devices \cup {None} /\ count' \in Bound
    BY <1>1 DEF SelectionOK, PlacesOK
  <2>4. label \in ListenerAt \ {"scan", "create", "add", "impossible"} /\ label # "connect"
    BY DEF ListenerAt
  <2>5. QED
    BY <1>1, <2>2, <2>3, <2>4, GoOnLemma
<1>7. QED
  BY <1>5, <1>6 DEF Create, o

\* linkServerList.add(): the server is not on the list.
LEMMA AddStep == IndInv /\ Add => IndInv'
<1> SUFFICES ASSUME IndInv, Add PROVE IndInv'
  OBVIOUS
<1> USE ThreadsLemma DEF IndInv
<1> DEFINE o == at[Listener]
           new == Append(servers, o)
<1>1. pc[Listener] = "add" /\ UNCHANGED <<scan, count, button>>
  BY DEF Add, Ready
<1>2. o \in Objects /\ Unlisted(AddressOf(o))
  BY <1>1 DEF AtOK, NewIsNew
<1>3. servers \in Seq(Objects) /\ UniqueIn(servers)
  BY DEF ListOK
<1>4. WithAddress(AddressOf(o)) = {}
  BY <1>2, <1>3, ListedLemma
<1>5. servers' = new /\ Redraw(Listener, new, First(new), {List}, Handlers)
  BY <1>4 DEF Add
<1>6. new \in Seq(Objects) /\ UniqueIn(new)
  BY <1>2, <1>3, AppendUnique DEF Unlisted
<1> HIDE DEF new
<1>7. First(new) \in Servers \cup {None}
  BY <1>6, FirstLemma
<1>8. /\ PcOK' /\ ThenOK' /\ AtOK' /\ SenderOK' /\ SelectionOK' /\ PlacesOK' /\ HeldOK'
      /\ pc'[Listener] \notin {"scan", "create", "add", "impossible"}
  <2>1. held[Listener] = {}
    BY <1>1, NotInside
  <2>2. {List} \in SUBSET {List} /\ Handlers \subseteq Handlers \cup {"receive"}
    OBVIOUS
  <2>3. QED
    BY <1>1, <1>2, <1>5, <1>6, <1>7, <2>1, <2>2, RedrawLemma
<1>9. ListOK' /\ ScanMissesNobody' /\ NewIsNew'
  BY <1>5, <1>6, <1>8 DEF ListOK, UniqueIn, ScanMissesNobody, NewIsNew
<1>10. QED
  BY <1>8, <1>9

\* No two monitors of different kinds are the same.
LEMMA MonitorsLemma ==
  /\ List \notin ServerMonitors /\ List \notin DeviceMonitors
  /\ ServerMonitors \cap DeviceMonitors = {}
<1>1. \A o : Server(o) # List
  <2>1. \A o : Server(o)[1] = "server" /\ List[1] = "list"
    BY DEF Server, List
  <2>2. QED
    BY <2>1
<1>2. \A d : Device(d) # List
  <2>1. \A d : Device(d)[1] = "device" /\ List[1] = "list"
    BY DEF Device, List
  <2>2. QED
    BY <2>1
<1>3. \A o, d : Server(o) # Device(d)
  <2>1. \A o, d : Server(o)[1] = "server" /\ Device(d)[1] = "device"
    BY DEF Server, Device
  <2>2. QED
    BY <2>1
<1>4. QED
  BY <1>1, <1>2, <1>3 DEF ServerMonitors, DeviceMonitors

\* reInit() starts a new device list, inside the server's monitor; the button's
\* device is then one of an earlier list.
LEMMA ReInitStep == IndInv /\ ReInit => IndInv'
<1> SUFFICES ASSUME IndInv, ReInit PROVE IndInv'
  OBVIOUS
<1> USE ThreadsLemma DEF IndInv
<1> DEFINE o == at[Listener]
           Earlier(d) == IF d # Present(o) THEN d
                         ELSE IF d = button THEN <<o, "earlier">> ELSE None
           mine == {Server(o)}
           users == {Device(Earlier(d)) : d \in {button} \ {None}}
                    \cup (held[User] \cap {List})
<1>1. /\ pc[Listener] = "init"
      /\ button' = Earlier(button) /\ shown' = Earlier(shown)
      /\ Goto(Listener, "answer")
      /\ UNCHANGED <<servers, then, scan, count, selected>>
  BY DEF ReInit, Ready
<1>2. held' = [held EXCEPT ![Listener] = mine, ![User] = users]
  BY DEF ReInit
<1>3. o \in Objects
  BY <1>1 DEF AtOK
<1>4. /\ <<o, "earlier">> \in Devices /\ <<o, "earlier">> # None
      /\ Present(o) # None
  <2>1. <<o, "earlier">> \in Devices /\ Present(o) \in Devices
    BY <1>3 DEF Devices, Present
  <2>2. QED
    BY <2>1, NoneAssumption
<1>5. /\ Earlier(button) \in Devices \cup {None} /\ Earlier(shown) \in Devices \cup {None}
      /\ button # None => Earlier(button) \in Devices
      /\ button = None => Earlier(button) = None
  BY <1>4 DEF SelectionOK
<1>6. Earlier(button) # None <=> button # None
  BY <1>5, NoneAssumption
<1>7. mine \subseteq ServerMonitors
  BY <1>3 DEF ServerMonitors
<1>8. /\ button = None => users = held[User] \cap {List}
      /\ button # None => users = {Device(Earlier(button))} \cup (held[User] \cap {List})
  OBVIOUS
<1>9. button # None => Device(Earlier(button)) \in DeviceMonitors
  BY <1>5 DEF DeviceMonitors
<1> HIDE DEF Earlier, mine, users, o
<1>10. /\ PcOK' /\ AtOK' /\ SenderOK'
       /\ pc'[Listener] = "answer"
       /\ \A u \in Threads \ {Listener} : pc'[u] = pc[u] /\ at'[u] = at[u]
  <2>1. "answer" \in ListenerAt \ {"scan", "create"}
    BY DEF ListenerAt
  <2>2. QED
    BY <1>1, <1>3, <2>1, GotoLemma DEF o
<1>11. ThenOK' /\ PlacesOK'
  BY <1>1 DEF ThenOK, PlacesOK
<1>12. SelectionOK'
  BY <1>1, <1>5, <1>6, <1>10 DEF SelectionOK
<1>13. HeldOK'
  <2>1. held \in [Threads -> SUBSET Monitors] /\ \A u \in Threads : HeldBy(u, pc[u], held[u])
    BY DEF HeldOK
  <2>2. held[User] \in SUBSET Monitors /\ HeldByUser(pc[User], held[User])
    BY <2>1 DEF HeldBy
  <2>3. HeldByUser(pc[User], users)
    <3>1. CASE button = None
      <4>1. users = held[User] \cap {List}
        BY <3>1, <1>8
      <4>2. pc[User] # "connect"
        BY <3>1 DEF SelectionOK
      <4>3. QED
        BY <2>2, <4>1, <4>2 DEF HeldByUser
    <3>2. CASE button # None
      <4>1. pc[User] = "connect"
        BY <3>2 DEF SelectionOK
      <4>2. held[User] \cap {List} = {}
        BY <2>2, <4>1, MonitorsLemma DEF HeldByUser
      <4>3. users \subseteq DeviceMonitors
        BY <3>2, <4>2, <1>8, <1>9
      <4>4. QED
        BY <4>1, <4>3 DEF HeldByUser
    <3>3. QED
      BY <3>1, <3>2
  <2>4. users \in SUBSET Monitors
    BY <1>8, <1>9, <2>2 DEF Monitors
  <2>5. mine \in SUBSET Monitors
    BY <1>7 DEF Monitors
  <2>6. /\ held' \in [Threads -> SUBSET Monitors]
        /\ held'[Listener] = mine /\ held'[User] = users /\ held'[Ager] = held[Ager]
    BY <1>2, <2>1, <2>4, <2>5
  <2>7. HeldBy(Listener, pc'[Listener], mine)
    BY <1>7, <1>10 DEF HeldBy, HeldByListener
  <2>8. HeldBy(User, pc'[User], users)
    BY <1>10, <2>3 DEF HeldBy
  <2>9. HeldBy(Ager, pc'[Ager], held[Ager])
    BY <1>10, <2>1
  <2>10. pc'[User] = "connect" => users \subseteq {Device(button')}
    <3>1. pc[User] = "connect" => button # None /\ held[User] \cap {List} = {}
      BY <2>2, MonitorsLemma DEF HeldByUser, SelectionOK
    <3>2. QED
      BY <1>1, <1>8, <1>10, <3>1
  <2>11. QED
    BY <2>6, <2>7, <2>8, <2>9, <2>10 DEF HeldOK
<1>14. NotEntering
  BY <1>10 DEF NotEntering
<1>15. ListOK' /\ ScanMissesNobody' /\ NewIsNew'
  BY <1>1, <1>14, SameList
<1>16. QED
  BY <1>10, <1>11, <1>12, <1>13, <1>15

\* The answers to DEVICES come, and the window is redrawn; or they do not.
LEMMA RequestDeviceListStep == IndInv /\ RequestDeviceList => IndInv'
<1> SUFFICES ASSUME IndInv, RequestDeviceList PROVE IndInv'
  OBVIOUS
<1> USE ThreadsLemma DEF IndInv
<1>1. /\ pc[Listener] = "answer"
      /\ UNCHANGED <<servers, scan, count, button, selected, shown>>
  BY DEF RequestDeviceList
<1>2. at[Listener] \in Objects
  BY <1>1 DEF AtOK
<1>3. \/ /\ Goto(Listener, "gui") /\ held' = held
         /\ then' = [then EXCEPT ![Listener] = {"receive"}]
      \/ /\ \E label \in {"receive", "drop", "dead"} : Goto(Listener, label)
         /\ held' = [held EXCEPT ![Listener] = {}] /\ then' = then
  BY DEF RequestDeviceList, DevicesAnswered
<1>4. /\ PcOK' /\ AtOK' /\ SenderOK'
      /\ pc'[Listener] \in {"gui", "receive", "drop", "dead"}
      /\ \A u \in Threads \ {Listener} : pc'[u] = pc[u] /\ at'[u] = at[u]
      /\ held' = held => pc'[Listener] = "gui" \/ held'[Listener] = {}
  <2>1. PICK label \in {"gui", "receive", "drop", "dead"} :
          /\ Goto(Listener, label)
          /\ label = "gui" \/ held' = [held EXCEPT ![Listener] = {}]
    BY <1>3
  <2>2. label \in ListenerAt \ {"scan", "create"}
    BY <2>1 DEF ListenerAt
  <2>3. /\ PcOK' /\ AtOK' /\ SenderOK'
        /\ pc'[Listener] = label
        /\ \A u \in Threads \ {Listener} : pc'[u] = pc[u] /\ at'[u] = at[u]
    BY <1>2, <2>1, <2>2, GotoLemma
  <2>4. label = "gui" \/ held'[Listener] = {}
    BY <2>1 DEF HeldOK
  <2>5. QED
    BY <2>3, <2>4
<1>5. ThenOK'
  BY <1>3 DEF ThenOK
<1>6. SelectionOK' /\ PlacesOK'
  BY <1>1, <1>4 DEF SelectionOK, PlacesOK
<1>7. HeldOK'
  <2>1. HeldBy(Listener, pc[Listener], held[Listener]) /\ held \in [Threads -> SUBSET Monitors]
    BY DEF HeldOK
  <2>2. CASE held' = [held EXCEPT ![Listener] = {}]
    <3>1. HeldBy(Listener, pc'[Listener], {}) /\ {} \in SUBSET Monitors
      BY DEF HeldBy, HeldByListener
    <3>2. QED
      BY <1>1, <1>4, <2>2, <3>1, HeldLemma, ThreadsLemma
  <2>3. CASE held' = held /\ pc'[Listener] = "gui"
    <3>1. held' = [held EXCEPT ![Listener] = held[Listener]]
      BY <2>1, <2>3
    <3>2. HeldBy(Listener, pc'[Listener], held[Listener])
      BY <2>1, <2>3 DEF HeldBy, HeldByListener
    <3>3. held[Listener] \in SUBSET Monitors
      BY <2>1
    <3>4. QED
      BY <1>1, <1>4, <3>1, <3>2, <3>3, HeldLemma, ThreadsLemma
  <2>4. Goto(Listener, "gui") => pc'[Listener] = "gui"
    BY DEF Goto, PcOK
  <2>5. QED
    BY <1>3, <2>2, <2>3, <2>4
<1>8. NotEntering
  BY <1>4 DEF NotEntering
<1>9. ListOK' /\ ScanMissesNobody' /\ NewIsNew'
  BY <1>1, <1>8, SameList
<1>10. QED
  BY <1>4, <1>5, <1>6, <1>7, <1>9

\* STATUS
LEMMA StatusStep == IndInv /\ (Status \/ UnknownDevice \/ Update) => IndInv'
<1> SUFFICES ASSUME IndInv, Status \/ UnknownDevice \/ Update PROVE IndInv'
  OBVIOUS
<1> USE ThreadsLemma DEF IndInv
<1>1. /\ pc[Listener] \in {"status", "update"}
      /\ UNCHANGED <<scan, servers, then, count, button, selected, shown>>
  BY DEF Status, UnknownDevice, Update, Ready, ListenerOnly, window
<1>2. at[Listener] \in Objects
  BY <1>1 DEF AtOK
<1>3. PICK label \in {"update", "dead", "receive"} :
        /\ Goto(Listener, label)
        /\ \/ label = "update" /\ held' = [held EXCEPT ![Listener] = {Server(at[Listener])}]
           \/ held' = [held EXCEPT ![Listener] = {}]
  BY DEF Status, UnknownDevice, Update
<1>4. /\ pc'[Listener] = label
      /\ \A u \in Threads \ {Listener} : pc'[u] = pc[u]
  BY <1>3 DEF Goto, PcOK
<1>5. HeldOK'
  <2>1. CASE label = "update" /\ held' = [held EXCEPT ![Listener] = {Server(at[Listener])}]
    <3>1. {Server(at[Listener])} \subseteq ServerMonitors
      BY <1>2 DEF ServerMonitors
    <3>2. {Server(at[Listener])} \in SUBSET Monitors
      BY <3>1 DEF Monitors
    <3>3. HeldBy(Listener, pc'[Listener], {Server(at[Listener])})
      BY <1>4, <2>1, <3>1 DEF HeldBy, HeldByListener
    <3>4. QED
      BY <1>1, <1>4, <2>1, <3>2, <3>3, HeldLemma, ThreadsLemma
  <2>2. CASE held' = [held EXCEPT ![Listener] = {}]
    <3>1. HeldBy(Listener, pc'[Listener], {}) /\ {} \in SUBSET Monitors
      BY DEF HeldBy, HeldByListener
    <3>2. QED
      BY <1>1, <1>4, <2>2, <3>1, HeldLemma, ThreadsLemma
  <2>3. QED
    BY <1>3, <2>1, <2>2
<1>6. shown' \in Devices \cup {None} /\ count' \in Bound
  BY <1>1 DEF SelectionOK, PlacesOK
<1>7. label \in ListenerAt \ {"scan", "create", "add", "impossible"} /\ label # "connect"
  BY <1>3 DEF ListenerAt
<1>8. QED
  BY <1>1, <1>2, <1>3, <1>5, <1>6, <1>7, GoOnLemma

\* Whatever multicastThread does with an INIT, a STATUS or a QUIT (multicastThread.java)
\* keeps the list, the monitors and the places.
LEMMA ListenerIndInv == IndInv /\ ListenerStep => IndInv'
<1> SUFFICES ASSUME IndInv, ListenerStep PROVE IndInv'
  OBVIOUS
<1>1. CASE ScanMisses \/ ScanFails \/ ScanLooks
  BY <1>1, ScanMissesStep, ScanFailsStep, ScanLooksStep
<1>2. CASE Create \/ Add
  BY <1>2, CreateStep, AddStep
<1>3. CASE ListenerRemove
  BY <1>3, RemoveServerStep, ThreadsLemma DEF ListenerRemove
<1>4. CASE ReInit \/ RequestDeviceList
  BY <1>4, ReInitStep, RequestDeviceListStep
<1>5. CASE Status \/ UnknownDevice \/ Update
  BY <1>5, StatusStep
<1>6. CASE RedrawDevice(Listener)
  BY <1>6, RedrawDeviceStep, ThreadsLemma
<1>7. QED
  BY <1>1, <1>2, <1>3, <1>4, <1>5, <1>6 DEF ListenerStep

-----------------------------------------------------------------------------
(***************************************************************************)
(* The theorems.                                                           *)
(***************************************************************************)
\* Nobody is on the list, and every thread is before its first step.
LEMMA InitIndInv == Init => IndInv
<1> SUFFICES ASSUME Init PROVE IndInv
  OBVIOUS
<1> USE ThreadsLemma DEF Init
<1>1. /\ pc[Listener] = "receive" /\ pc[Ager] = "look" /\ pc[User] = "idle"
      /\ DOMAIN pc = Threads
  BY DEF Listener, Ager, User
<1>2. PcOK
  <2>1. /\ "receive" \in ListenerAt /\ "look" \in AgerAt /\ "idle" \in UserAt
        /\ {"receive", "look", "idle"} \subseteq Labels
    BY DEF ListenerAt, AgerAt, UserAt, Labels
  <2> DEFINE first(t) == CASE t = "multicast" -> "receive"
                           [] t = "age"       -> "look"
                           [] t = "awt"       -> "idle"
  <2>2. \A t \in Threads : first(t) \in Labels
    BY <2>1 DEF Threads, Listener, Ager, User
  <2>3. pc = [t \in Threads |-> first(t)]
    OBVIOUS
  <2> HIDE DEF first
  <2>4. pc \in [Threads -> Labels]
    BY <2>2, <2>3
  <2>5. QED
    BY <1>1, <2>1, <2>4 DEF PcOK
<1>3. ThenOK /\ AtOK
  BY <1>1 DEF ThenOK, AtOK
<1>4. SelectionOK /\ SenderOK
  BY <1>1 DEF SelectionOK, SenderOK
<1>5. PlacesOK
  <2>1. 0 \in Bound
    BY FS_CardinalityType, ServersAssumption DEF Bound
  <2>2. QED
    BY <2>1 DEF PlacesOK, NoScan
<1>6. ListOK
  <2>1. <<>> \in Seq(Objects) /\ UniqueIn(<<>>)
    BY DEF UniqueIn
  <2>2. QED
    BY <2>1 DEF ListOK
<1>7. ScanMissesNobody /\ NewIsNew
  BY <1>1 DEF ScanMissesNobody, NewIsNew
<1>8. HeldOK
  BY DEF HeldOK, HeldBy, HeldByListener, HeldByAger, HeldByUser
<1>9. QED
  BY <1>2, <1>3, <1>4, <1>5, <1>6, <1>7, <1>8 DEF IndInv

\* No step of a thread breaks the invariant.
LEMMA StepIndInv == IndInv /\ [Next]_vars => IndInv'
<1> SUFFICES ASSUME IndInv, [Next]_vars PROVE IndInv'
  OBVIOUS
<1>1. CASE \E s \in Servers : Receive(s)
  BY <1>1, ReceiveStep
<1>2. CASE ListenerStep
  BY <1>2, ListenerIndInv
<1>3. CASE AgerStep
  BY <1>3, AgerIndInv
<1>4. CASE \E s \in Servers : Select(s)
  BY <1>4, SelectStep
<1>5. CASE Press
  BY <1>5, PressStep
<1>6. CASE UserStep
  BY <1>6, UserIndInv
<1>7. CASE UNCHANGED vars
  <2>1. /\ UNCHANGED <<servers, pc, at, then, held, sender, scan, count, button>>
        /\ UNCHANGED <<selected, shown>>
    BY <1>7 DEF vars, window
  <2>2. PcOK' /\ ThenOK' /\ AtOK' /\ ListOK' /\ SelectionOK' /\ SenderOK' /\ PlacesOK'
    BY <2>1 DEF IndInv, PcOK, ThenOK, AtOK, ListOK, SelectionOK, SenderOK, PlacesOK
  <2>3. ScanMissesNobody' /\ NewIsNew' /\ HeldOK'
    BY <2>1 DEF IndInv, ScanMissesNobody, NewIsNew, Unlisted, HeldOK
  <2>4. QED
    BY <2>2, <2>3 DEF IndInv
<1>8. QED
  BY <1>1, <1>2, <1>3, <1>4, <1>5, <1>6, <1>7 DEF Next

\* The invariant holds.
LEMMA InvariantLemma == Spec => []IndInv
<1>1. Init => IndInv
  BY InitIndInv
<1>2. IndInv /\ [Next]_vars => IndInv'
  BY StepIndInv
<1>3. QED
  BY <1>1, <1>2, PTL DEF Spec

\* linkControl.java, multicastThread.java, ageThread.java: what the threads keep
\* has its type; a button acts on a device, and no enumeration goes further than
\* there are servers on the network.
THEOREM TypeTheorem == Spec => []TypeOK
<1>1. IndInv => TypeOK
  <2> SUFFICES ASSUME IndInv PROVE TypeOK
    OBVIOUS
  <2>1. pc \in [Threads -> {"receive", "scan", "create", "add", "init", "answer", "drop",
                            "status", "update", "impossible", "look", "next",
                            "poll", "idle", "connect", "remove", "gui", "again", "dead"}]
    BY DEF IndInv, PcOK, Labels, ListenerAt, AgerAt, UserAt
  <2>2. \A t \in Threads : held[t] \subseteq {List} \cup {Server(o) : o \in Objects}
                                                  \cup {Device(d) : d \in Devices}
    <3>1. Monitors = {List} \cup {Server(o) : o \in Objects} \cup {Device(d) : d \in Devices}
      BY DEF Monitors, ServerMonitors, DeviceMonitors
    <3>2. \A t \in Threads : held[t] \subseteq Monitors
      BY DEF IndInv, HeldOK
    <3>3. QED
      BY <3>1, <3>2
  <2>3. /\ servers \in Seq(Objects) /\ at \in [Threads -> Objects \cup {None}]
        /\ {shown, button} \subseteq Devices \cup {None}
        /\ {selected, sender} \subseteq Servers \cup {None}
        /\ count \in 0 .. Cardinality(Servers) /\ scan.size \in 0 .. Cardinality(Servers)
    BY DEF IndInv, ListOK, AtOK, SelectionOK, SenderOK, PlacesOK, Bound
  <2>4. QED
    BY <2>1, <2>2, <2>3 DEF TypeOK
<1>2. QED
  BY <1>1, InvariantLemma, PTL

\* multicastThread.java:80-83, "This should _NEVER_ happen. _EVER_!": it does not,
\* however many servers there are and however their removal falls between the
\* steps of the search.
THEOREM KnownOnceTheorem == Spec => []ServerKnownOnce
<1>1. IndInv => ServerKnownOnce
  BY DEF IndInv, ListOK, UniqueIn, NewIsNew, ServerKnownOnce
<1>2. QED
  BY <1>1, InvariantLemma, PTL

\* A thread that somebody waits for while it waits itself is either connecting, and
\* somebody wants its device, or wants a device.
LEMMA WaitsLemma ==
  ASSUME IndInv, NEW t \in Threads, NEW u \in Threads, WaitsFor(t, u), held[t] # {}
  PROVE  \/ t = User /\ u = Listener
         \/ t # User /\ u = User
<1> USE ThreadsLemma DEF IndInv
<1>1. PICK mon \in Wants(t) : mon \in held[u] /\ u # t
  BY DEF WaitsFor
<1>2. \A v \in Threads : HeldBy(v, pc[v], held[v])
  BY DEF HeldOK
<1>3. CASE t = User
  <2>1. pc[User] \in {"connect", "gui", "again"}
    BY <1>3, NotInside
  <2>2. CASE pc[User] = "connect"
    <3>1. mon = Server(ServerOf(button))
      BY <1>1, <1>3, <2>2 DEF Wants, Redrawing
    <3>2. mon # List
      <4>1. mon[1] = "server" /\ List[1] = "list"
        BY <3>1 DEF Server, List
      <4>2. QED
        BY <4>1
    <3>3. u # Ager
      BY <1>1, <1>2, <3>2 DEF HeldBy, HeldByAger
    <3>4. QED
      BY <1>1, <1>3, <3>3
  <2>3. CASE pc[User] \in {"gui", "again"}
    <3>1. PICK d \in {shown, NextShown} \ {None} : mon = Device(d)
      BY <1>1, <1>3, <2>3 DEF Wants, Redrawing
    <3>2. mon \in DeviceMonitors
      <4>1. d \in Devices
        BY ShownLemma DEF SelectionOK, ListOK
      <4>2. QED
        BY <3>1, <4>1 DEF DeviceMonitors
    <3>3. mon \notin {List} \cup ServerMonitors
      BY <3>2, MonitorsLemma
    <3>4. mon \notin held[Listener] /\ mon \notin held[Ager]
      BY <1>2, <3>3 DEF HeldBy, HeldByListener, HeldByAger
    <3>5. QED
      BY <1>1, <1>3, <3>4
  <2>4. QED
    BY <2>1, <2>2, <2>3
<1>4. CASE t # User
  <2>1. pc[t] \in {"gui", "again", "answer", "update"}
    BY <1>4, NotInside
  <2>2. mon \in DeviceMonitors
    <3>1. CASE pc[t] \in {"gui", "again"}
      <4>1. PICK d \in {shown, NextShown} \ {None} : mon = Device(d)
        BY <1>1, <3>1 DEF Wants, Redrawing
      <4>2. d \in Devices
        BY ShownLemma DEF SelectionOK, ListOK
      <4>3. QED
        BY <4>1, <4>2 DEF DeviceMonitors
    <3>2. CASE pc[t] = "answer"
      BY <1>1, <3>2 DEF Wants, Redrawing
    <3>3. CASE pc[t] = "update"
      <4>1. t = Listener
        BY <1>4, <3>3 DEF PcOK, AgerAt
      <4>2. at[t] \in Objects
        BY <3>3, <4>1 DEF AtOK
      <4>3. Present(at[t]) \in Devices
        BY <4>2 DEF Present, Devices
      <4>4. mon = Device(Present(at[t]))
        BY <1>1, <3>3 DEF Wants, Redrawing
      <4>5. QED
        BY <4>3, <4>4 DEF DeviceMonitors
    <3>4. QED
      BY <2>1, <3>1, <3>2, <3>3
  <2>3. mon \notin {List} \cup ServerMonitors
    BY <2>2, MonitorsLemma
  <2>4. mon \notin held[Listener] /\ mon \notin held[Ager]
    BY <1>2, <2>3 DEF HeldBy, HeldByListener, HeldByAger
  <2>5. QED
    BY <1>1, <1>4, <2>4
<1>5. QED
  BY <1>3, <1>4

\* If the two wait for each other, the event thread is in Connect() and the listener
\* about to update that device or to redraw it.
LEMMA StuckLemma ==
  ASSUME IndInv, WaitsFor(User, Listener), WaitsFor(Listener, User)
  PROVE  Stuck
<1> USE ThreadsLemma DEF IndInv
<1>1. PICK mon \in Wants(User) : mon \in held[Listener]
  BY DEF WaitsFor
<1>2. PICK dev \in Wants(Listener) : dev \in held[User]
  BY DEF WaitsFor
<1>3. \A t \in Threads : HeldBy(t, pc[t], held[t])
  BY DEF HeldOK
<1>4. pc[User] = "connect"
  <2>1. pc[User] \in {"connect", "gui", "again"}
    BY <1>2, NotInside
  <2>2. pc[User] \notin {"gui", "again"}
    <3> SUFFICES ASSUME pc[User] \in {"gui", "again"} PROVE FALSE
      OBVIOUS
    <3>1. PICK d \in {shown, NextShown} \ {None} : mon = Device(d)
      BY <1>1 DEF Wants, Redrawing
    <3>2. mon \in DeviceMonitors
      BY <3>1, ShownLemma DEF SelectionOK, ListOK, DeviceMonitors
    <3>3. mon \in {List} \cup ServerMonitors
      BY <1>1, <1>3 DEF HeldBy, HeldByListener
    <3>4. QED
      BY <3>2, <3>3, MonitorsLemma
  <2>3. QED
    BY <2>1, <2>2
<1>5. mon = Server(ServerOf(button))
  BY <1>1, <1>4 DEF Wants, Redrawing
<1>6. held[User] = {Device(button)} /\ dev = Device(button)
  BY <1>2, <1>4 DEF HeldOK
<1>7. Opposed
  BY <1>1, <1>4, <1>5, <1>6 DEF Opposed
<1>8. \A d : Device(d) = Device(button) => d = button
  <2>1. \A d : Device(d)[2] = d
    BY DEF Device
  <2>2. QED
    BY <2>1
<1>9. pc[Listener] \in {"gui", "again", "answer", "update"}
  BY <1>1, NotInside
<1>10. CASE pc[Listener] = "update"
  <2>1. dev = Device(Present(at[Listener]))
    BY <1>2, <1>10 DEF Wants, Redrawing
  <2>2. QED
    BY <1>6, <1>7, <1>8, <1>10, <2>1 DEF Stuck, StuckInStatus
<1>11. CASE pc[Listener] \in {"gui", "again"}
  <2>1. PICK d \in {shown, NextShown} : dev = Device(d)
    BY <1>2, <1>11 DEF Wants, Redrawing
  <2>2. QED
    BY <1>6, <1>7, <1>8, <1>11, <2>1 DEF Stuck, StuckInReInit, Redrawing
<1>12. CASE pc[Listener] = "answer"
  BY <1>2, <1>12 DEF Wants, Redrawing
<1>13. QED
  BY <1>9, <1>10, <1>11, <1>12

\* linkDevice.java:191, linkServer.java:180 and 164: a circle of threads that wait for
\* each other's monitors, of two or of three, is either Connect() of a device against
\* updateDeviceStatus() of its server, about to update that device, or Connect()
\* against reInit() of its server, about to redraw that device; whatever the number
\* of servers.  The list's monitor is never part of a circle.
THEOREM DeadlockTheorem == Spec => []OnlyDeadlock
<1>1. ASSUME IndInv PROVE OnlyDeadlock
  <2> SUFFICES ASSUME NEW t \in Threads, NEW u \in Threads, NEW v \in Threads,
                      WaitsFor(t, u), WaitsFor(u, v),
                      t \in {v, u} \cup {x \in Threads : WaitsFor(v, x)}
               PROVE  Stuck
    BY DEF OnlyDeadlock
  <2>1. t # u /\ held[u] # {} /\ held[v] # {}
    BY DEF WaitsFor
  <2>2. \/ u = User /\ v = Listener
        \/ u # User /\ v = User
    BY <1>1, <2>1, WaitsLemma
  <2>3. CASE t = v
    <3>1. \/ t = User /\ u = Listener
          \/ t # User /\ u = User
      BY <1>1, <2>1, <2>3, WaitsLemma
    <3>2. QED
      BY <1>1, <2>2, <2>3, <3>1, ThreadsLemma, StuckLemma
  <2>4. CASE WaitsFor(v, t)
    <3>1. /\ (v = User /\ t = Listener) \/ (v # User /\ t = User)
          /\ held[t] # {}
      BY <1>1, <2>1, <2>4, WaitsLemma DEF WaitsFor
    <3>2. \/ t = User /\ u = Listener
          \/ t # User /\ u = User
      BY <1>1, <3>1, WaitsLemma
    <3>3. QED
      BY <2>1, <2>2, <3>1, <3>2, ThreadsLemma
  <2>5. QED
    BY <2>1, <2>3, <2>4
<1>2. QED
  BY <1>1, InvariantLemma, PTL

=============================================================================
