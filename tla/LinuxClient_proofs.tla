-------------------------- MODULE LinuxClient_proofs --------------------------
(***************************************************************************)
(* Proofs about the Linux client, for any number of servers and devices.   *)
(*                                                                         *)
(* The argument.  Only the listener changes the list, one datagram after   *)
(* the other, so what get_server() said of the sender stays true until the *)
(* datagram is dealt with, mutex or no mutex (SenderKnown).  A walk of     *)
(* main() that is still on the list has nothing ahead of it that is not on *)
(* the list (WalkInList).  As long as nobody has unlocked a mutex that was *)
(* not theirs the mutex belongs to whoever is in a critical section        *)
(* (Exclusive), so that no step of the listener's that takes a server off  *)
(* the list or frees a device falls between two steps of a walk.           *)
(***************************************************************************)
EXTENDS LinuxClient, ListLemmas

-----------------------------------------------------------------------------
\* What the listener found out about the sender of its datagram is still so.
SenderKnown ==
    /\ listener \in {"add", "adding"} => ~Contains(g_servers, message.from)
    /\ listener \notin {"select", "add", "adding"} => Contains(g_servers, message.from)

\* What main() has ahead of it is on the list, unless it was cut off it.
WalkInList ==
    /\ walk.at = None => walk.ahead = <<>>
    /\ walk.linked => /\ Once(walk.ahead)
                      /\ \A s : Contains(walk.ahead, s) => Contains(g_servers, s)

\* Both threads have the mutex in their critical sections.
Exclusive ==
    ~robbed => /\ main \in {"wait", "walk"} => mutex = "main"
               /\ listener \in {Inside[l] : l \in DOMAIN Inside} => mutex = "listener"

\* The rest of main()'s walk is the rest of the list.
Rest == <<walk.at>> \o walk.ahead
WalkStill ==
    ~robbed /\ main = "walk" =>
        /\ walk.linked
        /\ ~walk.stale
        /\ walk.at # None =>
             \E i \in DOMAIN g_servers : Rest = SubSeq(g_servers, i, Len(g_servers))

IndInv == TypeOK /\ SenderKnown /\ WalkInList /\ Exclusive /\ WalkStill

-----------------------------------------------------------------------------
(***************************************************************************)
(* Walks.                                                                  *)
(***************************************************************************)
\* What is left of a list after its first entry.
LEMMA TailLemma ==
  ASSUME NEW list \in Seq(Servers), list # <<>>, Once(list)
  PROVE  /\ Head(list) \in Servers
         /\ Tail(list) \in Seq(Servers)
         /\ Once(Tail(list))
         /\ \A s : Contains(Tail(list), s) => Contains(list, s)
         /\ <<Head(list)>> \o Tail(list) = list
<1> DEFINE tail == Tail(list)
<1>1. /\ Len(list) \in Nat \ {0} /\ DOMAIN list = 1 .. Len(list)
      /\ Head(list) = list[1] /\ list[1] \in Servers
  OBVIOUS
<1>2. /\ tail \in Seq(Servers)
      /\ Len(tail) = Len(list) - 1
      /\ DOMAIN tail = 1 .. Len(list) - 1
      /\ \A i \in 1 .. Len(list) - 1 : tail[i] = list[i + 1]
  OBVIOUS
<1>3. <<Head(list)>> \o tail = list
  OBVIOUS
<1> HIDE DEF tail
<1>4. Once(tail)
  BY <1>1, <1>2 DEF Once
<1>5. \A s : Contains(tail, s) => Contains(list, s)
  BY <1>1, <1>2 DEF Contains
<1>6. QED
  BY <1>1, <1>2, <1>3, <1>4, <1>5 DEF tail

\* From(list) starts a walk over the list.
LEMMA FromLemma ==
  ASSUME NEW list \in Seq(Servers), Once(list)
  PROVE  /\ From(list) \in Walk
         /\ From(list).linked /\ ~From(list).stale
         /\ From(list).at = None => From(list).ahead = <<>>
         /\ Once(From(list).ahead)
         /\ \A s : Contains(From(list).ahead, s) => Contains(list, s)
         /\ From(list).at # None => <<From(list).at>> \o From(list).ahead = list
<1>1. CASE list = <<>>
  BY <1>1 DEF From, Walk, Once, Contains
<1>2. CASE list # <<>>
  <2>1. /\ From(list).at = Head(list) /\ From(list).ahead = Tail(list)
        /\ From(list).linked = TRUE /\ From(list).stale = FALSE
        /\ From(list) = [at |-> Head(list), ahead |-> Tail(list),
                         linked |-> TRUE, stale |-> FALSE]
    BY <1>2 DEF From
  <2>2. From(list) \in Walk
    BY <2>1, <1>2, TailLemma DEF Walk
  <2>3. Head(list) # None
    BY <1>2, TailLemma, NoneAssumption
  <2>4. QED
    BY <2>1, <2>2, <2>3, <1>2, TailLemma
<1>3. QED
  BY <1>1, <1>2

\* The end of a list, from place i on.
LEMMA SuffixLemma ==
  ASSUME NEW list \in Seq(Servers), Once(list), NEW i \in 1 .. Len(list) + 1
  PROVE  LET rest == SubSeq(list, i, Len(list))
         IN  /\ rest \in Seq(Servers)
             /\ Once(rest)
             /\ \A s : Contains(rest, s) => Contains(list, s)
<1> DEFINE rest == SubSeq(list, i, Len(list))
<1>1. i \in Int /\ Len(list) \in Nat /\ 1 <= i /\ i <= Len(list) + 1
  OBVIOUS
<1>2. /\ \A j \in 1 .. Len(list) : list[j] \in Servers
      /\ DOMAIN list = 1 .. Len(list)
  OBVIOUS
<1>3. /\ rest \in Seq(Servers)
      /\ Len(rest) = Len(list) - i + 1
      /\ \A j \in 1 .. Len(list) - i + 1 : rest[j] = list[i + j - 1]
  BY <1>1, <1>2, SubSeqProperties
<1> HIDE DEF rest
<1>4. DOMAIN rest = 1 .. Len(list) - i + 1
  BY <1>3
<1>5. Once(rest)
  <2> SUFFICES ASSUME NEW j \in 1 .. Len(list) - i + 1, NEW k \in 1 .. Len(list) - i + 1,
                      rest[j] = rest[k]
               PROVE  j = k
    BY <1>4 DEF Once
  <2>1. list[i + j - 1] = list[i + k - 1]
    BY <1>3
  <2>2. i + j - 1 \in 1 .. Len(list) /\ i + k - 1 \in 1 .. Len(list)
    BY <1>1
  <2>3. i + j - 1 = i + k - 1
    BY <1>2, <2>1, <2>2 DEF Once
  <2>4. QED
    BY <1>1, <2>3
<1>6. \A s : Contains(rest, s) => Contains(list, s)
  BY <1>1, <1>3 DEF Contains
<1>7. QED
  BY <1>3, <1>5, <1>6 DEF rest

\* The rest of a walk that goes on from the end of a list is an end of the list.
LEMMA NextSuffixLemma ==
  ASSUME NEW list \in Seq(Servers), NEW i \in DOMAIN list,
         NEW s, NEW ahead \in Seq(Servers), ahead # <<>>,
         <<s>> \o ahead = SubSeq(list, i, Len(list))
  PROVE  i + 1 \in DOMAIN list /\ ahead = SubSeq(list, i + 1, Len(list))
<1>1. i \in Int /\ Len(list) \in Nat /\ 1 <= i /\ i <= Len(list)
  OBVIOUS
<1>2. Len(ahead) \in Nat /\ Len(ahead) # 0 /\ DOMAIN ahead = 1 .. Len(ahead)
  OBVIOUS
<1>3. /\ Len(<<s>> \o ahead) = Len(ahead) + 1
      /\ \A j \in 1 .. Len(ahead) : (<<s>> \o ahead)[j + 1] = ahead[j]
  OBVIOUS
<1>4. \A j \in 1 .. Len(list) : list[j] \in Servers
  OBVIOUS
<1>5. /\ Len(SubSeq(list, i, Len(list))) = Len(list) - i + 1
      /\ \A j \in 1 .. Len(list) - i + 1 :
           SubSeq(list, i, Len(list))[j] = list[i + j - 1]
  BY <1>1, <1>4, SubSeqProperties
<1>6. Len(ahead) = Len(list) - i
  BY <1>1, <1>2, <1>3, <1>5
<1>7. \A j \in 1 .. Len(ahead) : ahead[j] = list[i + j]
  <2> SUFFICES ASSUME NEW j \in 1 .. Len(ahead) PROVE ahead[j] = list[i + j]
    OBVIOUS
  <2>1. ahead[j] = SubSeq(list, i, Len(list))[j + 1]
    BY <1>3
  <2>2. j + 1 \in 1 .. Len(list) - i + 1 /\ i + (j + 1) - 1 = i + j
    BY <1>1, <1>2, <1>6
  <2>3. QED
    BY <2>1, <2>2, <1>5
<1>8. i + 1 \in DOMAIN list
  BY <1>1, <1>2, <1>6
<1>9. /\ SubSeq(list, i + 1, Len(list)) \in Seq(Servers)
      /\ Len(SubSeq(list, i + 1, Len(list))) = Len(list) - i
      /\ \A j \in 1 .. Len(list) - i :
           SubSeq(list, i + 1, Len(list))[j] = list[i + 1 + j - 1]
  BY <1>1, <1>4, <1>8, SubSeqProperties
<1>10. \A j \in 1 .. Len(ahead) : ahead[j] = SubSeq(list, i + 1, Len(list))[j]
  <2> SUFFICES ASSUME NEW j \in 1 .. Len(ahead)
               PROVE  ahead[j] = SubSeq(list, i + 1, Len(list))[j]
    OBVIOUS
  <2>1. j \in 1 .. Len(list) - i /\ i + 1 + j - 1 = i + j
    BY <1>1, <1>6
  <2>2. QED
    BY <2>1, <1>7, <1>9
<1>11. ahead = SubSeq(list, i + 1, Len(list))
  BY <1>6, <1>9, <1>10, SeqEqual
<1>12. QED
  BY <1>8, <1>11

-----------------------------------------------------------------------------
(***************************************************************************)
(* The steps.                                                              *)
(***************************************************************************)
\* Where the listener waits for the mutex, and where it has it.
LEMMA InsideLemma ==
  /\ DOMAIN Inside = {"add", "hear", "init", "quit"}
  /\ {Inside[l] : l \in DOMAIN Inside} = {"adding", "hearing", "dropping", "quitting"}
  /\ Inside["add"] = "adding" /\ Inside["hear"] = "hearing"
  /\ Inside["init"] = "dropping" /\ Inside["quit"] = "quitting"
<1>1. /\ DOMAIN Inside = {"add", "hear", "init", "quit"}
      /\ Inside["add"] = "adding" /\ Inside["hear"] = "hearing"
      /\ Inside["init"] = "dropping" /\ Inside["quit"] = "quitting"
  BY DEF Inside
<1>2. QED
  BY <1>1

\* Before main() and the listener have done anything, all is well.
LEMMA InitIndInv == Init => IndInv
<1> SUFFICES ASSUME Init PROVE IndInv
  OBVIOUS
<1> USE DEF Init
<1>1. <<>> \in Seq(Servers) /\ Once(<<>>) /\ \A s : ~Contains(<<>>, s)
  BY DEF Once, Contains
<1>2. /\ walk \in Walk /\ walk.linked
      /\ walk.ahead = <<>>
  BY <1>1, FromLemma DEF From
<1>3. TypeOK
  <2>1. message \in Message
    BY DEF Message, Kinds
  <2>2. QED
    BY <1>1, <1>2, <2>1 DEF TypeOK, Once
<1>4. SenderKnown
  BY DEF SenderKnown
<1>5. WalkInList
  BY <1>1, <1>2 DEF WalkInList
<1>6. Exclusive
  BY InsideLemma DEF Exclusive
<1>7. WalkStill
  BY DEF WalkStill
<1>8. QED
  BY <1>3, <1>4, <1>5, <1>6, <1>7 DEF IndInv

\* A step of main()'s that leaves its walk alone keeps the invariant, if it
\* takes the mutex only when it is free.
LEMMA MainWithoutWalk ==
  ASSUME IndInv, MainOnly, UNCHANGED walk,
         main' \in {"test", "wait_lock", "wait", "blocked", "give_up", "lock",
                    "sleep", "exited"},
         \/ UNCHANGED <<mutex, robbed>> /\ main' # "wait"
         \/ Lock("main")
         \/ Unlock("main") /\ main' # "wait"
  PROVE  IndInv'
<1> USE DEF IndInv, MainOnly
<1>1. TypeOK'
  BY DEF TypeOK, Lock, Unlock
<1>2. SenderKnown'
  BY DEF SenderKnown
<1>3. WalkInList'
  BY DEF WalkInList
<1>4. Exclusive'
  <2>1. CASE UNCHANGED <<mutex, robbed>> /\ main' # "wait"
    BY <2>1, InsideLemma DEF Exclusive
  <2>2. CASE Lock("main")
    BY <2>2, InsideLemma DEF Exclusive, Lock
  <2>3. CASE Unlock("main") /\ main' # "wait"
    BY <2>3, InsideLemma DEF Exclusive, Unlock, TypeOK
  <2>4. QED
    BY <2>1, <2>2, <2>3
<1>5. WalkStill'
  BY DEF WalkStill
<1>6. QED
  BY <1>1, <1>2, <1>3, <1>4, <1>5

\* main() starts its walk with the mutex, at the head of the list.
LEMMA DisplayLockStep == IndInv /\ DisplayLock => IndInv'
<1> SUFFICES ASSUME IndInv, DisplayLock PROVE IndInv'
  OBVIOUS
<1> USE DEF IndInv, DisplayLock, MainOnly, Lock
<1>1. g_servers \in Seq(Servers) /\ Once(g_servers)
  BY DEF TypeOK, Once
<1>2. /\ walk' \in Walk /\ walk'.linked /\ ~walk'.stale
      /\ walk'.at = None => walk'.ahead = <<>>
      /\ Once(walk'.ahead)
      /\ \A s : Contains(walk'.ahead, s) => Contains(g_servers, s)
      /\ walk'.at # None => <<walk'.at>> \o walk'.ahead = g_servers
  BY <1>1, FromLemma
<1>3. TypeOK'
  BY <1>2 DEF TypeOK
<1>4. SenderKnown'
  BY DEF SenderKnown
<1>5. WalkInList'
  BY <1>2 DEF WalkInList
<1>6. Exclusive'
  BY InsideLemma DEF Exclusive
<1>7. WalkStill'
  <2>1. walk'.at # None => g_servers # <<>>
    BY DEF From
  <2>2. g_servers # <<>> => 1 \in DOMAIN g_servers /\ g_servers = SubSeq(g_servers, 1, Len(g_servers))
    <3>1. g_servers # <<>> => 1 \in DOMAIN g_servers
      BY <1>1
    <3>2. g_servers = SubSeq(g_servers, 1, Len(g_servers))
      BY <1>1, SubSeqFull
    <3>3. QED
      BY <3>1, <3>2
  <2>3. QED
    BY <1>2, <2>1, <2>2 DEF WalkStill, Rest
<1>8. QED
  BY <1>3, <1>4, <1>5, <1>6, <1>7

\* main() goes on to the next server; where next has been freed, to anywhere.
LEMMA DisplayServerStep == IndInv /\ DisplayServer => IndInv'
<1> SUFFICES ASSUME IndInv, DisplayServer PROVE IndInv'
  OBVIOUS
<1> USE DEF IndInv
<1>1. /\ main = "walk" /\ walk.at # None /\ MainOnly
      /\ UNCHANGED <<mutex, robbed>>
  BY DEF DisplayServer
<1>2. g_servers \in Seq(Servers) /\ Once(g_servers)
  BY DEF TypeOK, Once
<1>3. walk \in Walk /\ walk.ahead \in Seq(Servers)
      /\ walk.linked \in BOOLEAN /\ walk.stale \in BOOLEAN
  BY DEF TypeOK, Walk
<1>4. SenderKnown' /\ Exclusive'
  BY <1>1, InsideLemma DEF DisplayServer, MainOnly, SenderKnown, Exclusive
<1>5. CASE walk' = [From(walk.ahead) EXCEPT !.linked = walk.linked] /\ UNCHANGED main
  <2> DEFINE next == From(walk.ahead)
  <2>1. /\ walk'.at = next.at /\ walk'.ahead = next.ahead
        /\ walk'.linked = walk.linked /\ walk'.stale = FALSE
        /\ walk' = [at |-> next.at, ahead |-> next.ahead,
                    linked |-> walk.linked, stale |-> FALSE]
    BY <1>5 DEF From
  <2>2. walk'.at = None <=> walk.ahead = <<>>
    <3>1. walk.ahead # <<>> => Head(walk.ahead) \in Servers
      BY <1>3
    <3>2. QED
      BY <3>1, <2>1, NoneAssumption DEF From
  <2>3. walk.ahead = <<>> => walk'.ahead = <<>>
    BY <2>1 DEF From
  <2>4. walk.ahead # <<>> => <<walk'.at>> \o walk'.ahead = walk.ahead
    <3>1. walk.ahead # <<>> => <<Head(walk.ahead)>> \o Tail(walk.ahead) = walk.ahead
      BY <1>3
    <3>2. QED
      BY <3>1, <2>1 DEF From
  <2>5. walk' \in Walk
    <3>1. walk.ahead # <<>> => /\ Head(walk.ahead) \in Servers
                               /\ Tail(walk.ahead) \in Seq(Servers)
      BY <1>3
    <3>2. next.at \in Servers \cup {None} /\ next.ahead \in Seq(Servers)
      BY <3>1 DEF From
    <3>3. QED
      BY <3>2, <2>1, <1>3 DEF Walk
  <2>6. walk.linked => /\ Once(walk'.ahead)
                       /\ \A s : Contains(walk'.ahead, s) => Contains(g_servers, s)
    <3> SUFFICES ASSUME walk.linked
                 PROVE  /\ Once(walk'.ahead)
                        /\ \A s : Contains(walk'.ahead, s) => Contains(g_servers, s)
      OBVIOUS
    <3>1. Once(walk.ahead) /\ \A s : Contains(walk.ahead, s) => Contains(g_servers, s)
      BY DEF WalkInList
    <3>2. Once(next.ahead) /\ \A s : Contains(next.ahead, s) => Contains(walk.ahead, s)
      BY <3>1, <1>3, FromLemma
    <3>3. QED
      BY <3>1, <3>2, <2>1
  <2> HIDE DEF next
  <2>7. TypeOK'
    BY <1>1, <1>5, <2>5 DEF TypeOK, MainOnly
  <2>8. WalkInList'
    BY <1>1, <2>1, <2>2, <2>3, <2>6 DEF WalkInList, MainOnly
  <2>9. WalkStill'
    <3> SUFFICES ASSUME ~robbed
                 PROVE  /\ walk'.linked /\ ~walk'.stale
                        /\ walk'.at # None =>
                             \E i \in DOMAIN g_servers :
                                <<walk'.at>> \o walk'.ahead = SubSeq(g_servers, i, Len(g_servers))
      BY <1>1 DEF WalkStill, Rest, MainOnly
    <3>1. PICK i \in DOMAIN g_servers :
            <<walk.at>> \o walk.ahead = SubSeq(g_servers, i, Len(g_servers))
      BY <1>1 DEF WalkStill, Rest
    <3>2. walk.ahead # <<>> => /\ i + 1 \in DOMAIN g_servers
                               /\ walk.ahead = SubSeq(g_servers, i + 1, Len(g_servers))
      BY <3>1, <1>2, <1>3, NextSuffixLemma
    <3>3. walk.linked
      BY <1>1 DEF WalkStill
    <3>4. QED
      BY <2>1, <2>2, <2>4, <3>2, <3>3
  <2>10. QED
    BY <1>4, <2>7, <2>8, <2>9
<1>6. CASE walk.stale
  <2>1. WalkStill'
    BY <1>1, <1>6 DEF WalkStill
  <2>2. CASE UNCHANGED main /\ \E i \in 1 .. Len(g_servers) + 1 :
                walk' = From(SubSeq(g_servers, i, Len(g_servers)))
    <3>1. PICK i \in 1 .. Len(g_servers) + 1 :
                walk' = From(SubSeq(g_servers, i, Len(g_servers)))
      BY <2>2
    <3> DEFINE rest == SubSeq(g_servers, i, Len(g_servers))
    <3>2. /\ rest \in Seq(Servers) /\ Once(rest)
          /\ \A s : Contains(rest, s) => Contains(g_servers, s)
      BY <1>2, SuffixLemma
    <3>3. walk' = From(rest)
      BY <3>1
    <3> HIDE DEF rest
    <3>4. /\ walk' \in Walk
          /\ walk'.at = None => walk'.ahead = <<>>
          /\ Once(walk'.ahead)
          /\ \A s : Contains(walk'.ahead, s) => Contains(rest, s)
      BY <3>2, <3>3, FromLemma
    <3>5. TypeOK'
      BY <1>1, <2>2, <3>4 DEF TypeOK, MainOnly
    <3>6. WalkInList'
      BY <1>1, <3>2, <3>4 DEF WalkInList, MainOnly
    <3>7. QED
      BY <1>4, <2>1, <3>5, <3>6
  <2>3. CASE main' = "exited" /\ UNCHANGED walk
    <3>1. TypeOK' /\ WalkInList'
      BY <1>1, <2>3 DEF TypeOK, WalkInList, MainOnly
    <3>2. QED
      BY <1>4, <2>1, <3>1
  <2>4. CASE walk' = [From(walk.ahead) EXCEPT !.linked = walk.linked] /\ UNCHANGED main
    BY <1>5, <2>4
  <2>5. QED
    BY <2>2, <2>3, <2>4 DEF DisplayServer
<1>7. QED
  BY <1>5, <1>6 DEF DisplayServer

\* The end of a walk.
LEMMA DisplayDoneStep == IndInv /\ DisplayDone => IndInv'
<1> SUFFICES ASSUME IndInv, DisplayDone PROVE IndInv'
  OBVIOUS
<1> USE DEF IndInv, DisplayDone, MainOnly, Unlock
<1>1. <<>> \in Seq(Servers) /\ Once(<<>>) /\ \A s : ~Contains(<<>>, s)
  BY DEF Once, Contains
<1>2. walk' \in Walk /\ walk'.ahead = <<>>
  BY <1>1, FromLemma DEF From
<1>3. TypeOK'
  BY <1>2 DEF TypeOK
<1>4. SenderKnown'
  BY DEF SenderKnown
<1>5. WalkInList'
  BY <1>1, <1>2 DEF WalkInList
<1>6. Exclusive'
  BY InsideLemma DEF Exclusive, TypeOK
<1>7. WalkStill'
  BY DEF WalkStill
<1>8. QED
  BY <1>3, <1>4, <1>5, <1>6, <1>7

\* main()
LEMMA MainIndInv == IndInv /\ MainStep => IndInv'
<1> SUFFICES ASSUME IndInv, MainStep PROVE IndInv'
  OBVIOUS
<1>1. CASE TestServers
  BY <1>1, MainWithoutWalk DEF TestServers
<1>2. CASE WaitLock
  BY <1>2, MainWithoutWalk DEF WaitLock
<1>3. CASE GiveUp
  BY <1>3, MainWithoutWalk DEF GiveUp
<1>4. CASE DisplayLock
  BY <1>4, DisplayLockStep
<1>5. CASE WaitTest
  BY <1>5, MainWithoutWalk DEF WaitTest
<1>6. CASE WaitReturns
  BY <1>6, MainWithoutWalk DEF WaitReturns
<1>7. CASE DisplayServer
  BY <1>7, DisplayServerStep
<1>8. CASE DisplayDone
  BY <1>8, DisplayDoneStep
<1>9. CASE WakeUp
  BY <1>9, MainWithoutWalk DEF WakeUp
<1>10. QED
  BY <1>1, <1>2, <1>3, <1>4, <1>5, <1>6, <1>7, <1>8, <1>9 DEF MainStep, MainLocks

\* In its critical sections the listener keeps main() out, unless robbed.
LEMMA KeepsOut ==
  ASSUME IndInv, listener \in {"adding", "hearing", "dropping", "quitting"}, ~robbed
  PROVE  mutex = "listener" /\ main \notin {"wait", "walk"}
BY InsideLemma DEF IndInv, Exclusive

\* A step of the listener's that leaves the list and the walk alone, and what it
\* knows of the sender, keeps the invariant.
LEMMA ListenerWithoutList ==
  ASSUME IndInv, UNCHANGED <<g_servers, main, walk>>,
         devices' \in [Servers -> SUBSET Devices],
         message' \in Message, SenderKnown',
         listener' \in {"select", "status", "updating"} \cup DOMAIN Inside,
         UNCHANGED <<mutex, robbed>> \/ Unlock("listener")
  PROVE  IndInv'
<1> USE DEF IndInv
<1>1. TypeOK'
  BY DEF TypeOK, Unlock
<1>2. WalkInList'
  BY DEF WalkInList
<1>3. Exclusive'
  BY InsideLemma DEF Exclusive, Unlock, TypeOK
<1>4. WalkStill'
  BY DEF WalkStill, Rest, Unlock
<1>5. QED
  BY <1>1, <1>2, <1>3, <1>4

\* recvfrom() and get_server().
LEMMA ReceiveStep ==
  ASSUME IndInv, NEW s \in Servers, NEW kind \in Kinds, NEW body \in SUBSET Devices,
         Receive(s, kind, body)
  PROVE  IndInv'
<1> USE DEF Receive, GetServer
<1>1. message' \in Message
  BY DEF Message
<1>2. SenderKnown'
  <2>1. message'.from = s
    OBVIOUS
  <2>2. QED
    BY <2>1 DEF SenderKnown
<1>3. QED
  BY <1>1, <1>2, InsideLemma, ListenerWithoutList DEF IndInv, TypeOK

\* The listener gets the mutex.
LEMMA ListenerLockStep == IndInv /\ ListenerLock => IndInv'
<1> SUFFICES ASSUME IndInv, ListenerLock PROVE IndInv'
  OBVIOUS
<1> USE DEF IndInv, ListenerLock, Lock
<1>1. /\ listener' \in {"adding", "hearing", "dropping", "quitting"}
      /\ listener \in {"add", "hear", "init", "quit"}
      /\ listener = "add" <=> listener' = "adding"
  BY InsideLemma
<1>2. TypeOK'
  BY <1>1, InsideLemma DEF TypeOK
<1>3. SenderKnown'
  BY <1>1 DEF SenderKnown
<1>4. WalkInList'
  BY DEF WalkInList
<1>5. Exclusive'
  BY <1>1, InsideLemma DEF Exclusive
<1>6. WalkStill'
  BY DEF WalkStill, Exclusive
<1>7. QED
  BY <1>2, <1>3, <1>4, <1>5, <1>6

\* add_server()
LEMMA AddServerStep == IndInv /\ AddServer => IndInv'
<1> SUFFICES ASSUME IndInv, AddServer PROVE IndInv'
  OBVIOUS
<1> USE DEF IndInv
<1> DEFINE s == message.from
<1>1. /\ listener = "adding" /\ g_servers' = Append(g_servers, s)
      /\ devices' = [devices EXCEPT ![s] = {}]
      /\ walk' = IF walk.at # None /\ walk.linked
                 THEN [walk EXCEPT !.ahead = Append(@, s)] ELSE walk
      /\ main' = IF main = "blocked" THEN "wait_lock" ELSE main
      /\ Unlock("listener") /\ listener' = "hear" /\ UNCHANGED message
  BY DEF AddServer
<1>2. s \in Servers /\ ~Contains(g_servers, s)
  BY <1>1 DEF SenderKnown, TypeOK, Message
<1>3. g_servers \in Seq(Servers) /\ Once(g_servers)
  BY DEF TypeOK, Once
<1>4. /\ g_servers' \in Seq(Servers) /\ Once(g_servers')
      /\ \A x : Contains(g_servers', x) <=> Contains(g_servers, x) \/ x = s
  BY <1>1, <1>2, <1>3, AppendOnce
<1>5. /\ walk' \in Walk
      /\ walk'.at = walk.at /\ walk'.linked = walk.linked
      /\ walk.at = None => walk' = walk
      /\ walk.linked => /\ Once(walk'.ahead)
                        /\ \A x : Contains(walk'.ahead, x) => Contains(g_servers', x)
  <2>1. walk \in Walk /\ walk.ahead \in Seq(Servers)
        /\ walk = [at |-> walk.at, ahead |-> walk.ahead,
                   linked |-> walk.linked, stale |-> walk.stale]
    BY DEF TypeOK, Walk
  <2>2. CASE walk.at # None /\ walk.linked
    <3>1. /\ Once(walk.ahead) /\ ~Contains(walk.ahead, s)
          /\ \A x : Contains(walk.ahead, x) => Contains(g_servers, x)
      BY <2>2, <1>2 DEF WalkInList
    <3> DEFINE ahead == Append(walk.ahead, s)
    <3>2. /\ ahead \in Seq(Servers) /\ Once(ahead)
          /\ \A x : Contains(ahead, x) <=> Contains(walk.ahead, x) \/ x = s
      BY <3>1, <2>1, <1>2, AppendOnce
    <3> HIDE DEF ahead
    <3>3. walk' = [at |-> walk.at, ahead |-> ahead,
                   linked |-> walk.linked, stale |-> walk.stale]
      BY <1>1, <2>1, <2>2 DEF ahead
    <3>4. walk' \in Walk
      BY <3>2, <3>3, <2>1 DEF Walk
    <3>5. walk'.at = walk.at /\ walk'.linked = walk.linked /\ walk'.ahead = ahead
      BY <3>3
    <3>6. QED
      BY <2>2, <3>1, <3>2, <3>4, <3>5, <1>4
  <2>3. CASE ~(walk.at # None /\ walk.linked)
    <3>1. walk' = walk
      BY <1>1, <2>3
    <3>2. QED
      BY <3>1, <2>1, <1>4 DEF WalkInList
  <2>4. QED
    BY <2>2, <2>3
<1>6. TypeOK'
  BY <1>1, <1>2, <1>4, <1>5, InsideLemma DEF TypeOK, Once, Unlock
<1>7. SenderKnown'
  BY <1>1, <1>4 DEF SenderKnown
<1>8. WalkInList'
  BY <1>5 DEF WalkInList
<1>9. Exclusive' /\ WalkStill'
  <2>1. ~robbed' => ~robbed
    BY <1>1 DEF Unlock
  <2>2. ~robbed' => main' \notin {"wait", "walk"}
    BY <1>1, <2>1, KeepsOut
  <2>3. QED
    BY <1>1, <2>1, <2>2, InsideLemma DEF Exclusive, WalkStill
<1>10. QED
  BY <1>6, <1>7, <1>8, <1>9

\* last_heard_from, the last device of an INIT, the first unlock of a STATUS.
LEMMA ListenerGoesOn == IndInv /\ (HearServer \/ DroppedAll \/ StatusUnlock) => IndInv'
<1> SUFFICES ASSUME IndInv, HearServer \/ DroppedAll \/ StatusUnlock PROVE IndInv'
  OBVIOUS
<1>1. /\ listener \notin {"select", "add", "adding"}
      /\ listener' \in {"select", "init", "quit", "status", "updating"}
      /\ UNCHANGED <<g_servers, devices, main, walk, message>>
      /\ Unlock("listener")
  BY DEF HearServer, DroppedAll, StatusUnlock, IndInv, TypeOK, Message, Kinds
<1>2. SenderKnown'
  BY <1>1 DEF IndInv, SenderKnown
<1>3. QED
  BY <1>1, <1>2, InsideLemma, ListenerWithoutList DEF IndInv, TypeOK

\* STATUS: the devices the client does not know are added.
LEMMA UpdateDevicesStep == IndInv /\ UpdateDevices => IndInv'
<1> SUFFICES ASSUME IndInv, UpdateDevices PROVE IndInv'
  OBVIOUS
<1>1. devices' \in [Servers -> SUBSET Devices] /\ message \in Message
  BY DEF UpdateDevices, AddDevices, IndInv, TypeOK, Message
<1>2. SenderKnown'
  BY DEF UpdateDevices, IndInv, SenderKnown
<1>3. QED
  BY <1>1, <1>2, ListenerWithoutList DEF UpdateDevices

\* INIT: a device is taken off the sender's list.
LEMMA DropDeviceStep ==
  ASSUME IndInv, NEW d \in Devices, DropDevice(d)
  PROVE  IndInv'
<1> USE DEF IndInv, DropDevice
<1>1. /\ devices' \in [Servers -> SUBSET Devices]
      /\ UNCHANGED <<g_servers, mutex, robbed, main, listener, message>>
  BY DEF TypeOK, Message
<1>2. walk' \in Walk /\ UNCHANGED <<walk.at, walk.ahead, walk.linked>>
  BY DEF TypeOK, Walk
<1>3. TypeOK' /\ SenderKnown' /\ WalkInList' /\ Exclusive'
  BY <1>1, <1>2 DEF TypeOK, SenderKnown, WalkInList, Exclusive
<1>4. WalkStill'
  BY <1>1, KeepsOut DEF WalkStill
<1>5. QED
  BY <1>3, <1>4

\* rm_server() leaves the others on the list, each of them once, or nobody; and
\* a walk over the list does not meet a server that is not on it.
LEMMA RmServerLemma ==
  ASSUME IndInv, NEW s \in Servers, RmServer(s)
  PROVE  /\ g_servers' \in Seq(Servers) /\ Once(g_servers')
         /\ walk' \in Walk /\ WalkInList'
<1>1. g_servers \in Seq(Servers) /\ Once(g_servers)
  BY DEF IndInv, TypeOK, Once
<1>2. /\ walk \in Walk /\ walk.ahead \in Seq(Servers)
      /\ walk = [at |-> walk.at, ahead |-> walk.ahead,
                 linked |-> walk.linked, stale |-> walk.stale]
      /\ walk.linked \in BOOLEAN /\ walk.stale \in BOOLEAN
  BY DEF IndInv, TypeOK, Walk
<1> DEFINE ahead == IF walk.linked THEN RemoveFirst(walk.ahead, s) ELSE walk.ahead
           stale == IF walk.linked THEN walk.stale \/ walk.at = s ELSE walk.stale
<1>3. WalkWithout(s) = [at |-> walk.at, ahead |-> ahead,
                        linked |-> walk.linked, stale |-> stale]
  BY <1>2 DEF WalkWithout
<1>4. walk.linked =>
        /\ ahead \in Seq(Servers) /\ Once(ahead)
        /\ \A x : Contains(ahead, x) <=> Contains(walk.ahead, x) /\ x # s
        /\ \A x : Contains(walk.ahead, x) => Contains(g_servers, x)
  <2> SUFFICES ASSUME walk.linked
               PROVE  /\ ahead \in Seq(Servers) /\ Once(ahead)
                      /\ \A x : Contains(ahead, x) <=> Contains(walk.ahead, x) /\ x # s
                      /\ \A x : Contains(walk.ahead, x) => Contains(g_servers, x)
    OBVIOUS
  <2>1. Once(walk.ahead) /\ \A x : Contains(walk.ahead, x) => Contains(g_servers, x)
    BY DEF IndInv, WalkInList
  <2>2. LET new == RemoveFirst(walk.ahead, s)
        IN  /\ new \in Seq(Servers) /\ Once(new)
            /\ \A x : Contains(new, x) <=> Contains(walk.ahead, x) /\ x # s
    BY <2>1, <1>2, RemoveFirstLemma
  <2>3. QED
    BY <2>1, <2>2
<1>5. ahead \in Seq(Servers) /\ stale \in BOOLEAN
  BY <1>2, <1>4
<1>6. walk.at = None => ahead = <<>>
  <2> SUFFICES ASSUME walk.at = None PROVE ahead = <<>>
    OBVIOUS
  <2>1. walk.ahead = <<>>
    BY DEF IndInv, WalkInList
  <2>2. RemoveFirst(<<>>, s) = <<>>
    BY DEF RemoveFirst
  <2>3. QED
    BY <2>1, <2>2
<1>7. Once(<<>>) /\ <<>> \in Seq(Servers) /\ \A x : ~Contains(<<>>, x)
  BY DEF Once, Contains
<1> HIDE DEF ahead, stale
<1>8. CASE Head(g_servers) = s
  <2>1. /\ g_servers' = <<>>
        /\ walk' = [at |-> walk.at, ahead |-> ahead,
                    linked |-> (walk.at = None), stale |-> stale]
    BY <1>3, <1>8 DEF RmServer
  <2>2. walk' \in Walk
    BY <2>1, <1>2, <1>5 DEF Walk
  <2>3. walk'.at = walk.at /\ walk'.ahead = ahead /\ walk'.linked = (walk.at = None)
    BY <2>1
  <2>4. WalkInList'
    BY <2>3, <1>6, <1>7 DEF WalkInList
  <2>5. QED
    BY <2>1, <2>2, <2>4, <1>7
<1>9. CASE Head(g_servers) # s
  <2>1. /\ g_servers' = RemoveFirst(g_servers, s)
        /\ walk' = [at |-> walk.at, ahead |-> ahead,
                    linked |-> walk.linked, stale |-> stale]
    BY <1>3, <1>9 DEF RmServer
  <2>2. /\ g_servers' \in Seq(Servers) /\ Once(g_servers')
        /\ \A x : Contains(g_servers', x) <=> Contains(g_servers, x) /\ x # s
    BY <2>1, <1>1, RemoveFirstLemma
  <2>3. walk' \in Walk
    BY <2>1, <1>2, <1>5 DEF Walk
  <2>4. walk'.at = walk.at /\ walk'.ahead = ahead /\ walk'.linked = walk.linked
    BY <2>1
  <2>5. WalkInList'
    BY <2>2, <2>4, <1>4, <1>6 DEF WalkInList
  <2>6. QED
    BY <2>2, <2>3, <2>5
<1>10. QED
  BY <1>8, <1>9

\* QUIT
LEMMA QuitServerStep == IndInv /\ QuitServer => IndInv'
<1> SUFFICES ASSUME IndInv, QuitServer PROVE IndInv'
  OBVIOUS
<1>1. /\ listener = "quitting" /\ RmServer(message.from) /\ Unlock("listener")
      /\ listener' = "select" /\ UNCHANGED <<devices, main, message>>
  BY DEF QuitServer
<1>2. /\ g_servers' \in Seq(Servers) /\ Once(g_servers')
      /\ walk' \in Walk /\ WalkInList'
  <2>1. message.from \in Servers
    BY DEF IndInv, TypeOK, Message
  <2>2. QED
    BY <1>1, <2>1, RmServerLemma
<1>3. TypeOK'
  BY <1>1, <1>2 DEF IndInv, TypeOK, Once, Unlock
<1>4. SenderKnown'
  BY <1>1 DEF SenderKnown
<1>5. Exclusive' /\ WalkStill'
  <2>1. ~robbed' => ~robbed
    BY <1>1 DEF Unlock
  <2>2. ~robbed' => main' \notin {"wait", "walk"}
    BY <1>1, <2>1, KeepsOut
  <2>3. QED
    BY <1>1, <2>1, <2>2, InsideLemma DEF Exclusive, WalkStill
<1>6. QED
  BY <1>2, <1>3, <1>4, <1>5 DEF IndInv

-----------------------------------------------------------------------------
(***************************************************************************)
(* The theorems.                                                           *)
(***************************************************************************)
\* No step of either thread breaks the invariant.
LEMMA StepIndInv == IndInv /\ [Next]_vars => IndInv'
<1> SUFFICES ASSUME IndInv, [Next]_vars PROVE IndInv'
  OBVIOUS
<1>1. CASE MainStep
  BY <1>1, MainIndInv
<1>2. CASE ListenerStep
  <2>1. CASE ListenerLock
    BY <2>1, ListenerLockStep
  <2>2. CASE AddServer
    BY <2>2, AddServerStep
  <2>3. CASE HearServer \/ DroppedAll \/ StatusUnlock
    BY <2>3, ListenerGoesOn
  <2>4. CASE \E d \in Devices : DropDevice(d)
    BY <2>4, DropDeviceStep
  <2>5. CASE QuitServer
    BY <2>5, QuitServerStep
  <2>6. CASE UpdateDevices
    BY <2>6, UpdateDevicesStep
  <2>7. QED
    BY <1>2, <2>1, <2>2, <2>3, <2>4, <2>5, <2>6 DEF ListenerStep
<1>3. CASE \E s \in Servers, kind \in Kinds, body \in SUBSET Devices :
             Receive(s, kind, body)
  BY <1>3, ReceiveStep
<1>4. CASE UNCHANGED vars
  BY <1>4 DEF vars, IndInv, TypeOK, SenderKnown, WalkInList, Exclusive, WalkStill, Rest
<1>5. QED
  BY <1>1, <1>2, <1>3, <1>4 DEF Next

\* The invariant holds.
LEMMA InvariantLemma == Spec => []IndInv
<1>1. Init => IndInv
  BY InitIndInv
<1>2. IndInv /\ [Next]_vars => IndInv'
  BY StepIndInv
<1>3. QED
  BY <1>1, <1>2, PTL DEF Spec

\* client.c, listen_status.c, list_fns.c: the client's variables have their types,
\* a walk over freed memory included, and although get_server() reads the list
\* without the mutex no server is on it twice.
THEOREM TypeTheorem == Spec => []TypeOK
<1>1. IndInv => TypeOK
  BY DEF IndInv
<1>2. QED
  BY <1>1, InvariantLemma, PTL

\* client.c:91-114: until somebody unlocks a mutex that is not theirs, the list
\* stands still under main()'s feet: what it prints next has not been freed, and
\* is the rest of the list, however many servers and devices there are.
THEOREM WalkTheorem == Spec => []WalkIntact
<1>1. IndInv => WalkIntact
  BY DEF IndInv, Exclusive, WalkStill, Rest, WalkIntact
<1>2. QED
  BY <1>1, InvariantLemma, PTL

=============================================================================
