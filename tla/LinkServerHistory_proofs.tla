----------------------- MODULE LinkServerHistory_proofs -----------------------
(***************************************************************************)
(* Proofs about LinkServerHistory: every attempt to dial is given its      *)
(* whole connect timeout, if the scripts can be started (if system()       *)
(* itself fails, an attempt is made and not stamped: list_fns.c:605); and  *)
(* nobody's wait is dialled for more than 1 + g_retries times.             *)
(***************************************************************************)
EXTENDS LinkServerHistory, LinkServerScripts_proofs

\* The age the code compares with the timeout, connect_time's, is never more than
\* the age of the last attempt.
DialInv ==
    /\ dial_age \in [Devices -> Age]
    /\ \A d \in Devices :
         device[d].status = "CONNECTING" => device[d].connect_age <= dial_age[d]

\* What is left of the retries of a link that is dialled, and what was made of them,
\* are not more than there were.
AttemptInv ==
    /\ attempts \in [Devices -> Nat]
    /\ AttemptsBounded
    /\ \A d \in Devices :
         device[d].status = "CONNECTING" => attempts[d] + device[d].retries <= g_retries

-----------------------------------------------------------------------------
\* The history adds nothing to what the server does and forbids nothing.
LEMMA HistoryStepLemma == HistoryNext => Next
BY DEF HistoryNext, Next

\* A behaviour with the history is one of the server.
LEMMA ServerLemma == HistorySpec => Spec
<1>1. HistoryInit => Init
  BY DEF HistoryInit
<1>2. [HistoryNext]_allVars => [Next]_vars
  BY HistoryStepLemma DEF allVars, vars
<1>3. QED
  BY <1>1, <1>2, PTL DEF HistorySpec, Spec

\* Saturating ages keep their order when a second passes.
LEMMA OlderLemma == \A a, b \in Age : a <= b => Older(a) <= Older(b)
BY TimeoutAssumption DEF Age, Older

\* A second passes for both ages, and no script runs.
LEMMA TickDialLemma ==
  ASSUME IInv, DialInv, Tick, Record([age \in Age |-> Older(age)])
  PROVE  DialInv'
<1>1. device \in [Devices -> Device] /\ dial_age \in [Devices -> Age]
  BY DEF IInv, TypeOK, DialInv
<1>2. \A d \in Devices : ~RunsScript(d, "up")
  BY DEF Tick, Quiet, RunsScript
<1>3. dial_age' = [d \in Devices |-> Older(dial_age[d])]
  <2>1. \A d \in Devices : [age \in Age |-> Older(age)][dial_age[d]] = Older(dial_age[d])
    BY <1>1
  <2>2. QED
    BY <1>2, <2>1 DEF Record
<1>4. dial_age' \in [Devices -> Age]
  BY <1>1, <1>3, AgeLemma
<1>5. ASSUME NEW d \in Devices, device'[d].status = "CONNECTING"
      PROVE  device'[d].connect_age <= dial_age'[d]
  <2>1. device'[d] = [device[d] EXCEPT !.connect_age = Older(@)]
    BY DEF Tick
  <2>2. /\ device[d] \in Device /\ device[d].connect_age \in Age
        /\ device'[d].status = device[d].status
        /\ device'[d].connect_age = Older(device[d].connect_age)
    BY <1>1, <2>1 DEF Device
  <2>3. device[d].connect_age <= dial_age[d] /\ dial_age[d] \in Age
    BY <1>1, <1>5, <2>2 DEF DialInv
  <2>4. QED
    BY <1>3, <2>2, <2>3, OlderLemma
<1>6. QED
  BY <1>4, <1>5 DEF DialInv

\* In any other step no time passes: a link that is dialled gets both stamps, and one
\* that goes on connecting keeps both.
LEMMA StepDialLemma ==
  ASSUME Startable, IInv, DialInv, Start \/ ServerStep \/ Crash \/ Terminate,
         Record([age \in Age |-> age])
  PROVE  DialInv'
<1>1. /\ device \in [Devices -> Device] /\ device' \in [Devices -> Device]
      /\ dial_age \in [Devices -> Age]
  BY NextLemma DEF IInv, TypeOK, DialInv, Next
<1>2. dial_age' = [d \in Devices |-> IF RunsScript(d, "up") THEN 0 ELSE dial_age[d]]
  <2>1. \A d \in Devices : [age \in Age |-> age][dial_age[d]] = dial_age[d]
    BY <1>1
  <2>2. QED
    BY <2>1 DEF Record
<1>3. dial_age' \in [Devices -> Age]
  BY <1>1, <1>2, AgeLemma
<1>4. \A d \in Devices : dial_age'[d] >= 0
  BY <1>3 DEF Age
<1>5. ASSUME NEW d \in Devices, device'[d].status = "CONNECTING"
      PROVE  device'[d].connect_age <= dial_age'[d]
  <2>1. CASE UNCHANGED device /\ ran' = <<>>
    <3>1. ~RunsScript(d, "up")
      BY <2>1 DEF RunsScript
    <3>2. QED
      BY <1>1, <1>2, <1>5, <2>1, <3>1 DEF DialInv
  <2>2. CASE OneCall
    <3>1. PICK e \in Devices, scripts \in Runnable : CallsFor(e, scripts)
      BY <2>2 DEF OneCall
    <3>2. RunsScript(d, "up") <=> d = e /\ scripts \in Dialling
      BY <3>1, RunsScriptLemma DEF CallsFor
    <3>3. CASE device'[d].connect_age = 0
      BY <1>4, <3>3
    <3>4. CASE device'[d].connect_age # 0
      <4>1. /\ device[d].status = "CONNECTING" /\ ~RunsScript(d, "up")
            /\ device'[d].connect_age = device[d].connect_age
        <5>1. CASE d = e
          <6>1. Stamps(device[d], device'[d], scripts)
            BY <3>1, <5>1 DEF CallsFor, Proper
          <6>2. QED
            BY <1>5, <3>2, <3>4, <6>1 DEF Stamps
        <5>2. CASE d # e
          BY <1>5, <3>1, <3>2, <5>2 DEF CallsFor
        <5>3. QED
          BY <5>1, <5>2
      <4>2. QED
        BY <1>2, <4>1 DEF DialInv
    <3>5. QED
      BY <3>3, <3>4
  <2>3. CASE Ends
    BY <1>5, <2>3, NewDeviceLemma DEF Ends, NewDevice
  <2>4. QED
    BY <2>1, <2>2, <2>3, ServerCallLemma DEF Still
<1>6. QED
  BY <1>3, <1>5 DEF DialInv

\* Initially no link is connecting, and a step keeps the two ages in order.
LEMMA DialInvLemma ==
  /\ HistoryInit => DialInv
  /\ Startable /\ IInv /\ DialInv /\ [HistoryNext]_allVars => DialInv'
<1>1. HistoryInit => DialInv
  BY AgeLemma DEF HistoryInit, Init, NewDevice, DialInv
<1>2. ASSUME Startable, IInv, DialInv, HistoryNext
      PROVE  DialInv'
  BY <1>2, TickDialLemma, StepDialLemma DEF HistoryNext
<1>3. DialInv /\ UNCHANGED allVars => DialInv'
  BY DEF DialInv, allVars, vars
<1>4. QED
  BY <1>1, <1>2, <1>3

\* Only timeout_old_devices() runs a script while the sweep over the links is under
\* way.
LEMMA SweepRunsLemma ==
  ASSUME IInv, HistoryNext, pc = "devices", ran' # <<>>
  PROVE  \E e \in Devices, cmd \in Commands : TimeoutOldDevice(e, cmd)
BY DEF HistoryNext, Tick, Start, ServerStep, Crash, Terminate, TestKeepGoing,
      ClientSpeaks, ClientUp, ClientDown, ClientForceDown, ClientAsks, ClientPing,
      FromClient, PeerSpeaks, PeerIsUp, PeerIsDown, FromPeer, NothingToDo,
      SelectInterrupted, BroadcastStatus, Sweep, TimeoutOldClient, ExpireFromDevice,
      FreeClient, ClientsSwept, DevicesSwept, Quit, Exit, Quiet

\* And only for a link it found overdue.
LEMMA OvertakenLemma ==
  ASSUME IInv, HistoryNext, NEW d \in Devices, Overtaken(d)
  PROVE  Overdue(device[d])
<1>1. pc = "devices" /\ \E x \in {"up", "force"} : RunsScript(d, x)
  BY DEF Overtaken
<1>2. ran' # <<>>
  BY <1>1 DEF RunsScript
<1>3. PICK e \in Devices, cmd \in Commands : TimeoutOldDevice(e, cmd)
  BY <1>1, <1>2, SweepRunsLemma
<1> DEFINE r == IF Overdue(device[e])
                THEN AlterDeviceStatus(device[e], device[e].status, cmd)
                ELSE Done(device[e])
<1>4. ran' = [i \in DOMAIN r.ran |-> <<e, r.ran[i]>>]
  BY <1>3 DEF TimeoutOldDevice, Alter
<1>5. Overdue(device[e])
  <2>1. ~Overdue(device[e]) => r.ran = <<>>
    BY RanLemma
  <2> HIDE DEF r
  <2>2. r.ran # <<>>
    BY <1>2, <1>4
  <2>3. QED
    BY <2>1, <2>2
<1> HIDE DEF r
<1>6. d = e
  BY <1>1, <1>4 DEF RunsScript
<1>7. QED
  BY <1>5, <1>6

\* list_fns.c:121-123, for any timeouts, clients, links and retries, and whatever the
\* exit status of a script, as long as scripts can be started: the sweep redials or
\* gives up a link only when more than g_connect_timeout has passed since it was last
\* dialled.
THEOREM AttemptTheorem == Startable /\ HistorySpec => AttemptGetsItsTime
<1>1. ASSUME IInv, DialInv, HistoryNext, NEW d \in Devices,
             Overtaken(d), device[d].status = "CONNECTING"
      PROVE  dial_age[d] > g_connect_timeout
  <2>1. device[d].connect_age > g_connect_timeout
    BY <1>1, OvertakenLemma DEF Overdue
  <2>2. device[d].connect_age <= dial_age[d]
    BY <1>1 DEF DialInv
  <2>3. dial_age[d] \in Int /\ device[d].connect_age \in Int /\ g_connect_timeout \in Int
    BY <1>1, TimeoutAssumption DEF DialInv, IInv, TypeOK, Device, Age
  <2>4. QED
    BY <2>1, <2>2, <2>3
<1> DEFINE Given == \A d \in Devices :
                      Overtaken(d) /\ device[d].status = "CONNECTING"
                      => dial_age[d] > g_connect_timeout
<1>2. IInv /\ DialInv /\ [HistoryNext]_allVars => [Given]_allVars
  BY <1>1
<1> SUFFICES ASSUME Startable PROVE HistorySpec => AttemptGetsItsTime
  OBVIOUS
<1>3. HistorySpec => []IInv
  BY ServerLemma, InvariantTheorem, PTL
<1>4. HistoryInit => DialInv
  BY DialInvLemma
<1>5. IInv /\ DialInv /\ [HistoryNext]_allVars => DialInv'
  BY DialInvLemma
<1>6. QED
  BY <1>2, <1>3, <1>4, <1>5, PTL DEF HistorySpec, AttemptGetsItsTime

-----------------------------------------------------------------------------
\* The sweep redials a link that is being dialled and has retries left.
LEMMA SweepCountsLemma ==
  ASSUME IInv, HistoryNext, pc = "devices", NEW d \in Devices, RunsScript(d, "up")
  PROVE  GoesOn(device[d], device'[d], <<"up">>)
<1>1. ran' # <<>>
  BY DEF RunsScript
<1>2. PICK e \in Devices, cmd \in Commands : TimeoutOldDevice(e, cmd)
  BY <1>1, SweepRunsLemma
<1> DEFINE dv == device[e]
           r  == IF Overdue(dv) THEN AlterDeviceStatus(dv, dv.status, cmd) ELSE Done(dv)
<1>3. dv \in Device /\ (dv.status = "DISCONNECTING" => dv.clients_connected = {})
  BY DEF IInv, TypeOK, DisconnectingUnused, Users
<1>4. Proper(dv, r.dev, r.ran) /\ GoesOn(dv, r.dev, r.ran)
  BY <1>3, TimeoutOrderlyLemma
<1>5. Alter(e, r, client, g_clients)
  BY <1>2 DEF TimeoutOldDevice
<1> HIDE DEF r
<1>6. r.ran \in Runnable /\ Runs(e, r.ran)
  BY <1>4, <1>5 DEF Proper, Orderly, Alter, Runs
<1>7. d = e /\ r.ran \in Dialling
  BY <1>6, RunsScriptLemma
<1>8. device'[d] = r.dev
  <2>1. device \in [Devices -> Device] /\ device' = [device EXCEPT ![e] = r.dev]
    BY <1>5 DEF IInv, TypeOK, Alter
  <2>2. QED
    BY <1>7, <2>1
<1>9. <<"up">> \in Dialling
  BY DEF Dialling
<1>10. QED
  BY <1>4, <1>7, <1>8, <1>9 DEF GoesOn

\* What was counted and what is left add up, over any step, for one link.
LEMMA AttemptStepLemma ==
  ASSUME IInv, AttemptInv, HistoryNext, NEW d \in Devices
  PROVE  /\ attempts'[d] \in Nat
         /\ attempts'[d] = 0 \/ attempts'[d] <= 1 + g_retries
         /\ device'[d].status = "CONNECTING" =>
              attempts'[d] + device'[d].retries <= g_retries
<1> DEFINE old == device[d]
           new == device'[d]
           n   == attempts[d]
           m   == attempts'[d]
<1>1. /\ old \in Device /\ new \in Device /\ Next
  <2>1. Next /\ IInv'
    BY HistoryStepLemma, NextLemma
  <2>2. QED
    BY <2>1 DEF IInv, TypeOK
<1>2. old.retries \in Int /\ new.retries \in Int /\ g_retries \in Int
  BY <1>1, RetriesAssumption DEF Device
<1>3. /\ n \in Nat /\ (n = 0 \/ n <= 1 + g_retries)
      /\ old.status = "CONNECTING" => n + old.retries <= g_retries
  BY DEF AttemptInv, AttemptsBounded
<1>4. m = CASE ~RunsScript(d, "up") -> n
            [] RunsScript(d, "up") /\ pc # "devices" -> 1
            [] RunsScript(d, "up") /\ pc = "devices" -> OneMore(n)
  BY DEF HistoryNext, Record
<1>5. CASE pc' = "exited" /\ new = NewDevice /\ ran' = <<>>
  <2>1. ~RunsScript(d, "up")
    BY <1>5 DEF RunsScript
  <2>2. m = n /\ new.status # "CONNECTING"
    BY <1>4, <1>5, <2>1 DEF NewDevice
  <2>3. QED
    BY <1>3, <2>2
<1>6. ASSUME NEW scripts \in Runnable, Tells(d, scripts)
      PROVE  /\ m \in Nat /\ (m = 0 \/ m <= 1 + g_retries)
             /\ new.status = "CONNECTING" => m + new.retries <= g_retries
  <2>1. /\ StartsOver(old, new, scripts) \/ GoesOn(old, new, scripts)
        /\ RunsScript(d, "up") <=> scripts \in Dialling
    BY <1>6 DEF Tells, Orderly, Counts
  <2> HIDE DEF old, new, n, m
  <2>2. CASE ~RunsScript(d, "up")
    <3>1. m = n /\ scripts \notin Dialling
      BY <1>4, <2>1, <2>2
    <3>2. CASE StartsOver(old, new, scripts)
      BY <1>2, <1>3, <3>1, <3>2 DEF StartsOver
    <3>3. CASE GoesOn(old, new, scripts)
      BY <1>2, <1>3, <3>1, <3>3 DEF GoesOn
    <3>4. QED
      BY <2>1, <3>2, <3>3
  <2>3. CASE RunsScript(d, "up") /\ pc # "devices"
    <3>1. m = 1 /\ scripts \in Dialling
      BY <1>4, <2>1, <2>3
    <3>2. CASE StartsOver(old, new, scripts)
      BY <1>2, <3>1, <3>2 DEF StartsOver
    <3>3. CASE GoesOn(old, new, scripts)
      BY <1>2, <1>3, <3>1, <3>3 DEF GoesOn
    <3>4. QED
      BY <2>1, <3>2, <3>3
  <2>4. CASE RunsScript(d, "up") /\ pc = "devices"
    <3>1. m = OneMore(n)
      BY <1>4, <2>4
    <3>2. GoesOn(old, new, <<"up">>) /\ <<"up">> \in Dialling
      BY <2>4, SweepCountsLemma DEF Dialling, old, new
    <3>3. /\ old.status = "CONNECTING" /\ old.retries >= 0
          /\ new.retries < old.retries
      BY <3>2 DEF GoesOn
    <3>4. n + old.retries <= g_retries
      BY <1>3, <3>3
    <3>5. m = n + 1
      BY <1>2, <1>3, <3>1, <3>3, <3>4 DEF OneMore
    <3>6. QED
      BY <1>2, <1>3, <3>3, <3>4, <3>5
  <2>5. QED
    BY <2>2, <2>3, <2>4
<1>7. QED
  BY <1>1, <1>5, <1>6, LinkLemma

\* Initially nothing is counted, and every step keeps the count.
LEMMA AttemptInvLemma ==
  /\ HistoryInit => AttemptInv
  /\ IInv /\ AttemptInv /\ [HistoryNext]_allVars => AttemptInv'
<1>1. HistoryInit => AttemptInv
  BY DEF HistoryInit, Init, NewDevice, AttemptInv, AttemptsBounded
<1>2. ASSUME IInv, AttemptInv, HistoryNext
      PROVE  AttemptInv'
  <2>1. DOMAIN attempts' = Devices /\ attempts' = [d \in Devices |-> attempts'[d]]
    BY <1>2 DEF HistoryNext, Record
  <2>2. attempts' \in [Devices -> Nat]
    BY <1>2, <2>1, AttemptStepLemma
  <2>3. QED
    BY <1>2, <2>2, AttemptStepLemma DEF AttemptInv, AttemptsBounded
<1>3. AttemptInv /\ UNCHANGED allVars => AttemptInv'
  BY DEF AttemptInv, AttemptsBounded, allVars, vars
<1>4. QED
  BY <1>1, <1>2, <1>3

\* list_fns.c:600-606 and 115-145, for any number of retries, clients and links, and
\* whatever the scripts return: a link somebody asked for is dialled once and then at
\* most g_retries times more.
THEOREM AttemptsTheorem == HistorySpec => []AttemptsBounded
<1>1. AttemptInv => AttemptsBounded
  BY DEF AttemptInv
<1>2. HistorySpec => []IInv
  BY ServerLemma, InvariantTheorem, PTL
<1>3. QED
  BY <1>1, <1>2, AttemptInvLemma, PTL DEF HistorySpec

=============================================================================
