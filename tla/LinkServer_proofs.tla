------------------------- MODULE LinkServer_proofs -------------------------
(***************************************************************************)
(* Proofs about LinkServer, for every set of clients and devices, every    *)
(* timeout, every number of retries and every behaviour of the scripts.    *)
(***************************************************************************)
EXTENDS LinkServer, TLAPS

-----------------------------------------------------------------------------
(***************************************************************************)
(* What the link functions return.                                         *)
(***************************************************************************)
Scripts == {"up", "down", "force"}
Result  == [ok : BOOLEAN, dev : Device, cleared : BOOLEAN, ran : Seq(Scripts)]

\* A link function throws everybody off, and says so, or touches no user.
Sound(r, dv) ==
    /\ r \in Result
    /\ r.dev.clients_connected = IF r.cleared THEN {} ELSE dv.clients_connected

\* Ageing by a second stays within 0 .. MaxAge, and so do the two stamps that
\* the code assigns, "now" and "long ago" (list_fns.c:137-138).
LEMMA AgeLemma == 0 \in Age /\ MaxAge \in Age /\ \A age \in Age : Older(age) \in Age
BY TimeoutAssumption DEF Age, Older

\* Counting one attempt down leaves an integer (list_fns.c:601).
LEMMA FewerLemma == \A n \in Int : Fewer(n) \in Int
BY DEF Fewer

\* Assigning to one field of a device_t leaves the others.
LEMMA AssignLemma ==
  ASSUME NEW dv \in Device, NEW status \in Status, NEW age \in Age,
         NEW users \in SUBSET Clients, NEW retries \in Int
  PROVE  /\ [dv EXCEPT !.status = status] \in Device
         /\ [dv EXCEPT !.connect_age = age] \in Device
         /\ [dv EXCEPT !.clients_connected = users] \in Device
         /\ [dv EXCEPT !.retries = retries] \in Device
BY DEF Device

\* The two results that run no script, "nothing to do" and EINVAL, leave the
\* device as it was.
LEMMA DoneLemma ==
  ASSUME NEW dv \in Device
  PROVE  /\ Sound(Done(dv), dv) /\ Done(dv).ok /\ Done(dv).dev = dv
         /\ Sound(Invalid(dv), dv) /\ ~Invalid(dv).ok /\ Invalid(dv).dev = dv
<1>1. <<>> \in Seq(Scripts)
  OBVIOUS
<1>2. QED
  BY <1>1 DEF Done, Invalid, Sound, Returns, Result

\* link_up() touches connect_time only (list_fns.c:509-529).
LEMMA LinkUpLemma ==
  ASSUME NEW dv \in Device, NEW cmd \in Commands
  PROVE  Sound(LinkUp(dv, cmd), dv) /\ LinkUp(dv, cmd).dev.status = dv.status
<1> DEFINE age == IF cmd.up = "ok" THEN 0 ELSE dv.connect_age
<1>1. age \in Age
  BY AgeLemma DEF Device
<1>2. [dv EXCEPT !.connect_age = age] \in Device
  BY <1>1, AssignLemma DEF Device
<1>3. <<"up">> \in Seq(Scripts)
  BY DEF Scripts
<1>4. LinkUp(dv, cmd) = Returns(cmd.up # "error", [dv EXCEPT !.connect_age = age],
                                FALSE, <<"up">>)
  BY DEF LinkUp
<1>5. /\ [dv EXCEPT !.connect_age = age].status = dv.status
      /\ [dv EXCEPT !.connect_age = age].clients_connected = dv.clients_connected
  BY DEF Device
<1> HIDE DEF age
<1>6. LinkUp(dv, cmd) \in Result
  BY <1>2, <1>3, <1>4, SMT DEF Returns, Result
<1>7. /\ LinkUp(dv, cmd).dev = [dv EXCEPT !.connect_age = age]
      /\ LinkUp(dv, cmd).cleared = FALSE
  BY <1>4 DEF Returns
<1>8. QED
  BY <1>5, <1>6, <1>7 DEF Sound

\* link_down() touches connect_time only (list_fns.c:531-551).
LEMMA LinkDownLemma ==
  ASSUME NEW dv \in Device, NEW cmd \in Commands
  PROVE  Sound(LinkDown(dv, cmd), dv) /\ LinkDown(dv, cmd).dev.status = dv.status
<1> DEFINE age == IF cmd.down = "ok" THEN 0 ELSE dv.connect_age
<1>1. age \in Age
  BY AgeLemma DEF Device
<1>2. [dv EXCEPT !.connect_age = age] \in Device
  BY <1>1, AssignLemma DEF Device
<1>3. <<"down">> \in Seq(Scripts)
  BY DEF Scripts
<1>4. LinkDown(dv, cmd) = Returns(cmd.down # "error", [dv EXCEPT !.connect_age = age],
                                  FALSE, <<"down">>)
  BY DEF LinkDown
<1>5. /\ [dv EXCEPT !.connect_age = age].status = dv.status
      /\ [dv EXCEPT !.connect_age = age].clients_connected = dv.clients_connected
  BY DEF Device
<1> HIDE DEF age
<1>6. LinkDown(dv, cmd) \in Result
  BY <1>2, <1>3, <1>4, SMT DEF Returns, Result
<1>7. /\ LinkDown(dv, cmd).dev = [dv EXCEPT !.connect_age = age]
      /\ LinkDown(dv, cmd).cleared = FALSE
  BY <1>4 DEF Returns
<1>8. QED
  BY <1>5, <1>6, <1>7 DEF Sound

\* link_force_down() touches the user list only, and empties it exactly when it
\* has also taken the device off the clients' own lists (list_fns.c:553-576).
LEMMA LinkForceDownLemma ==
  ASSUME NEW dv \in Device, NEW cmd \in Commands
  PROVE  /\ Sound(LinkForceDown(dv, cmd), dv)
         /\ LinkForceDown(dv, cmd).dev.status = dv.status
<1> DEFINE users == IF cmd.force = "ok" THEN {} ELSE dv.clients_connected
<1>1. users \in SUBSET Clients
  BY DEF Device
<1>2. [dv EXCEPT !.clients_connected = users] \in Device
  BY <1>1, AssignLemma DEF Device
<1>3. <<"force">> \in Seq(Scripts)
  BY DEF Scripts
<1>4. LinkForceDown(dv, cmd) =
        Returns(cmd.force # "error", [dv EXCEPT !.clients_connected = users],
                cmd.force = "ok", <<"force">>)
  BY DEF LinkForceDown
<1>5. /\ [dv EXCEPT !.clients_connected = users].status = dv.status
      /\ [dv EXCEPT !.clients_connected = users].clients_connected = users
  BY DEF Device
<1>6. users = IF cmd.force = "ok" THEN {} ELSE dv.clients_connected
  OBVIOUS
<1> HIDE DEF users
<1>7. LinkForceDown(dv, cmd) \in Result
  BY <1>2, <1>3, <1>4, SMT DEF Returns, Result
<1>8. /\ LinkForceDown(dv, cmd).dev = [dv EXCEPT !.clients_connected = users]
      /\ LinkForceDown(dv, cmd).cleared = (cmd.force = "ok")
  BY <1>4 DEF Returns
<1>9. QED
  BY <1>5, <1>6, <1>7, <1>8 DEF Sound

\* The tail of alter_device_status() assigns the new status if all went well and
\* changes nothing else (list_fns.c:700-705).
LEMMA EnterLemma ==
  ASSUME NEW dv \in Device, NEW r, Sound(r, dv), NEW new \in Status
  PROVE  /\ Sound(Enter(r, new), dv)
         /\ Enter(r, new).ok = r.ok
         /\ Enter(r, new).dev.status = IF r.ok THEN new ELSE r.dev.status
<1>1. CASE r.ok
  <2> DEFINE x == [r.dev EXCEPT !.status = new]
  <2>1. r.dev \in Device /\ r.cleared \in BOOLEAN /\ r.ran \in Seq(Scripts)
    BY DEF Sound, Result
  <2>2. x \in Device /\ x.status = new
        /\ x.clients_connected = r.dev.clients_connected
    BY <2>1 DEF Device
  <2>3. Enter(r, new) = Returns(TRUE, x, r.cleared, r.ran)
    BY <1>1 DEF Enter
  <2> HIDE DEF x
  <2>4. QED
    BY <1>1, <2>1, <2>2, <2>3, SMT DEF Returns, Sound, Result
<1>2. CASE ~r.ok
  BY <1>2 DEF Enter
<1>3. QED
  BY <1>1, <1>2

\* alter_device_status (DOWN): if it succeeds the device is DOWN, otherwise it is
\* untouched (list_fns.c:671-690).
LEMMA ToDownLemma ==
  ASSUME NEW dv \in Device, NEW cmd \in Commands
  PROVE  /\ Sound(ToDown(dv, cmd), dv)
         /\ ToDown(dv, cmd).dev.status =
              IF ToDown(dv, cmd).ok THEN "DOWN" ELSE dv.status
BY DoneLemma, LinkForceDownLemma, EnterLemma DEF ToDown, Status

\* Stamping an attempt changes connect_time only (list_fns.c:603-605).
LEMMA StampLemma ==
  ASSUME NEW dv \in Device, NEW r, Sound(r, dv)
  PROVE  /\ Sound(Stamp(r), dv)
         /\ Stamp(r).ok = r.ok
         /\ Stamp(r).dev.status = r.dev.status
<1>1. CASE r.ok
  <2> DEFINE x == [r.dev EXCEPT !.connect_age = 0]
  <2>1. r.dev \in Device /\ r.cleared \in BOOLEAN /\ r.ran \in Seq(Scripts)
    BY DEF Sound, Result
  <2>2. x \in Device
    BY <2>1, AgeLemma DEF Device
  <2>3. /\ x.status = r.dev.status
        /\ x.clients_connected = r.dev.clients_connected
    BY <2>1 DEF Device
  <2>4. Stamp(r) = Returns(TRUE, x, r.cleared, r.ran)
    BY <1>1 DEF Stamp
  <2> HIDE DEF x
  <2>5. QED
    BY <1>1, <2>1, <2>2, <2>3, <2>4, SMT DEF Returns, Sound, Result
<1>2. CASE ~r.ok
  BY <1>2 DEF Stamp
<1>3. QED
  BY <1>1, <1>2

\* Setting or counting the retries leaves a device_t with the same status and
\* users (list_fns.c:599-601).
LEMMA RetriesLemma ==
  ASSUME NEW dv \in Device
  PROVE  /\ AllRetries(dv) \in Device
         /\ AllRetries(dv).status = dv.status
         /\ AllRetries(dv).clients_connected = dv.clients_connected
         /\ AllRetries(dv).retries = g_retries
         /\ [dv EXCEPT !.retries = Fewer(dv.retries)] \in Device
         /\ [dv EXCEPT !.retries = Fewer(dv.retries)].status = dv.status
         /\ [dv EXCEPT !.retries = Fewer(dv.retries)].clients_connected
              = dv.clients_connected
BY RetriesAssumption, FewerLemma DEF AllRetries, Device

\* One attempt to dial ends in CONNECTING with the users it had, in DOWN once the
\* retries are spent, or fails and leaves the status alone (list_fns.c:600-606).
LEMMA DialLemma ==
  ASSUME NEW dv \in Device, NEW cmd \in Commands
  PROVE  /\ Sound(Dial(dv, cmd), dv)
         /\ IF Dial(dv, cmd).ok
            THEN Dial(dv, cmd).dev.status \in {"CONNECTING", "DOWN"}
            ELSE Dial(dv, cmd).dev.status = dv.status
<1> DEFINE tried == [dv EXCEPT !.retries = Fewer(dv.retries)]
<1>1. /\ tried \in Device
      /\ tried.status = dv.status
      /\ tried.clients_connected = dv.clients_connected
  BY RetriesLemma
<1>2. Dial(dv, cmd) = IF dv.retries < 0 THEN ToDown(tried, cmd)
                      ELSE Enter(Stamp(LinkUp(tried, cmd)), "CONNECTING")
  BY DEF Dial
<1> HIDE DEF tried
<1>3. CASE dv.retries < 0
  BY <1>1, <1>2, <1>3, ToDownLemma DEF Sound
<1>4. CASE ~(dv.retries < 0)
  <2> DEFINE up == Stamp(LinkUp(tried, cmd))
  <2>1. Sound(up, tried) /\ up.dev.status = tried.status
    BY <1>1, LinkUpLemma, StampLemma
  <2>2. Dial(dv, cmd) = Enter(up, "CONNECTING")
    BY <1>2, <1>4
  <2> HIDE DEF up
  <2>3. "CONNECTING" \in Status
    BY DEF Status
  <2>4. /\ Sound(Enter(up, "CONNECTING"), tried)
        /\ Enter(up, "CONNECTING").ok = up.ok
        /\ Enter(up, "CONNECTING").dev.status =
             IF up.ok THEN "CONNECTING" ELSE up.dev.status
    BY <1>1, <2>1, <2>3, EnterLemma
  <2>5. QED
    BY <1>1, <2>1, <2>2, <2>4 DEF Sound
<1>5. QED
  BY <1>3, <1>4

\* Killing a link that is going down and dialling it again ends in CONNECTING or
\* DOWN, or fails in DISCONNECTING (list_fns.c:594-606).
LEMMA KillAndDialLemma ==
  ASSUME NEW dv \in Device, NEW cmd \in Commands
  PROVE  /\ Sound(KillAndDial(dv, cmd), dv)
         /\ IF KillAndDial(dv, cmd).ok
            THEN KillAndDial(dv, cmd).dev.status \in {"CONNECTING", "DOWN"}
            ELSE KillAndDial(dv, cmd).dev.status = dv.status
<1> DEFINE kill == LinkForceDown(dv, cmd)
           dial == Dial(AllRetries(kill.dev), cmd)
<1>1. Sound(kill, dv) /\ kill.dev.status = dv.status /\ kill.dev \in Device
  BY LinkForceDownLemma DEF Sound, Result
<1>2. /\ Sound(dial, AllRetries(kill.dev))
      /\ AllRetries(kill.dev).clients_connected = kill.dev.clients_connected
      /\ AllRetries(kill.dev).status = dv.status
      /\ IF dial.ok THEN dial.dev.status \in {"CONNECTING", "DOWN"}
                    ELSE dial.dev.status = dv.status
  BY <1>1, RetriesLemma, DialLemma
<1>3. KillAndDial(dv, cmd) = IF kill.ok THEN Then(kill, dial) ELSE kill
  BY DEF KillAndDial
<1> HIDE DEF kill, dial
<1>4. CASE kill.ok
  <2>1. KillAndDial(dv, cmd) = Then(kill, dial)
    BY <1>3, <1>4
  <2>2. kill.ran \o dial.ran \in Seq(Scripts)
    BY <1>1, <1>2 DEF Sound, Result
  <2>3. Then(kill, dial) \in Result
    BY <1>1, <1>2, <2>2, SMT DEF Then, Returns, Sound, Result
  <2>4. /\ Then(kill, dial).dev = dial.dev
        /\ Then(kill, dial).ok = dial.ok
        /\ Then(kill, dial).cleared = (kill.cleared \/ dial.cleared)
    BY DEF Then, Returns
  <2>5. QED
    BY <1>1, <1>2, <2>1, <2>3, <2>4 DEF Sound
<1>5. CASE ~kill.ok
  BY <1>1, <1>3, <1>5
<1>6. QED
  BY <1>4, <1>5

\* What alter_device_status (CONNECTING) can do in each of the four states
\* (list_fns.c:591-617).
LEMMA ToConnectingLemma ==
  ASSUME NEW dv \in Device, NEW cmd \in Commands
  PROVE  /\ Sound(ToConnecting(dv, cmd), dv)
         /\ IF ToConnecting(dv, cmd).ok
            THEN ToConnecting(dv, cmd).dev.status \in {"CONNECTING", "DOWN"}
            ELSE ToConnecting(dv, cmd).dev.status = dv.status
         /\ dv.status = "UP" => ~ToConnecting(dv, cmd).ok
<1>1. CASE dv.status = "CONNECTING"
  BY <1>1, DialLemma DEF ToConnecting
<1>2. CASE dv.status = "DOWN"
  <2>1. ToConnecting(dv, cmd) = Dial(AllRetries(dv), cmd)
    BY <1>2 DEF ToConnecting
  <2>2. /\ AllRetries(dv) \in Device
        /\ AllRetries(dv).status = dv.status
        /\ AllRetries(dv).clients_connected = dv.clients_connected
    BY RetriesLemma
  <2>3. /\ Sound(ToConnecting(dv, cmd), AllRetries(dv))
        /\ IF ToConnecting(dv, cmd).ok
           THEN ToConnecting(dv, cmd).dev.status \in {"CONNECTING", "DOWN"}
           ELSE ToConnecting(dv, cmd).dev.status = AllRetries(dv).status
    BY <2>1, <2>2, DialLemma
  <2>4. QED
    BY <1>2, <2>2, <2>3 DEF Sound
<1>3. CASE dv.status = "DISCONNECTING"
  BY <1>3, KillAndDialLemma DEF ToConnecting
<1>4. CASE dv.status = "UP"
  BY <1>4, DoneLemma DEF ToConnecting
<1>5. QED
  BY <1>1, <1>2, <1>3, <1>4 DEF Device, Status

\* What alter_device_status (DISCONNECTING) can do in each of the four states
\* (list_fns.c:618-648).
LEMMA ToDisconnectingLemma ==
  ASSUME NEW dv \in Device, NEW cmd \in Commands
  PROVE  /\ Sound(ToDisconnecting(dv, cmd), dv)
         /\ IF ToDisconnecting(dv, cmd).ok
            THEN ToDisconnecting(dv, cmd).dev.status \in {"DISCONNECTING", "DOWN"}
            ELSE ToDisconnecting(dv, cmd).dev.status = dv.status
<1> "DISCONNECTING" \in Status /\ "DOWN" \in Status
  BY DEF Status
<1>1. CASE dv.status = "CONNECTING"
  BY <1>1, LinkForceDownLemma, EnterLemma DEF ToDisconnecting
<1>2. CASE dv.status = "UP"
  BY <1>2, LinkDownLemma, EnterLemma DEF ToDisconnecting
<1>3. CASE dv.status = "DISCONNECTING"
  BY <1>3, LinkForceDownLemma, EnterLemma DEF ToDisconnecting
<1>4. CASE dv.status = "DOWN"
  BY <1>4, DoneLemma DEF ToDisconnecting
<1>5. QED
  BY <1>1, <1>2, <1>3, <1>4 DEF Device, Status

\* alter_device_status (UP) succeeds out of CONNECTING only (list_fns.c:649-670).
LEMMA ToUpLemma ==
  ASSUME NEW dv \in Device
  PROVE  /\ Sound(ToUp(dv), dv)
         /\ ~ToUp(dv).cleared
         /\ IF ToUp(dv).ok
            THEN dv.status = "CONNECTING" /\ ToUp(dv).dev.status = "UP"
            ELSE ToUp(dv).dev = dv
<1>1. CASE dv.status = "CONNECTING"
  <2> DEFINE x == [dv EXCEPT !.connect_age = 0]
  <2>1. /\ x \in Device /\ x.status = dv.status
        /\ x.clients_connected = dv.clients_connected
    BY AgeLemma DEF Device
  <2>2. ToUp(dv) = Enter(Done(x), "UP")
    BY <1>1 DEF ToUp
  <2> HIDE DEF x
  <2>3. Sound(Done(x), x) /\ Done(x).ok /\ Done(x).cleared = FALSE
    BY <2>1, DoneLemma DEF Done, Returns
  <2>4. /\ Sound(Enter(Done(x), "UP"), x)
        /\ Enter(Done(x), "UP").ok = Done(x).ok
        /\ Enter(Done(x), "UP").dev.status = "UP"
    BY <2>1, <2>3, EnterLemma DEF Status
  <2>5. Enter(Done(x), "UP").cleared = FALSE
    BY <2>3 DEF Enter, Returns
  <2>6. QED
    BY <1>1, <2>1, <2>2, <2>3, <2>4, <2>5 DEF Sound
<1>2. CASE dv.status # "CONNECTING"
  BY <1>2, DoneLemma DEF ToUp, Invalid, Returns
<1>3. QED
  BY <1>1, <1>2

\* The first half of connect_client_to_device() leaves a link that has users as it
\* is, and otherwise ends in CONNECTING or DOWN, or fails and leaves the status
\* alone (list_fns.c:457-462).
LEMMA DialIfUnusedLemma ==
  ASSUME NEW dv \in Device, NEW cmd \in Commands
  PROVE  LET r == DialIfUnused(dv, cmd)
         IN  /\ Sound(r, dv)
             /\ \/ r.dev.status = dv.status /\ (r.ok => dv.clients_connected # {})
                \/ r.ok /\ r.dev.status \in {"CONNECTING", "DOWN"}
                   /\ dv.status # "UP"
<1> DEFINE r == DialIfUnused(dv, cmd)
<1>1. CASE dv.clients_connected = {}
  <2>1. r = ToConnecting(AllRetries(dv), cmd)
    BY <1>1 DEF DialIfUnused, AlterDeviceStatus
  <2>2. /\ AllRetries(dv) \in Device
        /\ AllRetries(dv).status = dv.status
        /\ AllRetries(dv).clients_connected = dv.clients_connected
    BY RetriesLemma
  <2>3. /\ Sound(r, AllRetries(dv))
        /\ IF r.ok THEN r.dev.status \in {"CONNECTING", "DOWN"}
                   ELSE r.dev.status = dv.status
        /\ dv.status = "UP" => ~r.ok
    BY <2>1, <2>2, ToConnectingLemma
  <2> HIDE DEF r
  <2>4. Sound(r, dv)
    BY <2>2, <2>3 DEF Sound
  <2>5. QED
    BY <2>3, <2>4 DEF r
<1>2. CASE dv.clients_connected # {}
  <2>1. r = Done(dv)
    BY <1>2 DEF DialIfUnused
  <2>2. QED
    BY <1>2, <2>1, DoneLemma
<1>3. QED
  BY <1>1, <1>2

\* The first half of disconnect_client_from_device() takes the client off the user
\* list even when the hang-up fails, and the link starts to go down only when that
\* list is empty (list_fns.c:485-498).
LEMMA HangUpIfLastLemma ==
  ASSUME NEW dv \in Device, NEW c \in Clients, NEW cmd \in Commands
  PROVE  LET r == HangUpIfLast(dv, c, cmd)
         IN  /\ r \in Result
             /\ r.dev.clients_connected =
                  IF r.cleared THEN {} ELSE dv.clients_connected \ {c}
             /\ \/ r.dev.status = dv.status
                \/ /\ r.ok
                   /\ r.dev.status \in {"DISCONNECTING", "DOWN"}
                   /\ dv.clients_connected = {c}
                   /\ r.dev.clients_connected = {}
<1> DEFINE left == [dv EXCEPT !.clients_connected = dv.clients_connected \ {c}]
           r    == HangUpIfLast(dv, c, cmd)
<1>1. /\ left \in Device
      /\ left.status = dv.status
      /\ left.clients_connected = dv.clients_connected \ {c}
  BY DEF Device
<1>2. r = IF c \in dv.clients_connected /\ left.clients_connected = {}
          THEN AlterDeviceStatus(left, "DISCONNECTING", cmd)
          ELSE Done(left)
  BY DEF HangUpIfLast
<1> SUFFICES /\ r \in Result
             /\ r.dev.clients_connected =
                  IF r.cleared THEN {} ELSE dv.clients_connected \ {c}
             /\ \/ r.dev.status = dv.status
                \/ /\ r.ok
                   /\ r.dev.status \in {"DISCONNECTING", "DOWN"}
                   /\ dv.clients_connected = {c}
                   /\ r.dev.clients_connected = {}
  OBVIOUS
<1> HIDE DEF left, r
<1>3. CASE c \in dv.clients_connected /\ left.clients_connected = {}
  <2>1. r = ToDisconnecting(left, cmd)
    BY <1>2, <1>3 DEF AlterDeviceStatus
  <2>2. /\ Sound(r, left)
        /\ IF r.ok THEN r.dev.status \in {"DISCONNECTING", "DOWN"}
                   ELSE r.dev.status = left.status
    BY <1>1, <2>1, ToDisconnectingLemma
  <2>3. dv.clients_connected = {c}
    BY <1>1, <1>3
  <2>4. QED
    BY <1>1, <1>3, <2>2, <2>3 DEF Sound
<1>4. CASE ~(c \in dv.clients_connected /\ left.clients_connected = {})
  <2>1. r = Done(left)
    BY <1>2, <1>4
  <2>2. QED
    BY <1>1, <2>1, DoneLemma DEF Sound
<1>5. QED
  BY <1>3, <1>4

-----------------------------------------------------------------------------
(***************************************************************************)
(* The two cross lists.  table and known stand for the client_t's and the  *)
(* g_clients list a handler works on, after process_client() has entered a *)
(* new client.                                                             *)
(***************************************************************************)
Tables == [Clients -> Client]

ListsOK(dev, table, known) ==
    /\ \A d \in Devices : \A c \in dev[d].clients_connected :
         c \in known /\ d \in table[c].devices_connected
    /\ \A c \in Clients \ known : table[c].devices_connected = {}

\* new is the table after the scripts have run: only d may have left a list, and
\* only if it was cleared.
Dropped(new, table, r, d) ==
    /\ new \in Tables
    /\ \A c \in Clients :
         /\ new[c].devices_connected \subseteq table[c].devices_connected
         /\ table[c].devices_connected \subseteq new[c].devices_connected \cup {d}
    /\ ~r.cleared => new = table

\* remove_device_from_all_clients() takes the device, and nothing else, off the
\* list of every known client (list_fns.c:377-397).
LEMMA AfterScriptsLemma ==
  ASSUME NEW r, NEW table \in Tables, NEW known, NEW d
  PROVE  Dropped(AfterScripts(r, d, table, known), table, r, d)
<1>1. CASE r.cleared
  <2>1. AfterScripts(r, d, table, known) = RemoveDeviceFromAllClients(table, known, d)
    BY <1>1 DEF AfterScripts
  <2> DEFINE new == RemoveDeviceFromAllClients(table, known, d)
  <2>2. new \in Tables
    BY DEF RemoveDeviceFromAllClients, Tables, Client
  <2>3. \A c \in Clients : new[c].devices_connected =
          IF c \in known THEN table[c].devices_connected \ {d}
                         ELSE table[c].devices_connected
    BY DEF RemoveDeviceFromAllClients, Tables, Client
  <2> HIDE DEF new
  <2>4. Dropped(new, table, r, d)
    BY <1>1, <2>2, <2>3 DEF Dropped
  <2>5. QED
    BY <2>1, <2>4 DEF new
<1>2. CASE ~r.cleared
  BY <1>2 DEF AfterScripts, Dropped
<1>3. QED
  BY <1>1, <1>2

\* Replacing one device by what a link function made of it, with no more users
\* than before and none if it was cleared, keeps the lists in order.
LEMMA AlterLemma ==
  ASSUME device \in [Devices -> Device],
         NEW table \in Tables, NEW known \in SUBSET Clients, NEW d \in Devices,
         NEW r \in Result,
         r.dev.clients_connected \subseteq device[d].clients_connected,
         r.cleared => r.dev.clients_connected = {},
         ListsOK(device, table, known),
         Alter(d, r, table, known)
  PROVE  /\ device' \in [Devices -> Device]
         /\ client' \in Tables
         /\ ListsOK(device', client', known)
         /\ device'[d] = r.dev
         /\ \A e \in Devices \ {d} : device'[e] = device[e]
<1>1. /\ device' = [device EXCEPT ![d] = r.dev]
      /\ client' = AfterScripts(r, d, table, known)
  BY DEF Alter
<1>2. r.dev \in Device
  BY DEF Result
<1>3. /\ device' \in [Devices -> Device]
      /\ device'[d] = r.dev
      /\ \A e \in Devices \ {d} : device'[e] = device[e]
  BY <1>1, <1>2
<1>4. Dropped(client', table, r, d)
  BY <1>1, AfterScriptsLemma
<1>5. ASSUME NEW e \in Devices, NEW c \in device'[e].clients_connected
      PROVE  c \in known /\ e \in client'[c].devices_connected
  <2>1. c \in Clients /\ c \in device[e].clients_connected
    BY <1>3 DEF Device
  <2>2. c \in known /\ e \in table[c].devices_connected
    BY <2>1 DEF ListsOK
  <2>3. e = d => ~r.cleared
    BY <1>3
  <2>4. QED
    BY <1>4, <2>1, <2>2, <2>3 DEF Dropped
<1>6. ASSUME NEW c \in Clients \ known
      PROVE  client'[c].devices_connected = {}
  BY <1>4 DEF ListsOK, Dropped
<1>7. QED
  BY <1>3, <1>4, <1>5, <1>6 DEF ListsOK, Dropped

\* The prologue of process_client().
LEMMA HeardLemma ==
  ASSUME client \in Tables, g_clients \in SUBSET Clients, NEW c \in Clients,
         ListsOK(device, client, g_clients)
  PROVE  /\ Heard(c) \in Tables
         /\ Known(c) \in SUBSET Clients
         /\ c \in Known(c)
         /\ ListsOK(device, Heard(c), Known(c))
<1>1. Heard(c) \in Tables
  BY AgeLemma DEF Heard, Tables, Client, NewClient
<1>2. \A x \in Clients : Heard(c)[x].devices_connected = client[x].devices_connected
  BY DEF Heard, Tables, Client, NewClient, ListsOK
<1>3. Known(c) \in SUBSET Clients /\ c \in Known(c) /\ g_clients \subseteq Known(c)
  BY DEF Known
<1>4. QED
  BY <1>1, <1>2, <1>3 DEF ListsOK

\* connect_client_to_device() keeps the cross lists in order: it enters the pair on
\* both sides or on neither (list_fns.c:451-477).
LEMMA ConnectLemma ==
  ASSUME device \in [Devices -> Device],
         NEW table \in Tables, NEW known \in SUBSET Clients,
         NEW c \in known, NEW d \in Devices, NEW cmd \in Commands,
         ListsOK(device, table, known),
         ConnectClientToDevice(c, d, cmd, table, known)
  PROVE  /\ device' \in [Devices -> Device]
         /\ client' \in Tables
         /\ ListsOK(device', client', known)
         /\ \A e \in Devices \ {d} : device'[e] = device[e]
         /\ \/ /\ device'[d].status = device[d].status
               /\ device'[d].clients_connected # {} => device[d].clients_connected # {}
            \/ device'[d].status \in {"CONNECTING", "DOWN"} /\ device[d].status # "UP"
<1> DEFINE r   == DialIfUnused(device[d], cmd)
           tbl == AfterScripts(r, d, table, known)
           dv  == [r.dev EXCEPT !.clients_connected = r.dev.clients_connected \cup {c}]
<1>1. /\ Sound(r, device[d])
      /\ \/ /\ r.dev.status = device[d].status
            /\ r.ok => device[d].clients_connected # {}
         \/ /\ r.ok
            /\ r.dev.status \in {"CONNECTING", "DOWN"}
            /\ device[d].status # "UP"
  BY DialIfUnusedLemma
<1>2. r \in Result /\ r.dev \in Device /\ c \in Clients
  BY <1>1 DEF Sound, Result
<1>3. Dropped(tbl, table, r, d)
  BY AfterScriptsLemma
<1>4. /\ dv \in Device
      /\ dv.status = r.dev.status
      /\ dv.clients_connected = r.dev.clients_connected \cup {c}
  BY <1>2 DEF Device
<1>5. /\ device' = [device EXCEPT ![d] = IF r.ok THEN dv ELSE r.dev]
      /\ client' = IF r.ok
                   THEN [tbl EXCEPT ![c].devices_connected = @ \cup {d}] ELSE tbl
  BY DEF ConnectClientToDevice
<1> HIDE DEF r, tbl, dv
<1>6. /\ device' \in [Devices -> Device]
      /\ device'[d] = IF r.ok THEN dv ELSE r.dev
      /\ \A e \in Devices \ {d} : device'[e] = device[e]
  BY <1>2, <1>4, <1>5
<1>7. /\ client' \in Tables
      /\ \A x \in Clients : client'[x].devices_connected =
           IF r.ok /\ x = c THEN tbl[x].devices_connected \cup {d}
                            ELSE tbl[x].devices_connected
  <2>1. CASE r.ok
    BY <1>2, <1>3, <1>5, <2>1 DEF Dropped, Tables, Client
  <2>2. CASE ~r.ok
    BY <1>3, <1>5, <2>2 DEF Dropped
  <2>3. QED
    BY <2>1, <2>2
<1>8. ASSUME NEW e \in Devices, NEW x \in device'[e].clients_connected
      PROVE  x \in known /\ e \in client'[x].devices_connected
  <2>1. x \in Clients
    BY <1>6 DEF Device
  <2>2. CASE e # d
    <3>1. x \in known /\ e \in table[x].devices_connected
      BY <1>6, <2>2 DEF ListsOK
    <3>2. QED
      BY <1>3, <1>7, <2>1, <2>2, <3>1 DEF Dropped
  <2>3. CASE e = d /\ x = c /\ r.ok
    BY <1>2, <1>7, <2>3
  <2>4. CASE e = d /\ ~(x = c /\ r.ok)
    <3>1. x \in r.dev.clients_connected
      BY <1>4, <1>6, <2>4
    <3>2. ~r.cleared /\ x \in device[d].clients_connected
      BY <1>1, <3>1 DEF Sound
    <3>3. x \in known /\ e \in table[x].devices_connected
      BY <2>4, <3>2 DEF ListsOK
    <3>4. QED
      BY <1>3, <1>7, <2>1, <3>2, <3>3 DEF Dropped
  <2>5. QED
    BY <2>2, <2>3, <2>4
<1>9. ASSUME NEW x \in Clients \ known
      PROVE  client'[x].devices_connected = {}
  BY <1>2, <1>3, <1>7 DEF ListsOK, Dropped
<1>10. \/ /\ device'[d].status = device[d].status
          /\ device'[d].clients_connected # {} => device[d].clients_connected # {}
       \/ device'[d].status \in {"CONNECTING", "DOWN"} /\ device[d].status # "UP"
  BY <1>1, <1>4, <1>6 DEF Sound
<1>11. QED
  BY <1>6, <1>7, <1>8, <1>9, <1>10 DEF ListsOK

\* disconnect_client_from_device() keeps the cross lists in order, although a
\* failing script leaves the device on the client's own list (list_fns.c:479-507).
LEMMA DisconnectLemma ==
  ASSUME device \in [Devices -> Device],
         NEW table \in Tables, NEW known \in SUBSET Clients,
         NEW c \in Clients, NEW d \in Devices, NEW cmd \in Commands,
         ListsOK(device, table, known),
         DisconnectClientFromDevice(c, d, cmd, table, known)
  PROVE  LET r == HangUpIfLast(device[d], c, cmd)
         IN  /\ device' \in [Devices -> Device]
             /\ client' \in Tables
             /\ ListsOK(device', client', known)
             /\ device'[d] = r.dev
             /\ \A e \in Devices \ {d} : device'[e] = device[e]
             /\ \A x \in Clients : client'[x].devices_connected
                                     \subseteq table[x].devices_connected
             /\ r.ok => d \notin client'[c].devices_connected
<1> DEFINE r   == HangUpIfLast(device[d], c, cmd)
           tbl == AfterScripts(r, d, table, known)
<1>1. /\ r \in Result
      /\ r.dev.clients_connected =
           IF r.cleared THEN {} ELSE device[d].clients_connected \ {c}
  BY HangUpIfLastLemma
<1>2. r.dev \in Device
  BY <1>1 DEF Result
<1>3. Dropped(tbl, table, r, d)
  BY AfterScriptsLemma
<1>4. /\ device' = [device EXCEPT ![d] = r.dev]
      /\ client' = IF r.ok
                   THEN [tbl EXCEPT ![c].devices_connected = @ \ {d}] ELSE tbl
  BY DEF DisconnectClientFromDevice
<1> SUFFICES /\ device' \in [Devices -> Device]
             /\ client' \in Tables
             /\ ListsOK(device', client', known)
             /\ device'[d] = r.dev
             /\ \A e \in Devices \ {d} : device'[e] = device[e]
             /\ \A x \in Clients : client'[x].devices_connected
                                     \subseteq table[x].devices_connected
             /\ r.ok => d \notin client'[c].devices_connected
  OBVIOUS
<1> HIDE DEF r, tbl
<1>5. /\ device' \in [Devices -> Device]
      /\ device'[d] = r.dev
      /\ \A e \in Devices \ {d} : device'[e] = device[e]
  BY <1>2, <1>4
<1>6. /\ client' \in Tables
      /\ \A x \in Clients : client'[x].devices_connected =
           IF r.ok /\ x = c THEN tbl[x].devices_connected \ {d}
                            ELSE tbl[x].devices_connected
  <2>1. CASE r.ok
    BY <1>3, <1>4, <2>1 DEF Dropped, Tables, Client
  <2>2. CASE ~r.ok
    BY <1>3, <1>4, <2>2 DEF Dropped
  <2>3. QED
    BY <2>1, <2>2
<1>7. ASSUME NEW e \in Devices, NEW x \in device'[e].clients_connected
      PROVE  x \in known /\ e \in client'[x].devices_connected
  <2>1. x \in Clients /\ x \in device[e].clients_connected
    BY <1>1, <1>5 DEF Device
  <2>2. x \in known /\ e \in table[x].devices_connected
    BY <2>1 DEF ListsOK
  <2>3. e = d => ~r.cleared /\ x # c
    BY <1>1, <1>5
  <2>4. QED
    BY <1>3, <1>6, <2>1, <2>2, <2>3 DEF Dropped
<1>8. ASSUME NEW x \in Clients \ known
      PROVE  client'[x].devices_connected = {}
  BY <1>3, <1>6 DEF ListsOK, Dropped
<1>9. /\ \A x \in Clients : client'[x].devices_connected
                              \subseteq table[x].devices_connected
      /\ r.ok => d \notin client'[c].devices_connected
  BY <1>3, <1>6 DEF Dropped
<1>10. QED
  BY <1>5, <1>6, <1>7, <1>8, <1>9 DEF ListsOK

-----------------------------------------------------------------------------
(***************************************************************************)
(* The inductive invariant.  NoDanglingClient is preserved by free() only  *)
(* because of ExpiredOff, and ExpiredOff by the walk over g_devices only   *)
(* because a user of a device has it on its list.                          *)
(***************************************************************************)
IInv == TypeOK /\ NoDanglingClient /\ DisconnectingUnused /\ ExpiredOff

\* NoDanglingClient, restated about any three values of the lists.
LEMMA ListsLemma == NoDanglingClient <=> ListsOK(device, client, g_clients)
BY DEF NoDanglingClient, ListsOK, Users

\* One device is replaced by one that is not going down, or is unused, or has no
\* new users and the old status.
LEMMA UnusedLemma ==
  ASSUME device \in [Devices -> Device], device' \in [Devices -> Device],
         DisconnectingUnused, NEW d \in Devices,
         \A e \in Devices \ {d} : device'[e] = device[e],
         device'[d].status = "DISCONNECTING" /\ device'[d].clients_connected # {}
           => /\ device[d].status = "DISCONNECTING"
              /\ device[d].clients_connected # {}
  PROVE  DisconnectingUnused'
BY DEF DisconnectingUnused, Users

\* What the process starts with has the right types (read_config.c:400-401).
LEMMA NewDeviceLemma ==
  /\ [d \in Devices |-> NewDevice] \in [Devices -> Device]
  /\ [c \in Clients |-> NewClient] \in Tables
BY AgeLemma DEF NewDevice, NewClient, Device, Client, Status, Tables

\* The inductive invariant holds of a process that has not started.
THEOREM InitLemma == Init => IInv
<1> SUFFICES ASSUME Init PROVE IInv
  OBVIOUS
<1>1. TypeOK
  BY NewDeviceLemma DEF Init, TypeOK, Tables
<1>2. NoDanglingClient /\ DisconnectingUnused /\ ExpiredOff
  BY DEF Init, NoDanglingClient, DisconnectingUnused, ExpiredOff, Users,
         NewDevice, NewClient
<1>3. QED
  BY <1>1, <1>2 DEF IInv

\* What the handlers of a datagram have in common.
LEMMA ReceiveLemma ==
  ASSUME IInv, pc = "select", pc' = "broadcast",
         g_clients' \in SUBSET Clients, g_clients \subseteq g_clients',
         UNCHANGED <<g_keep_going, clients_left, devices_left, leaving>>,
         device' \in [Devices -> Device], client' \in Tables,
         ListsOK(device', client', g_clients'), DisconnectingUnused'
  PROVE  IInv'
<1>1. TypeOK'
  BY DEF IInv, TypeOK, Tables
<1>2. NoDanglingClient'
  BY DEF NoDanglingClient, ListsOK, Users
<1>3. ExpiredOff'
  BY DEF ExpiredOff
<1>4. QED
  BY <1>1, <1>2, <1>3 DEF IInv

\* UP <device> preserves the invariant (process_client.c:49-62).
LEMMA ClientUpLemma ==
  ASSUME IInv, NEW c \in Clients, NEW d \in Devices, NEW cmd \in Commands,
         ClientUp(c, d, cmd)
  PROVE  IInv'
<1>1. /\ device \in [Devices -> Device] /\ client \in Tables
      /\ g_clients \in SUBSET Clients /\ DisconnectingUnused
      /\ ListsOK(device, client, g_clients)
  BY ListsLemma DEF IInv, TypeOK, Tables
<1>2. /\ Heard(c) \in Tables /\ Known(c) \in SUBSET Clients /\ c \in Known(c)
      /\ ListsOK(device, Heard(c), Known(c))
  BY <1>1, HeardLemma
<1>3. ConnectClientToDevice(c, d, cmd, Heard(c), Known(c))
  BY DEF ClientUp
<1>4. /\ device' \in [Devices -> Device]
      /\ client' \in Tables
      /\ ListsOK(device', client', Known(c))
      /\ \A e \in Devices \ {d} : device'[e] = device[e]
      /\ \/ /\ device'[d].status = device[d].status
            /\ device'[d].clients_connected # {} => device[d].clients_connected # {}
         \/ device'[d].status \in {"CONNECTING", "DOWN"} /\ device[d].status # "UP"
  BY <1>1, <1>2, <1>3, ConnectLemma
<1>5. DisconnectingUnused'
  BY <1>1, <1>4, UnusedLemma
<1>6. /\ pc = "select" /\ pc' = "broadcast" /\ g_clients' = Known(c)
      /\ g_clients \subseteq g_clients'
      /\ UNCHANGED <<g_keep_going, clients_left, devices_left, leaving>>
  BY DEF ClientUp, FromClient, Known
<1>7. QED
  BY <1>2, <1>4, <1>5, <1>6, ReceiveLemma

\* DOWN <device> preserves the invariant (process_client.c:63-77).
LEMMA ClientDownLemma ==
  ASSUME IInv, NEW c \in Clients, NEW d \in Devices, NEW cmd \in Commands,
         ClientDown(c, d, cmd)
  PROVE  IInv'
<1>1. /\ device \in [Devices -> Device] /\ client \in Tables
      /\ g_clients \in SUBSET Clients /\ DisconnectingUnused
      /\ ListsOK(device, client, g_clients)
  BY ListsLemma DEF IInv, TypeOK, Tables
<1>2. /\ Heard(c) \in Tables /\ Known(c) \in SUBSET Clients
      /\ ListsOK(device, Heard(c), Known(c))
  BY <1>1, HeardLemma
<1>3. DisconnectClientFromDevice(c, d, cmd, Heard(c), Known(c))
  BY DEF ClientDown
<1> DEFINE r == HangUpIfLast(device[d], c, cmd)
<1>4. /\ device' \in [Devices -> Device]
      /\ client' \in Tables
      /\ ListsOK(device', client', Known(c))
      /\ device'[d] = r.dev
      /\ \A e \in Devices \ {d} : device'[e] = device[e]
  BY <1>1, <1>2, <1>3, DisconnectLemma
<1>5. /\ r \in Result
      /\ r.dev.clients_connected =
           IF r.cleared THEN {} ELSE device[d].clients_connected \ {c}
      /\ \/ r.dev.status = device[d].status
         \/ r.dev.clients_connected = {}
  BY <1>1, HangUpIfLastLemma
<1> HIDE DEF r
<1>6. DisconnectingUnused'
  BY <1>1, <1>4, <1>5, UnusedLemma
<1>7. /\ pc = "select" /\ pc' = "broadcast" /\ g_clients' = Known(c)
      /\ g_clients \subseteq g_clients'
      /\ UNCHANGED <<g_keep_going, clients_left, devices_left, leaving>>
  BY DEF ClientDown, FromClient, Known
<1>8. QED
  BY <1>2, <1>4, <1>6, <1>7, ReceiveLemma

\* FORCE_DOWN <device> preserves the invariant, also when the script fails and the
\* user list is emptied without the clients' own lists (process_client.c:78-97).
LEMMA ClientForceDownLemma ==
  ASSUME IInv, NEW c \in Clients, NEW d \in Devices, NEW cmd \in Commands,
         ClientForceDown(c, d, cmd)
  PROVE  IInv'
<1>1. /\ device \in [Devices -> Device] /\ client \in Tables
      /\ g_clients \in SUBSET Clients /\ DisconnectingUnused
      /\ ListsOK(device, client, g_clients)
  BY ListsLemma DEF IInv, TypeOK, Tables
<1>2. /\ Heard(c) \in Tables /\ Known(c) \in SUBSET Clients
      /\ ListsOK(device, Heard(c), Known(c))
  BY <1>1, HeardLemma
<1> DEFINE down == ToDown(device[d], cmd)
           r    == IF down.ok THEN NoUsers(down) ELSE down
<1>3. Sound(down, device[d])
      /\ down.dev.status = IF down.ok THEN "DOWN" ELSE device[d].status
  BY <1>1, ToDownLemma
<1>4. Alter(d, r, Heard(c), Known(c))
  BY DEF ClientForceDown, AlterDeviceStatus
<1> HIDE DEF down
<1>5. /\ r \in Result
      /\ r.dev.clients_connected \subseteq device[d].clients_connected
      /\ r.cleared => r.dev.clients_connected = {}
      /\ r.dev.status = "DOWN" \/ r.dev.status = device[d].status
  <2>1. CASE down.ok
    <3> DEFINE x == [down.dev EXCEPT !.clients_connected = {}]
    <3>1. /\ x \in Device /\ x.clients_connected = {}
          /\ x.status = down.dev.status
          /\ down.cleared \in BOOLEAN /\ down.ran \in Seq(Scripts)
      BY <1>3 DEF Sound, Result, Device
    <3>2. r = Returns(down.ok, x, down.cleared, down.ran)
      BY <2>1 DEF NoUsers
    <3> HIDE DEF x, r
    <3>3. r \in Result
      BY <2>1, <3>1, <3>2, SMT DEF Returns, Result
    <3>4. r.dev = x
      BY <3>2 DEF Returns
    <3>5. QED
      BY <1>3, <2>1, <3>1, <3>3, <3>4
  <2>2. CASE ~down.ok
    BY <1>3, <2>2 DEF Sound
  <2>3. QED
    BY <2>1, <2>2
<1> HIDE DEF r
<1>6. /\ device' \in [Devices -> Device]
      /\ client' \in Tables
      /\ ListsOK(device', client', Known(c))
      /\ device'[d] = r.dev
      /\ \A e \in Devices \ {d} : device'[e] = device[e]
  BY <1>1, <1>2, <1>4, <1>5, AlterLemma
<1>7. DisconnectingUnused'
  BY <1>1, <1>5, <1>6, UnusedLemma
<1>8. /\ pc = "select" /\ pc' = "broadcast" /\ g_clients' = Known(c)
      /\ g_clients \subseteq g_clients'
      /\ UNCHANGED <<g_keep_going, clients_left, devices_left, leaving>>
  BY DEF ClientForceDown, FromClient, Known
<1>9. QED
  BY <1>2, <1>6, <1>7, <1>8, ReceiveLemma

\* The peer's datagrams: nobody new becomes a user, and the status is the old
\* one, UP or DOWN.
LEMMA FromPeerLemma ==
  ASSUME IInv, FromPeer, NEW d \in Devices, NEW r, Sound(r, device[d]),
         r.dev.status \in {device[d].status, "UP", "DOWN"},
         Alter(d, r, client, g_clients)
  PROVE  IInv'
<1>1. /\ device \in [Devices -> Device] /\ client \in Tables
      /\ g_clients \in SUBSET Clients /\ DisconnectingUnused
      /\ ListsOK(device, client, g_clients)
  BY ListsLemma DEF IInv, TypeOK, Tables
<1>2. /\ r \in Result
      /\ r.dev.clients_connected \subseteq device[d].clients_connected
      /\ r.cleared => r.dev.clients_connected = {}
  BY DEF Sound
<1>3. /\ device' \in [Devices -> Device]
      /\ client' \in Tables
      /\ ListsOK(device', client', g_clients)
      /\ device'[d] = r.dev
      /\ \A e \in Devices \ {d} : device'[e] = device[e]
  BY <1>1, <1>2, AlterLemma
<1>4. DisconnectingUnused'
  BY <1>1, <1>2, <1>3, UnusedLemma
<1>5. /\ pc = "select" /\ pc' = "broadcast" /\ g_clients' = g_clients
      /\ UNCHANGED <<g_keep_going, clients_left, devices_left, leaving>>
  BY DEF FromPeer
<1>6. QED
  BY <1>1, <1>3, <1>4, <1>5, ReceiveLemma

\* ISUP and ISDOWN preserve the invariant (process_peer.c:27-62).
LEMMA PeerLemma ==
  ASSUME IInv, NEW d \in Devices,
         PeerIsUp(d) \/ \E cmd \in Commands : PeerIsDown(d, cmd)
  PROVE  IInv'
<1>1. device[d] \in Device
  BY DEF IInv, TypeOK
<1>2. CASE PeerIsUp(d)
  <2>1. /\ Sound(ToUp(device[d]), device[d])
        /\ ToUp(device[d]).dev.status \in {device[d].status, "UP", "DOWN"}
    BY <1>1, ToUpLemma
  <2>2. QED
    BY <1>2, <2>1, FromPeerLemma DEF PeerIsUp
<1>3. ASSUME NEW cmd \in Commands, PeerIsDown(d, cmd)
      PROVE  IInv'
  <2>1. /\ Sound(ToDown(device[d], cmd), device[d])
        /\ ToDown(device[d], cmd).dev.status \in {device[d].status, "UP", "DOWN"}
    BY <1>1, ToDownLemma
  <2>2. FromPeer /\ Alter(d, ToDown(device[d], cmd), client, g_clients)
    BY <1>3 DEF PeerIsDown, AlterDeviceStatus
  <2>3. QED
    BY <2>1, <2>2, FromPeerLemma
<1>4. QED
  BY <1>2, <1>3

\* The datagrams that touch no device.
LEMMA AskLemma ==
  ASSUME IInv, NothingToDo \/ \E c \in Clients : ClientAsks(c) \/ ClientPing(c)
  PROVE  IInv'
<1>1. /\ device \in [Devices -> Device] /\ client \in Tables
      /\ g_clients \in SUBSET Clients /\ DisconnectingUnused
      /\ ListsOK(device, client, g_clients)
  BY ListsLemma DEF IInv, TypeOK, Tables
<1>2. CASE NothingToDo
  <2>1. DisconnectingUnused'
    BY <1>1, <1>2 DEF NothingToDo, DisconnectingUnused, Users
  <2>2. QED
    BY <1>1, <1>2, <2>1, ReceiveLemma DEF NothingToDo, FromPeer
<1>3. ASSUME NEW c \in Clients, ClientAsks(c) \/ ClientPing(c)
      PROVE  IInv'
  <2>1. /\ Heard(c) \in Tables /\ Known(c) \in SUBSET Clients
        /\ ListsOK(device, Heard(c), Known(c))
    BY <1>1, HeardLemma
  <2>2. device' = device /\ client' = Heard(c) /\ FromClient(c)
    BY <1>3 DEF ClientAsks, ClientPing
  <2>3. DisconnectingUnused'
    BY <1>1, <2>2 DEF DisconnectingUnused, Users
  <2>4. /\ pc = "select" /\ pc' = "broadcast" /\ g_clients' = Known(c)
        /\ g_clients \subseteq g_clients'
        /\ UNCHANGED <<g_keep_going, clients_left, devices_left, leaving>>
    BY <2>2 DEF FromClient, Known
  <2>5. QED
    BY <1>1, <2>1, <2>2, <2>3, <2>4, ReceiveLemma
<1>4. QED
  BY <1>2, <1>3

\* Steps of the loop that leave the devices and the clients alone and remove
\* nobody.
LEMMA LoopLemma ==
  ASSUME IInv,
         \/ Start \/ TestKeepGoing \/ SelectInterrupted \/ BroadcastStatus
         \/ ClientsSwept \/ DevicesSwept
  PROVE  IInv'
<1>1. /\ UNCHANGED <<device, client, g_clients, leaving>>
      /\ pc # "expire" /\ pc' # "expire"
      /\ clients_left' \subseteq g_clients \ {leaving}
      /\ devices_left' \subseteq Devices
      /\ g_keep_going' \in BOOLEAN
      /\ pc' \in {"while", "select", "broadcast", "clients", "devices", "quit"}
  BY NoClientAssumption
  DEF IInv, TypeOK, Start, TestKeepGoing, SelectInterrupted, BroadcastStatus,
      ClientsSwept, DevicesSwept, Quiet
<1>2. TypeOK'
  BY <1>1 DEF IInv, TypeOK
<1>3. NoDanglingClient' /\ DisconnectingUnused' /\ ExpiredOff'
  BY <1>1 DEF IInv, NoDanglingClient, DisconnectingUnused, ExpiredOff, Users
<1>4. QED
  BY <1>2, <1>3 DEF IInv

\* Visiting one client in timeout_old_clients() preserves the invariant: when its
\* removal starts no device has been passed yet (list_fns.c:331-334).
LEMMA TimeoutOldClientLemma ==
  ASSUME IInv, NEW c \in Clients, TimeoutOldClient(c)
  PROVE  IInv'
<1>1. TypeOK'
  BY NoClientAssumption DEF IInv, TypeOK, TimeoutOldClient, Quiet
<1>2. NoDanglingClient' /\ DisconnectingUnused'
  BY DEF IInv, NoDanglingClient, DisconnectingUnused, TimeoutOldClient, Users
<1>3. ExpiredOff'
  BY DEF IInv, TypeOK, ExpiredOff, TimeoutOldClient, Users
<1>4. QED
  BY <1>1, <1>2, <1>3 DEF IInv

\* Passing one more device keeps those already passed clear of the client, and
\* clears this one unless the sweep is given up.
LEMMA ExpireFromDeviceLemma ==
  ASSUME IInv, NEW d \in Devices, NEW cmd \in Commands, ExpireFromDevice(d, cmd)
  PROVE  IInv'
<1> DEFINE r == HangUpIfLast(device[d], leaving, cmd)
<1>1. /\ device \in [Devices -> Device] /\ client \in Tables
      /\ g_clients \in SUBSET Clients /\ DisconnectingUnused
      /\ ListsOK(device, client, g_clients)
      /\ leaving \in g_clients /\ leaving \in Clients
      /\ clients_left \subseteq g_clients \ {leaving}
      /\ devices_left \subseteq Devices /\ g_keep_going \in BOOLEAN
      /\ pc = "expire"
  BY ListsLemma DEF IInv, TypeOK, Tables, ExpireFromDevice
<1>2. DisconnectClientFromDevice(leaving, d, cmd, client, g_clients)
  BY DEF ExpireFromDevice
<1>3. /\ device' \in [Devices -> Device]
      /\ client' \in Tables
      /\ ListsOK(device', client', g_clients)
      /\ device'[d] = r.dev
      /\ \A e \in Devices \ {d} : device'[e] = device[e]
      /\ \A x \in Clients : client'[x].devices_connected
                              \subseteq client[x].devices_connected
      /\ r.ok => d \notin client'[leaving].devices_connected
  BY <1>1, <1>2, DisconnectLemma
<1>4. /\ r \in Result
      /\ r.dev.clients_connected =
           IF r.cleared THEN {} ELSE device[d].clients_connected \ {leaving}
      /\ \/ r.dev.status = device[d].status
         \/ r.dev.clients_connected = {}
  <2>1. device[d] \in Device /\ leaving \in Clients
    BY <1>1
  <2>2. QED
    BY <2>1, HangUpIfLastLemma
<1>5. /\ g_clients' = g_clients /\ g_keep_going' = g_keep_going
      /\ IF r.ok
         THEN /\ devices_left' = devices_left \ {d}
              /\ UNCHANGED <<pc, clients_left, leaving>>
         ELSE /\ devices_left' = Devices /\ pc' = "devices"
              /\ clients_left' = {} /\ leaving' = NoClient
  BY DEF ExpireFromDevice
<1> HIDE DEF r
<1>6. DisconnectingUnused'
  BY <1>1, <1>3, <1>4, UnusedLemma
<1>7. TypeOK'
  BY <1>1, <1>3, <1>5 DEF TypeOK, Tables
<1>8. NoDanglingClient'
  BY <1>3, <1>5 DEF NoDanglingClient, ListsOK, Users
<1>9. ExpiredOff'
  <2>1. CASE r.ok
    <3>1. /\ pc' = "expire" /\ leaving' = leaving
          /\ devices_left' = devices_left \ {d}
      BY <1>1, <1>5, <2>1
    <3>2. leaving \notin device'[d].clients_connected
      BY <1>3, <1>4
    <3>3. ASSUME NEW e \in Devices \ devices_left'
          PROVE  /\ leaving \notin device'[e].clients_connected
                 /\ e \notin client'[leaving].devices_connected
      <4>1. CASE e = d
        BY <1>3, <2>1, <3>2, <4>1
      <4>2. CASE e # d
        BY <1>1, <1>3, <3>1, <4>2 DEF IInv, ExpiredOff, Users
      <4>3. QED
        BY <4>1, <4>2
    <3>4. QED
      BY <3>1, <3>3 DEF ExpiredOff, Users
  <2>2. CASE ~r.ok
    BY <1>5, <2>2 DEF ExpiredOff
  <2>3. QED
    BY <2>1, <2>2
<1>10. QED
  BY <1>6, <1>7, <1>8, <1>9 DEF IInv

\* The free() is safe: no device is left to visit, so by ExpiredOff nothing
\* points to the client any more and it points to nothing.
LEMMA FreeClientLemma ==
  ASSUME IInv, FreeClient
  PROVE  IInv'
<1>1. /\ client \in Tables /\ leaving \in g_clients /\ leaving \in Clients
      /\ g_clients' = g_clients \ {leaving}
      /\ client' = [client EXCEPT ![leaving].heard_age = 0]
      /\ device' = device /\ pc' = "clients" /\ leaving' = NoClient
      /\ UNCHANGED <<g_keep_going, clients_left, devices_left>>
  BY DEF IInv, TypeOK, FreeClient, Tables
<1>2. /\ client' \in Tables
      /\ \A x \in Clients :
           client'[x].devices_connected = client[x].devices_connected
  BY <1>1, AgeLemma DEF Tables, Client
<1>3. TypeOK'
  BY <1>1, <1>2, NoClientAssumption DEF IInv, TypeOK, Tables
<1>4. \A e \in Devices : /\ leaving \notin device[e].clients_connected
                         /\ e \notin client[leaving].devices_connected
  BY DEF IInv, ExpiredOff, FreeClient, Users
<1>5. client[leaving].devices_connected = {}
  BY <1>1, <1>4 DEF Tables, Client
<1>6. NoDanglingClient'
  <2>1. ASSUME NEW e \in Devices, NEW x \in device'[e].clients_connected
        PROVE  x \in g_clients' /\ e \in client'[x].devices_connected
    BY <1>1, <1>2, <1>4 DEF IInv, TypeOK, NoDanglingClient, Users
  <2>2. ASSUME NEW x \in Clients \ g_clients'
        PROVE  client'[x].devices_connected = {}
    BY <1>1, <1>2, <1>5 DEF IInv, NoDanglingClient
  <2>3. QED
    BY <2>1, <2>2 DEF NoDanglingClient, Users
<1>7. DisconnectingUnused' /\ ExpiredOff'
  BY <1>1 DEF IInv, DisconnectingUnused, ExpiredOff, Users
<1>8. QED
  BY <1>3, <1>6, <1>7 DEF IInv

\* timeout_old_devices() redials, or kills what should have hung up; nobody is
\* waiting for the latter.
LEMMA TimeoutOldDeviceLemma ==
  ASSUME IInv, NEW d \in Devices, NEW cmd \in Commands, TimeoutOldDevice(d, cmd)
  PROVE  IInv'
<1> DEFINE r == IF Overdue(device[d])
                THEN AlterDeviceStatus(device[d], device[d].status, cmd)
                ELSE Done(device[d])
<1>1. /\ device \in [Devices -> Device] /\ client \in Tables
      /\ g_clients \in SUBSET Clients /\ DisconnectingUnused
      /\ ListsOK(device, client, g_clients)
  BY ListsLemma DEF IInv, TypeOK, Tables
<1>2. /\ Sound(r, device[d])
      /\ \/ r.dev.status \in {device[d].status, "CONNECTING", "DOWN"}
         \/ device[d].status = "DISCONNECTING"
  <2>1. CASE Overdue(device[d]) /\ device[d].status = "CONNECTING"
    <3>1. r = ToConnecting(device[d], cmd)
      BY <2>1 DEF AlterDeviceStatus
    <3>2. QED
      BY <1>1, <3>1, ToConnectingLemma
  <2>2. CASE Overdue(device[d]) /\ device[d].status = "DISCONNECTING"
    <3>1. r = ToDisconnecting(device[d], cmd)
      BY <2>2 DEF AlterDeviceStatus
    <3>2. QED
      BY <1>1, <2>2, <3>1, ToDisconnectingLemma
  <2>3. CASE ~Overdue(device[d])
    BY <1>1, <2>3, DoneLemma
  <2>4. QED
    BY <2>1, <2>2, <2>3 DEF Overdue
<1>3. Alter(d, r, client, g_clients)
  BY DEF TimeoutOldDevice
<1>4. /\ pc = "devices" /\ pc' \in {"devices", "while"}
      /\ devices_left' \subseteq devices_left
      /\ UNCHANGED <<g_clients, g_keep_going, clients_left, leaving>>
  BY DEF TimeoutOldDevice
<1> HIDE DEF r
<1>5. /\ r \in Result
      /\ r.dev.clients_connected \subseteq device[d].clients_connected
      /\ r.cleared => r.dev.clients_connected = {}
  BY <1>2 DEF Sound
<1>6. /\ device' \in [Devices -> Device]
      /\ client' \in Tables
      /\ ListsOK(device', client', g_clients)
      /\ device'[d] = r.dev
      /\ \A e \in Devices \ {d} : device'[e] = device[e]
  BY <1>1, <1>3, <1>5, AlterLemma
<1>7. DisconnectingUnused'
  <2>1. device[d].status = "DISCONNECTING" => device[d].clients_connected = {}
    BY <1>1 DEF DisconnectingUnused, Users
  <2>2. QED
    BY <1>1, <1>2, <1>5, <1>6, <2>1, UnusedLemma
<1>8. TypeOK'
  BY <1>4, <1>6 DEF IInv, TypeOK, Tables
<1>9. NoDanglingClient' /\ ExpiredOff'
  BY <1>4, <1>6 DEF NoDanglingClient, ListsOK, Users, ExpiredOff
<1>10. QED
  BY <1>7, <1>8, <1>9 DEF IInv

\* The end of the process, a signal and the passing of a second preserve the
\* invariant (server.c:180-200).
LEMMA SurroundingsLemma ==
  ASSUME IInv, Quit \/ Crash \/ Terminate \/ Tick
  PROVE  IInv'
<1>1. CASE Quit \/ Crash
  <2>1. /\ pc' = "exited" /\ g_clients' = {} /\ g_keep_going' = TRUE
        /\ clients_left' = {} /\ devices_left' = {} /\ leaving' = NoClient
        /\ device' = [d \in Devices |-> NewDevice]
        /\ client' = [c \in Clients |-> NewClient]
    BY <1>1 DEF Quit, Crash, Exit
  <2>2. TypeOK'
    BY <2>1, NewDeviceLemma DEF TypeOK, Tables
  <2>3. NoDanglingClient' /\ DisconnectingUnused' /\ ExpiredOff'
    BY <2>1 DEF NoDanglingClient, DisconnectingUnused, ExpiredOff, Users,
                NewDevice, NewClient
  <2>4. QED
    BY <2>2, <2>3 DEF IInv
<1>2. CASE Terminate
  BY <1>2 DEF IInv, TypeOK, NoDanglingClient, DisconnectingUnused, ExpiredOff,
              Users, Terminate, Quiet
<1>3. CASE Tick
  <2>1. /\ device' \in [Devices -> Device]
        /\ \A d \in Devices :
             /\ device'[d].status = device[d].status
             /\ device'[d].clients_connected = device[d].clients_connected
    BY <1>3, AgeLemma DEF IInv, TypeOK, Tick, Device
  <2>2. /\ client' \in [Clients -> Client]
        /\ \A c \in Clients :
             client'[c].devices_connected = client[c].devices_connected
    BY <1>3, AgeLemma DEF IInv, TypeOK, Tick, Client
  <2>3. UNCHANGED <<g_clients, g_keep_going, pc, clients_left, devices_left,
                    leaving>>
    BY <1>3 DEF Tick
  <2>4. TypeOK'
    BY <2>1, <2>2, <2>3 DEF IInv, TypeOK
  <2>5. NoDanglingClient'
    BY <2>1, <2>2, <2>3 DEF IInv, TypeOK, NoDanglingClient, Users, Device
  <2>6. DisconnectingUnused'
    BY <2>1 DEF IInv, DisconnectingUnused, Users
  <2>7. ExpiredOff'
    BY <2>1, <2>2, <2>3 DEF IInv, TypeOK, ExpiredOff, Users
  <2>8. QED
    BY <2>4, <2>5, <2>6, <2>7 DEF IInv
<1>4. QED
  BY <1>1, <1>2, <1>3

\* Every step of the server preserves the invariant.
LEMMA NextLemma == IInv /\ [Next]_vars => IInv'
<1> SUFFICES ASSUME IInv, [Next]_vars PROVE IInv'
  OBVIOUS
<1>1. CASE ClientSpeaks \/ PeerSpeaks \/ NothingToDo
  BY <1>1, ClientUpLemma, ClientDownLemma, ClientForceDownLemma, PeerLemma,
     AskLemma DEF ClientSpeaks, PeerSpeaks
<1>2. CASE \/ Start \/ TestKeepGoing \/ SelectInterrupted \/ BroadcastStatus
           \/ ClientsSwept \/ DevicesSwept
  BY <1>2, LoopLemma
<1>3. CASE Sweep
  BY <1>2, <1>3, TimeoutOldClientLemma, ExpireFromDeviceLemma, FreeClientLemma,
     TimeoutOldDeviceLemma DEF Sweep
<1>4. CASE Quit \/ Crash \/ Terminate \/ Tick
  BY <1>4, SurroundingsLemma
<1>5. CASE UNCHANGED vars
  BY <1>5 DEF IInv, TypeOK, NoDanglingClient, DisconnectingUnused, ExpiredOff,
              Users, vars
<1>6. QED
  BY <1>1, <1>2, <1>3, <1>4, <1>5 DEF Next, ServerStep

-----------------------------------------------------------------------------
(***************************************************************************)
(* The theorems.                                                           *)
(***************************************************************************)
\* IInv holds in every reachable state of the server.
THEOREM InvariantTheorem == Spec => []IInv
BY InitLemma, NextLemma, PTL DEF Spec

\* The types of server.h's client_t and device_t, and which client is being
\* removed when: with any number of clients and devices.
THEOREM TypeTheorem == Spec => []TypeOK
<1>1. IInv => TypeOK
  BY DEF IInv
<1>2. QED
  BY <1>1, InvariantTheorem, PTL

\* No device_t ever points to a client_t that was freed, and none of the nodes of
\* a freed client's list is lost (list_fns.c:317-341), whatever the scripts do.
THEOREM NoDanglingTheorem == Spec => []NoDanglingClient
<1>1. IInv => NoDanglingClient
  BY DEF IInv
<1>2. QED
  BY <1>1, InvariantTheorem, PTL

\* A client being removed has let go of every device the walk over g_devices has
\* passed (list_fns.c:399-419), whatever the scripts do.
THEOREM ExpiredOffTheorem == Spec => []ExpiredOff
<1>1. IInv => ExpiredOff
  BY DEF IInv
<1>2. QED
  BY <1>1, InvariantTheorem, PTL

\* Nobody is ever a user of a link that is going down (list_fns.c:479-507).
THEOREM DisconnectingTheorem == Spec => []DisconnectingUnused
<1>1. IInv => DisconnectingUnused
  BY DEF IInv
<1>2. QED
  BY <1>1, InvariantTheorem, PTL

-----------------------------------------------------------------------------
(***************************************************************************)
(* The state diagram of a link (README.states): what one step of the       *)
(* server, or of its surroundings, may do to it.                           *)
(***************************************************************************)
Transition(old, new) ==
    \/ new.status \in {old.status, "DOWN"}
    \/ old.status = "CONNECTING" /\ new.status = "UP"
    \/ old.status # "UP" /\ new.status = "CONNECTING"
    \/ /\ new.status = "DISCONNECTING"
       /\ \E c \in Clients : old.clients_connected = {c}
       /\ new.clients_connected = {}

\* One device makes a transition, the others stay.
LEMMA OneTransitionLemma ==
  ASSUME NEW d \in Devices, NEW r,
         device \in [Devices -> Device],
         device' = [device EXCEPT ![d] = r],
         Transition(device[d], r)
  PROVE  \A e \in Devices : Transition(device[e], device'[e])
<1>1. ASSUME NEW e \in Devices
      PROVE  Transition(device[e], device'[e])
  <2>1. CASE e = d
    <3>1. device'[e] = r
      BY <2>1
    <3>2. QED
      BY <2>1, <3>1
  <2>2. CASE e # d
    <3>1. device'[e] = device[e]
      BY <2>2
    <3>2. QED
      BY <3>1 DEF Transition
  <2>3. QED
    BY <2>1, <2>2
<1>2. QED
  BY <1>1

\* A client leaving a link makes only the transitions of the table.
LEMMA HangUpTransitionLemma ==
  ASSUME device \in [Devices -> Device], NEW c \in Clients, NEW d \in Devices,
         NEW cmd \in Commands, NEW table, NEW known,
         DisconnectClientFromDevice(c, d, cmd, table, known)
  PROVE  \A e \in Devices : Transition(device[e], device'[e])
<1> DEFINE r == HangUpIfLast(device[d], c, cmd)
<1>1. device[d] \in Device
  OBVIOUS
<1>2. \/ r.dev.status = device[d].status
      \/ /\ r.ok
         /\ r.dev.status \in {"DISCONNECTING", "DOWN"}
         /\ device[d].clients_connected = {c}
         /\ r.dev.clients_connected = {}
  BY <1>1, HangUpIfLastLemma
<1>3. device' = [device EXCEPT ![d] = r.dev]
  BY DEF DisconnectClientFromDevice
<1> HIDE DEF r
<1>4. Transition(device[d], r.dev)
  BY <1>2 DEF Transition
<1>5. QED
  BY <1>3, <1>4, OneTransitionLemma

\* A client joining a link makes only the transitions of the table.
LEMMA DialTransitionLemma ==
  ASSUME device \in [Devices -> Device], NEW c \in Clients, NEW d \in Devices,
         NEW cmd \in Commands, NEW table, NEW known,
         ConnectClientToDevice(c, d, cmd, table, known)
  PROVE  \A e \in Devices : Transition(device[e], device'[e])
<1> DEFINE r  == DialIfUnused(device[d], cmd)
           dv == [r.dev EXCEPT !.clients_connected = r.dev.clients_connected \cup {c}]
<1>1. device[d] \in Device
  OBVIOUS
<1>2. /\ r.dev \in Device
      /\ \/ r.dev.status = device[d].status
         \/ r.dev.status \in {"CONNECTING", "DOWN"} /\ device[d].status # "UP"
  BY <1>1, DialIfUnusedLemma DEF Sound, Result
<1>3. dv.status = r.dev.status
  BY <1>2 DEF Device
<1>4. device' = [device EXCEPT ![d] = IF r.ok THEN dv ELSE r.dev]
  BY DEF ConnectClientToDevice
<1> HIDE DEF r, dv
<1>5. Transition(device[d], IF r.ok THEN dv ELSE r.dev)
  BY <1>2, <1>3 DEF Transition
<1>6. QED
  BY <1>4, <1>5, OneTransitionLemma

\* A datagram or a timeout that calls alter_device_status() directly makes only the
\* transitions of the table, if the call does.
LEMMA AlterTransitionLemma ==
  ASSUME device \in [Devices -> Device], NEW d \in Devices, NEW r,
         NEW table, NEW known,
         Transition(device[d], r.dev), Alter(d, r, table, known)
  PROVE  \A e \in Devices : Transition(device[e], device'[e])
<1>1. device' = [device EXCEPT ![d] = r.dev]
  BY DEF Alter
<1>2. QED
  BY <1>1, OneTransitionLemma

\* FORCE_DOWN ends in DOWN or changes no status.
LEMMA ForceDownTransitionLemma ==
  ASSUME device \in [Devices -> Device], NEW c \in Clients, NEW d \in Devices,
         NEW cmd \in Commands, ClientForceDown(c, d, cmd)
  PROVE  \A e \in Devices : Transition(device[e], device'[e])
<1> DEFINE down == ToDown(device[d], cmd)
           r    == IF down.ok THEN NoUsers(down) ELSE down
<1>1. Alter(d, r, Heard(c), Known(c))
  BY DEF ClientForceDown, AlterDeviceStatus
<1>2. /\ down.dev \in Device
      /\ down.dev.status = IF down.ok THEN "DOWN" ELSE device[d].status
  BY ToDownLemma DEF Sound, Result
<1> HIDE DEF down
<1>3. r.dev.status \in {device[d].status, "DOWN"}
  BY <1>2 DEF NoUsers, Returns, Device
<1> HIDE DEF r
<1>4. Transition(device[d], r.dev)
  BY <1>3 DEF Transition
<1>5. QED
  BY <1>1, <1>4, AlterTransitionLemma

\* A timeout redials, gives up, or ends a hang-up.
LEMMA TimeoutTransitionLemma ==
  ASSUME device \in [Devices -> Device], NEW d \in Devices,
         NEW cmd \in Commands, TimeoutOldDevice(d, cmd)
  PROVE  \A e \in Devices : Transition(device[e], device'[e])
<1> DEFINE r == IF Overdue(device[d])
                THEN AlterDeviceStatus(device[d], device[d].status, cmd)
                ELSE Done(device[d])
<1>1. Alter(d, r, client, g_clients)
  BY DEF TimeoutOldDevice
<1>2. device[d] \in Device
  OBVIOUS
<1>3. CASE Overdue(device[d]) /\ device[d].status = "CONNECTING"
  <2>1. r = ToConnecting(device[d], cmd)
    BY <1>3 DEF AlterDeviceStatus
  <2>2. r.dev.status \in {"CONNECTING", "DOWN"}
    BY <1>2, <1>3, <2>1, ToConnectingLemma
  <2> HIDE DEF r
  <2>3. Transition(device[d], r.dev)
    BY <1>3, <2>2 DEF Transition
  <2>4. QED
    BY <1>1, <2>3, AlterTransitionLemma
<1>4. CASE Overdue(device[d]) /\ device[d].status = "DISCONNECTING"
  <2>1. r = ToDisconnecting(device[d], cmd)
    BY <1>4 DEF AlterDeviceStatus
  <2>2. r.dev.status \in {"DISCONNECTING", "DOWN"}
    BY <1>2, <1>4, <2>1, ToDisconnectingLemma
  <2> HIDE DEF r
  <2>3. Transition(device[d], r.dev)
    BY <1>4, <2>2 DEF Transition
  <2>4. QED
    BY <1>1, <2>3, AlterTransitionLemma
<1>5. CASE ~Overdue(device[d])
  <2>1. r.dev.status = device[d].status
    BY <1>2, <1>5, DoneLemma
  <2> HIDE DEF r
  <2>2. Transition(device[d], r.dev)
    BY <2>1 DEF Transition
  <2>3. QED
    BY <1>1, <2>2, AlterTransitionLemma
<1>6. QED
  BY <1>3, <1>4, <1>5 DEF Overdue

\* Every step of the server makes only the transitions of the table.
LEMMA TransitionLemma ==
  IInv /\ [Next]_vars => \A d \in Devices : Transition(device[d], device'[d])
<1> SUFFICES ASSUME IInv, [Next]_vars
             PROVE  \A d \in Devices : Transition(device[d], device'[d])
  OBVIOUS
<1>1. device \in [Devices -> Device]
  BY DEF IInv, TypeOK
<1>2. CASE UNCHANGED device
  BY <1>2 DEF Transition
<1>3. ASSUME NEW c \in Clients, NEW d \in Devices, NEW cmd \in Commands,
             ClientUp(c, d, cmd) \/ ClientDown(c, d, cmd) \/ ClientForceDown(c, d, cmd)
      PROVE  \A e \in Devices : Transition(device[e], device'[e])
  BY <1>1, <1>3, DialTransitionLemma, HangUpTransitionLemma,
     ForceDownTransitionLemma DEF ClientUp, ClientDown
<1>4. ASSUME NEW d \in Devices, PeerIsUp(d)
      PROVE  \A e \in Devices : Transition(device[e], device'[e])
  <2>1. Alter(d, ToUp(device[d]), client, g_clients) /\ device[d] \in Device
    BY <1>1, <1>4 DEF PeerIsUp
  <2>2. \/ ToUp(device[d]).dev.status = device[d].status
        \/ device[d].status = "CONNECTING" /\ ToUp(device[d]).dev.status = "UP"
    BY <2>1, ToUpLemma
  <2>3. Transition(device[d], ToUp(device[d]).dev)
    BY <2>2 DEF Transition
  <2>4. QED
    BY <1>1, <2>1, <2>3, AlterTransitionLemma
<1>5. ASSUME NEW d \in Devices, NEW cmd \in Commands, PeerIsDown(d, cmd)
      PROVE  \A e \in Devices : Transition(device[e], device'[e])
  <2>1. Alter(d, ToDown(device[d], cmd), client, g_clients) /\ device[d] \in Device
    BY <1>1, <1>5 DEF PeerIsDown, AlterDeviceStatus
  <2>2. ToDown(device[d], cmd).dev.status \in {device[d].status, "DOWN"}
    BY <2>1, ToDownLemma
  <2>3. Transition(device[d], ToDown(device[d], cmd).dev)
    BY <2>2 DEF Transition
  <2>4. QED
    BY <1>1, <2>1, <2>3, AlterTransitionLemma
<1>6. CASE ClientSpeaks \/ PeerSpeaks
  BY <1>2, <1>3, <1>4, <1>5, <1>6 DEF ClientSpeaks, PeerSpeaks, ClientAsks, ClientPing
<1>7. ASSUME NEW d \in Devices, NEW cmd \in Commands, ExpireFromDevice(d, cmd)
      PROVE  \A e \in Devices : Transition(device[e], device'[e])
  <2>1. /\ leaving \in Clients
        /\ DisconnectClientFromDevice(leaving, d, cmd, client, g_clients)
    BY <1>7 DEF IInv, TypeOK, ExpireFromDevice
  <2>2. QED
    BY <1>1, <2>1, HangUpTransitionLemma
<1>8. CASE Sweep
  BY <1>1, <1>2, <1>7, <1>8, TimeoutTransitionLemma
  DEF Sweep, TimeoutOldClient, FreeClient, ClientsSwept, DevicesSwept
<1>9. CASE Quit \/ Crash
  BY <1>9 DEF Quit, Crash, Exit, NewDevice, Transition
<1>10. CASE Tick
  BY <1>1, <1>10 DEF Tick, Transition, Device
<1>11. QED
  BY <1>2, <1>6, <1>8, <1>9, <1>10
  DEF Next, ServerStep, Start, TestKeepGoing, NothingToDo, SelectInterrupted,
      BroadcastStatus, Terminate, vars

\* README.states:50-52, with any number of clients, links and redials: a link
\* that is up is never dialled, and comes up only out of CONNECTING.
THEOREM OnlyUpFromConnectingTheorem == Spec => OnlyUpFromConnecting
<1>1. IInv /\ [Next]_vars =>
        [\A d \in Devices :
           /\ device[d].status = "UP" => device'[d].status # "CONNECTING"
           /\ device'[d].status = "UP" => device[d].status \in {"UP", "CONNECTING"}]_vars
  BY TransitionLemma DEF Transition
<1>2. QED
  BY <1>1, InvariantTheorem, PTL DEF Spec, OnlyUpFromConnecting

\* README.protocol:64-68, with any number of clients: a link that is up begins to
\* be hung up only in the step in which its last user leaves it.
THEOREM LinkKeptTheorem == Spec => LinkKeptWhileUsed
<1>1. IInv /\ [Next]_vars =>
        [\A d \in Devices :
           device[d].status = "UP" /\ device'[d].status = "DISCONNECTING"
             => \E c \in Users(d) : Users(d) = {c} /\ Users(d)' = {}]_vars
  BY TransitionLemma DEF Transition, Users
<1>2. QED
  BY <1>1, InvariantTheorem, PTL DEF Spec, LinkKeptWhileUsed

-----------------------------------------------------------------------------
(***************************************************************************)
(* The server implements SharedLink.  What remains to be known of the link *)
(* functions is when they clear the users, and what they do if the scripts *)
(* can be relied on.                                                       *)
(***************************************************************************)
Reliable == Outcomes = {"ok"} /\ g_retries >= 0

\* Scripts that can be relied on exit 0.
LEMMA ReliableLemma ==
  ASSUME Reliable, NEW cmd \in Commands
  PROVE  cmd.up = "ok" /\ cmd.down = "ok" /\ cmd.force = "ok"
BY DEF Reliable, Commands

\* The tails of alter_device_status() do not touch the user lists.
LEMMA TailLemma ==
  ASSUME NEW r, NEW new
  PROVE  Enter(r, new).cleared = r.cleared /\ Stamp(r).cleared = r.cleared
BY DEF Enter, Stamp, Returns

\* The scripts that bring a link up or down disturb no user, and fail only if
\* they cannot be relied on.
LEMMA LinkScriptsLemma ==
  ASSUME NEW dv, NEW cmd \in Commands
  PROVE  /\ ~LinkUp(dv, cmd).cleared /\ ~LinkDown(dv, cmd).cleared
         /\ Reliable => LinkUp(dv, cmd).ok /\ LinkDown(dv, cmd).ok
BY ReliableLemma DEF LinkUp, LinkDown, Returns

\* link_force_down() that fails throws nobody off (list_fns.c:568-574).
LEMMA ForceClearsLemma ==
  ASSUME NEW dv, NEW cmd \in Commands
  PROVE  LET r == LinkForceDown(dv, cmd)
         IN  /\ ~r.ok => ~r.cleared
             /\ Reliable => r.ok /\ r.cleared
BY ReliableLemma DEF LinkForceDown, Returns

\* A link that is taken down loses its users, unless the script fails.
LEMMA ToDownClearsLemma ==
  ASSUME NEW dv \in Device, NEW cmd \in Commands
  PROVE  LET r == ToDown(dv, cmd)
         IN  /\ ~r.ok => ~r.cleared
             /\ Reliable /\ dv.status # "DISCONNECTING" => r.cleared
<1>1. CASE dv.status = "DISCONNECTING"
  <2>1. ToDown(dv, cmd) = Enter(Done(dv), "DOWN")
    BY <1>1 DEF ToDown
  <2>2. ~Done(dv).cleared
    BY DEF Done, Returns
  <2>3. QED
    BY <1>1, <2>1, <2>2, TailLemma
<1>2. CASE dv.status # "DISCONNECTING"
  <2>1. ToDown(dv, cmd) = Enter(LinkForceDown(dv, cmd), "DOWN")
    BY <1>2 DEF ToDown
  <2>2. ToDown(dv, cmd).ok = LinkForceDown(dv, cmd).ok
    BY <2>1, LinkForceDownLemma, EnterLemma DEF Status
  <2>3. QED
    BY <2>1, <2>2, ForceClearsLemma, TailLemma
<1>3. QED
  BY <1>1, <1>2

\* A dialled link keeps its users; one given up after the last retry loses them,
\* unless the script fails (list_fns.c:599-621).
LEMMA DialClearsLemma ==
  ASSUME NEW dv \in Device, NEW cmd \in Commands
  PROVE  LET r == Dial(dv, cmd)
         IN  /\ ~r.ok => ~r.cleared
             /\ r.ok /\ dv.retries < 0 =>
                  /\ r.dev.status = "DOWN"
                  /\ Reliable /\ dv.status # "DISCONNECTING" => r.cleared
             /\ dv.retries >= 0 =>
                  ~r.cleared /\ (r.ok => r.dev.status = "CONNECTING")
<1> DEFINE tried == [dv EXCEPT !.retries = Fewer(dv.retries)]
<1>1. tried \in Device /\ tried.status = dv.status
  BY RetriesLemma
<1>2. Dial(dv, cmd) = IF dv.retries < 0 THEN ToDown(tried, cmd)
                      ELSE Enter(Stamp(LinkUp(tried, cmd)), "CONNECTING")
  BY DEF Dial
<1>3. dv.retries \in Int
  BY DEF Device
<1> HIDE DEF tried
<1>4. CASE dv.retries < 0
  BY <1>1, <1>2, <1>3, <1>4, ToDownLemma, ToDownClearsLemma
<1>5. CASE ~(dv.retries < 0)
  <2>1. Dial(dv, cmd) = Enter(Stamp(LinkUp(tried, cmd)), "CONNECTING")
    BY <1>2, <1>5
  <2>2. ~Dial(dv, cmd).cleared
    BY <2>1, LinkScriptsLemma, TailLemma
  <2>3. Sound(Stamp(LinkUp(tried, cmd)), tried)
    BY <1>1, LinkUpLemma, StampLemma
  <2>4. Dial(dv, cmd).ok => Dial(dv, cmd).dev.status = "CONNECTING"
    BY <1>1, <2>1, <2>3, EnterLemma DEF Status
  <2>5. QED
    BY <1>5, <2>2, <2>4
<1>6. QED
  BY <1>4, <1>5

-----------------------------------------------------------------------------
\* What SharedLink allows one link to do in a step: stutter, be joined or left by
\* a client, be answered, or be lost.
Same(old, new) ==
    new.status = old.status /\ new.clients_connected = old.clients_connected

Joined(old, new, c) ==
    IF old.clients_connected # {}
    THEN /\ new.clients_connected = old.clients_connected \cup {c}
         /\ new.status = old.status
    ELSE /\ old.status # "UP"
         /\ new.clients_connected = {c}
         /\ new.status = "CONNECTING" \/ (~Reliable /\ new.status = "DOWN")

HasLeft(old, new, c) ==
    /\ c \in old.clients_connected
    /\ old.status # "DISCONNECTING"
    /\ new.clients_connected = old.clients_connected \ {c}
    /\ IF old.clients_connected = {c} /\ old.status # "DOWN"
       THEN \/ new.status = "DISCONNECTING"
            \/ ~Reliable /\ new.status = old.status
       ELSE new.status = old.status

IsAnswered(old, new) ==
    /\ old.status = "CONNECTING" /\ new.status = "UP"
    /\ new.clients_connected = old.clients_connected

Lost(old, new) ==
    /\ new.status = "DOWN"
    /\ \/ new.clients_connected = {}
       \/ ~Reliable /\ new.clients_connected = old.clients_connected

Allowed(old, new) ==
    \/ Same(old, new)
    \/ \E c \in Clients : Joined(old, new, c) \/ HasLeft(old, new, c)
    \/ IsAnswered(old, new)
    \/ Lost(old, new)

PromisedStep == Promise!Next \/ UNCHANGED Promise!vars

\* One link makes an allowed step, the others stay: SharedLink makes a step or a
\* stutter.
LEMMA LiftLemma ==
  ASSUME NEW d \in Devices, NEW r,
         device \in [Devices -> Device],
         device' = [device EXCEPT ![d] = r],
         Allowed(device[d], r)
  PROVE  PromisedStep
<1> DEFINE users == [e \in Devices |-> device[e].clients_connected]
           phase == [e \in Devices |-> device[e].status]
<1>1. /\ users' = [users EXCEPT ![d] = r.clients_connected]
      /\ phase' = [phase EXCEPT ![d] = r.status]
  OBVIOUS
<1>2. users[d] = device[d].clients_connected /\ phase[d] = device[d].status
  OBVIOUS
<1>3. CASE Same(device[d], r)
  <2>1. users' = users /\ phase' = phase
    BY <1>1, <1>2, <1>3 DEF Same
  <2>2. QED
    BY <2>1 DEF PromisedStep, Promise!vars
<1>4. ASSUME NEW c \in Clients, Joined(device[d], r, c)
      PROVE  PromisedStep
  <2>1. Promise!Join(d, c)
    BY <1>1, <1>2, <1>4 DEF Joined, Promise!Join, Promise!Becomes, Reliable
  <2>2. QED
    BY <2>1 DEF PromisedStep, Promise!Next
<1>5. ASSUME NEW c \in Clients, HasLeft(device[d], r, c)
      PROVE  PromisedStep
  <2>1. Promise!Leave(d, c)
    BY <1>1, <1>2, <1>5 DEF HasLeft, Promise!Leave, Promise!Becomes, Reliable
  <2>2. QED
    BY <2>1 DEF PromisedStep, Promise!Next
<1>6. CASE IsAnswered(device[d], r)
  <2>1. Promise!Answered(d)
    BY <1>1, <1>2, <1>6 DEF IsAnswered, Promise!Answered, Promise!Becomes
  <2>2. QED
    BY <2>1 DEF PromisedStep, Promise!Next
<1>7. CASE Lost(device[d], r)
  <2>1. Promise!Lose(d)
    BY <1>1, <1>2, <1>7 DEF Lost, Promise!Lose, Promise!Becomes, Reliable
  <2>2. QED
    BY <2>1 DEF PromisedStep, Promise!Next
<1>8. QED
  BY <1>3, <1>4, <1>5, <1>6, <1>7 DEF Allowed

\* Likewise where alter_device_status() is called on its own.
LEMMA AlterAllowedLemma ==
  ASSUME device \in [Devices -> Device], NEW d \in Devices, NEW r,
         NEW table, NEW known,
         Allowed(device[d], r.dev), Alter(d, r, table, known)
  PROVE  PromisedStep
<1>1. device' = [device EXCEPT ![d] = r.dev]
  BY DEF Alter
<1>2. QED
  BY <1>1, LiftLemma

\* Taking a link down loses it or changes nothing.
LEMMA ToDownAllowedLemma ==
  ASSUME NEW dv \in Device, NEW cmd \in Commands,
         dv.status = "DISCONNECTING" => dv.clients_connected = {}
  PROVE  LET r == ToDown(dv, cmd)
         IN  IF r.ok THEN Lost(dv, r.dev) ELSE Same(dv, r.dev)
<1> DEFINE r == ToDown(dv, cmd)
<1>1. /\ r.dev.status = IF r.ok THEN "DOWN" ELSE dv.status
      /\ r.dev.clients_connected = IF r.cleared THEN {} ELSE dv.clients_connected
  BY ToDownLemma DEF Sound
<1>2. /\ ~r.ok => ~r.cleared
      /\ Reliable /\ dv.status # "DISCONNECTING" => r.cleared
  BY ToDownClearsLemma
<1> HIDE DEF r
<1>3. IF r.ok THEN Lost(dv, r.dev) ELSE Same(dv, r.dev)
  BY <1>1, <1>2 DEF Lost, Same
<1>4. QED
  BY <1>3 DEF r

\* Dialling a link with no retries left loses it; otherwise only a failing script
\* keeps it from CONNECTING.
LEMMA DialAllowedLemma ==
  ASSUME NEW dv \in Device, NEW cmd \in Commands, dv.status # "DISCONNECTING"
  PROVE  LET r == Dial(dv, cmd)
         IN  IF r.ok
             THEN \/ /\ r.dev.status = "CONNECTING"
                     /\ r.dev.clients_connected = dv.clients_connected
                  \/ Lost(dv, r.dev) /\ dv.retries < 0
             ELSE Same(dv, r.dev)
<1> DEFINE r == Dial(dv, cmd)
<1>1. /\ r.dev.clients_connected = IF r.cleared THEN {} ELSE dv.clients_connected
      /\ ~r.ok => r.dev.status = dv.status
  BY DialLemma DEF Sound
<1>2. /\ ~r.ok => ~r.cleared
      /\ r.ok /\ dv.retries < 0 =>
           r.dev.status = "DOWN" /\ (Reliable => r.cleared)
      /\ dv.retries >= 0 => ~r.cleared /\ (r.ok => r.dev.status = "CONNECTING")
  BY DialClearsLemma
<1>3. dv.retries \in Int
  BY DEF Device
<1> HIDE DEF r
<1>4. IF r.ok
      THEN \/ /\ r.dev.status = "CONNECTING"
              /\ r.dev.clients_connected = dv.clients_connected
           \/ Lost(dv, r.dev) /\ dv.retries < 0
      ELSE Same(dv, r.dev)
  BY <1>1, <1>2, <1>3 DEF Lost, Same
<1>5. QED
  BY <1>4 DEF r


\* A link nobody uses, dialled with all its retries, is being dialled afterwards or
\* could not be.
FirstDial(old, r) ==
    IF r.ok
    THEN /\ old.status # "UP"
         /\ r.dev \in Device
         /\ r.dev.clients_connected = {}
         /\ r.dev.status = "CONNECTING" \/ (~Reliable /\ r.dev.status = "DOWN")
    ELSE Same(old, r.dev)

\* The first attempt to dial a link nobody uses (list_fns.c:600-606) has that result.
LEMMA FirstDialLemma ==
  ASSUME NEW dv \in Device, NEW cmd \in Commands,
         dv.status # "UP", dv.clients_connected = {}, dv.retries = g_retries
  PROVE  FirstDial(dv, Dial(dv, cmd))
<1> DEFINE r == Dial(dv, cmd)
<1>1. /\ r.dev \in Device
      /\ r.dev.clients_connected = {}
      /\ ~r.ok => r.dev.status = dv.status
  BY DialLemma DEF Sound, Result
<1>2. /\ r.ok /\ dv.retries < 0 => r.dev.status = "DOWN"
      /\ dv.retries >= 0 => (r.ok => r.dev.status = "CONNECTING")
  BY DialClearsLemma
<1>3. dv.retries < 0 => ~Reliable
  BY RetriesAssumption DEF Reliable
<1>4. dv.retries < 0 \/ dv.retries >= 0
  BY RetriesAssumption
<1> HIDE DEF r
<1>5. FirstDial(dv, r)
  BY <1>1, <1>2, <1>3, <1>4 DEF FirstDial, Same
<1>6. QED
  BY <1>5 DEF r

\* alter_device_status (device, LINK_CONNECTING) for the first user, whatever the
\* link was doing (list_fns.c:588-621).
LEMMA FirstUserLemma ==
  ASSUME NEW dv \in Device, NEW cmd \in Commands, dv.clients_connected = {}
  PROVE  FirstDial(dv, DialIfUnused(dv, cmd))
<1> DEFINE all == AllRetries(dv)
           r   == DialIfUnused(dv, cmd)
<1>1. r = ToConnecting(all, cmd)
  BY DEF DialIfUnused, AlterDeviceStatus
<1>2. /\ all \in Device /\ all.status = dv.status
      /\ all.clients_connected = {} /\ all.retries = g_retries
  BY RetriesLemma
<1>3. /\ AllRetries(all) \in Device /\ AllRetries(all).status = dv.status
      /\ AllRetries(all).clients_connected = {} /\ AllRetries(all).retries = g_retries
  BY <1>2, RetriesLemma
<1> HIDE DEF all, r
<1>4. CASE dv.status = "CONNECTING"
  <2>1. r = Dial(all, cmd)
    BY <1>1, <1>2, <1>4 DEF ToConnecting
  <2>2. FirstDial(all, r)
    BY <1>2, <1>4, <2>1, FirstDialLemma
  <2>3. FirstDial(dv, r)
    BY <1>2, <2>2 DEF FirstDial, Same
  <2>4. QED
    BY <2>3 DEF r
<1>5. CASE dv.status = "DOWN"
  <2>1. r = Dial(AllRetries(all), cmd)
    BY <1>1, <1>2, <1>5 DEF ToConnecting
  <2>2. FirstDial(AllRetries(all), r)
    BY <1>3, <1>5, <2>1, FirstDialLemma
  <2>3. FirstDial(dv, r)
    BY <1>3, <2>2 DEF FirstDial, Same
  <2>4. QED
    BY <2>3 DEF r
<1>6. CASE dv.status = "DISCONNECTING"
  <2> DEFINE kill == LinkForceDown(all, cmd)
             next == AllRetries(kill.dev)
             dial == Dial(next, cmd)
  <2>1. r = IF kill.ok THEN Then(kill, dial) ELSE kill
    BY <1>1, <1>2, <1>6 DEF ToConnecting, KillAndDial
  <2>2. /\ kill.dev \in Device /\ kill.dev.status = dv.status
        /\ kill.dev.clients_connected = {}
    BY <1>2, LinkForceDownLemma DEF Sound, Result
  <2>3. /\ next \in Device /\ next.status = dv.status
        /\ next.clients_connected = {} /\ next.retries = g_retries
    BY <2>2, RetriesLemma
  <2>4. FirstDial(next, dial)
    BY <1>6, <2>3, FirstDialLemma
  <2>5. kill.ok => r.ok = dial.ok /\ r.dev = dial.dev
    BY <2>1 DEF Then, Returns
  <2>6. ~kill.ok => r = kill
    BY <2>1
  <2> HIDE DEF kill, next, dial
  <2>7. FirstDial(dv, r)
    BY <2>2, <2>3, <2>4, <2>5, <2>6 DEF FirstDial, Same
  <2>8. QED
    BY <2>7 DEF r
<1>7. CASE dv.status = "UP"
  <2>1. r = Invalid(all)
    BY <1>1, <1>2, <1>7 DEF ToConnecting
  <2>2. ~r.ok /\ r.dev = all
    BY <1>2, <2>1, DoneLemma
  <2>3. FirstDial(dv, r)
    BY <1>2, <2>2 DEF FirstDial, Same
  <2>4. QED
    BY <2>3 DEF r
<1>8. QED
  BY <1>4, <1>5, <1>6, <1>7 DEF Device, Status

\* UP <device> joins the link or changes nothing.
LEMMA ConnectAllowedLemma ==
  ASSUME device \in [Devices -> Device], NEW c \in Clients, NEW d \in Devices,
         NEW cmd \in Commands, NEW table, NEW known,
         ConnectClientToDevice(c, d, cmd, table, known)
  PROVE  PromisedStep
<1> DEFINE dv == device[d]
           r  == DialIfUnused(dv, cmd)
           nv == IF r.ok
                 THEN [r.dev EXCEPT !.clients_connected = r.dev.clients_connected \cup {c}]
                 ELSE r.dev
<1>1. dv \in Device
  OBVIOUS
<1>2. device' = [device EXCEPT ![d] = nv]
  BY DEF ConnectClientToDevice
<1>3. CASE dv.clients_connected = {}
  <2>1. FirstDial(dv, r)
    BY <1>1, <1>3, FirstUserLemma
  <2> HIDE DEF r
  <2>2. CASE r.ok
    <3>1. nv.clients_connected = {c} /\ nv.status = r.dev.status
      BY <2>1, <2>2 DEF FirstDial, Device
    <3>2. dv.status # "UP"
      BY <2>1, <2>2 DEF FirstDial
    <3>3. r.dev.status = "CONNECTING" \/ (~Reliable /\ r.dev.status = "DOWN")
      BY <2>1, <2>2 DEF FirstDial
    <3> HIDE DEF nv, dv
    <3>4. Joined(dv, nv, c)
      BY <1>3, <3>1, <3>2, <3>3 DEF Joined
    <3>5. Allowed(dv, nv)
      BY <3>4 DEF Allowed
    <3>6. QED
      BY <1>2, <3>5, LiftLemma DEF dv
  <2>3. CASE ~r.ok
    <3>1. nv = r.dev /\ Same(dv, r.dev)
      BY <2>1, <2>3 DEF FirstDial
    <3> HIDE DEF nv, dv
    <3>2. Allowed(dv, nv)
      BY <3>1 DEF Allowed
    <3>3. QED
      BY <1>2, <3>2, LiftLemma DEF dv
  <2>4. QED
    BY <2>2, <2>3
<1>4. CASE dv.clients_connected # {}
  <2>1. r = Done(dv)
    BY <1>4 DEF DialIfUnused
  <2>2. r.ok /\ r.dev = dv
    BY <1>1, <2>1, DoneLemma
  <2> HIDE DEF r
  <2>3. /\ nv.clients_connected = dv.clients_connected \cup {c}
        /\ nv.status = dv.status
    BY <1>1, <2>2 DEF Device
  <2> HIDE DEF nv, dv
  <2>4. Joined(dv, nv, c)
    BY <1>4, <2>3 DEF Joined
  <2>5. Allowed(dv, nv)
    BY <2>4 DEF Allowed
  <2>6. QED
    BY <1>2, <2>5, LiftLemma DEF dv
<1>5. QED
  BY <1>3, <1>4


\* disconnect_client_from_device() takes a user off the link, and begins to hang up
\* after the last one unless the script fails; it does nothing to a link the client
\* is not on (list_fns.c:479-507).
LEMMA HangUpAllowedLemma ==
  ASSUME NEW dv \in Device, NEW c \in Clients, NEW cmd \in Commands,
         dv.status = "DISCONNECTING" => dv.clients_connected = {}
  PROVE  Allowed(dv, HangUpIfLast(dv, c, cmd).dev)
<1> DEFINE left == [dv EXCEPT !.clients_connected = dv.clients_connected \ {c}]
           r    == HangUpIfLast(dv, c, cmd)
<1>1. /\ left \in Device /\ left.status = dv.status
      /\ left.clients_connected = dv.clients_connected \ {c}
  BY DEF Device
<1>2. r = IF c \in dv.clients_connected /\ left.clients_connected = {}
          THEN AlterDeviceStatus(left, "DISCONNECTING", cmd)
          ELSE Done(left)
  BY DEF HangUpIfLast
<1> HIDE DEF left, r
<1>3. CASE c \in dv.clients_connected /\ left.clients_connected = {}
  <2>1. r = ToDisconnecting(left, cmd)
    BY <1>2, <1>3 DEF AlterDeviceStatus
  <2>2. dv.clients_connected = {c} /\ dv.status # "DISCONNECTING"
    BY <1>1, <1>3
  <2>3. r.dev.clients_connected = {}
    BY <1>1, <1>3, <2>1, ToDisconnectingLemma DEF Sound
  <2>4. CASE dv.status = "DOWN"
    <3>1. r.dev = left
      BY <1>1, <2>1, <2>4, DoneLemma DEF ToDisconnecting
    <3>2. HasLeft(dv, r.dev, c)
      BY <1>1, <1>3, <2>2, <2>4, <3>1 DEF HasLeft
    <3>3. QED
      BY <3>2 DEF Allowed, r
  <2>5. CASE dv.status \in {"CONNECTING", "UP"}
    <3> DEFINE s == IF dv.status = "UP" THEN LinkDown(left, cmd)
                                        ELSE LinkForceDown(left, cmd)
    <3>1. r = Enter(s, "DISCONNECTING")
      BY <1>1, <2>1, <2>5 DEF ToDisconnecting
    <3>2. Sound(s, left) /\ s.dev.status = dv.status /\ (Reliable => s.ok)
      BY <1>1, LinkDownLemma, LinkForceDownLemma, LinkScriptsLemma, ForceClearsLemma
    <3> HIDE DEF s
    <3>3. r.dev.status = IF s.ok THEN "DISCONNECTING" ELSE dv.status
      BY <1>1, <3>1, <3>2, EnterLemma DEF Status
    <3>4. HasLeft(dv, r.dev, c)
      BY <2>2, <2>3, <2>5, <3>2, <3>3 DEF HasLeft
    <3>5. QED
      BY <3>4 DEF Allowed, r
  <2>6. QED
    BY <2>2, <2>4, <2>5 DEF Device, Status
<1>4. CASE ~(c \in dv.clients_connected /\ left.clients_connected = {})
  <2>1. r.dev = left
    BY <1>1, <1>2, <1>4, DoneLemma
  <2>2. CASE c \notin dv.clients_connected
    <3>1. Same(dv, r.dev)
      BY <1>1, <2>1, <2>2 DEF Same
    <3>2. QED
      BY <3>1 DEF Allowed, r
  <2>3. CASE c \in dv.clients_connected
    <3>1. dv.clients_connected # {c} /\ dv.status # "DISCONNECTING"
      BY <1>1, <1>4, <2>3
    <3>2. HasLeft(dv, r.dev, c)
      BY <1>1, <2>1, <2>3, <3>1 DEF HasLeft
    <3>3. QED
      BY <3>2 DEF Allowed, r
  <2>4. QED
    BY <2>2, <2>3
<1>5. QED
  BY <1>3, <1>4

\* DOWN <device> and the removal of a silent client (list_fns.c:479-507) are a step the
\* promise allows.
LEMMA DisconnectAllowedLemma ==
  ASSUME device \in [Devices -> Device], DisconnectingUnused,
         NEW c \in Clients, NEW d \in Devices, NEW cmd \in Commands,
         NEW table, NEW known,
         DisconnectClientFromDevice(c, d, cmd, table, known)
  PROVE  PromisedStep
<1>1. device[d] \in Device
  OBVIOUS
<1>2. Allowed(device[d], HangUpIfLast(device[d], c, cmd).dev)
  BY <1>1, HangUpAllowedLemma DEF DisconnectingUnused, Users
<1>3. device' = [device EXCEPT ![d] = HangUpIfLast(device[d], c, cmd).dev]
  BY DEF DisconnectClientFromDevice
<1>4. QED
  BY <1>2, <1>3, LiftLemma

\* FORCE_DOWN loses the link for everybody or changes nothing.
LEMMA ForceDownAllowedLemma ==
  ASSUME device \in [Devices -> Device], DisconnectingUnused,
         NEW c \in Clients, NEW d \in Devices, NEW cmd \in Commands,
         ClientForceDown(c, d, cmd)
  PROVE  PromisedStep
<1> DEFINE down == ToDown(device[d], cmd)
           r    == IF down.ok THEN NoUsers(down) ELSE down
<1>1. Alter(d, r, Heard(c), Known(c))
  BY DEF ClientForceDown, AlterDeviceStatus
<1>2. device[d] \in Device
  OBVIOUS
<1>3. IF down.ok THEN Lost(device[d], down.dev) ELSE Same(device[d], down.dev)
  BY <1>2, ToDownAllowedLemma DEF DisconnectingUnused, Users
<1>4. down.dev \in Device
  BY <1>2, ToDownLemma DEF Sound, Result
<1> HIDE DEF down
<1>5. CASE down.ok
  <2>1. r.dev = [down.dev EXCEPT !.clients_connected = {}]
    BY <1>5 DEF NoUsers, Returns
  <2>2. r.dev.status = "DOWN" /\ r.dev.clients_connected = {}
    BY <1>3, <1>4, <1>5, <2>1 DEF Lost, Device
  <2> HIDE DEF r
  <2>3. Allowed(device[d], r.dev)
    BY <2>2 DEF Allowed, Lost
  <2>4. QED
    BY <1>1, <2>3, AlterAllowedLemma
<1>6. CASE ~down.ok
  <2>1. Same(device[d], r.dev)
    BY <1>3, <1>6
  <2> HIDE DEF r
  <2>2. Allowed(device[d], r.dev)
    BY <2>1 DEF Allowed
  <2>3. QED
    BY <1>1, <2>2, AlterAllowedLemma
<1>7. QED
  BY <1>5, <1>6

\* The peer's reports answer the call or lose the link, or change nothing.
LEMMA PeerAllowedLemma ==
  ASSUME device \in [Devices -> Device], DisconnectingUnused, PeerSpeaks
  PROVE  PromisedStep
<1>1. ASSUME NEW d \in Devices, PeerIsUp(d)
      PROVE  PromisedStep
  <2> DEFINE r == ToUp(device[d])
  <2>1. Alter(d, r, client, g_clients) /\ device[d] \in Device
    BY <1>1 DEF PeerIsUp
  <2>2. /\ r.dev.clients_connected = device[d].clients_connected
        /\ IF r.ok THEN device[d].status = "CONNECTING" /\ r.dev.status = "UP"
                   ELSE r.dev = device[d]
    BY <2>1, ToUpLemma DEF Sound
  <2> HIDE DEF r
  <2>3. Allowed(device[d], r.dev)
    BY <2>2 DEF Allowed, IsAnswered, Same
  <2>4. QED
    BY <2>1, <2>3, AlterAllowedLemma
<1>2. ASSUME NEW d \in Devices, NEW cmd \in Commands, PeerIsDown(d, cmd)
      PROVE  PromisedStep
  <2> DEFINE r == ToDown(device[d], cmd)
  <2>1. Alter(d, r, client, g_clients) /\ device[d] \in Device
    BY <1>2 DEF PeerIsDown, AlterDeviceStatus
  <2>2. IF r.ok THEN Lost(device[d], r.dev) ELSE Same(device[d], r.dev)
    BY <2>1, ToDownAllowedLemma DEF DisconnectingUnused, Users
  <2> HIDE DEF r
  <2>3. Allowed(device[d], r.dev)
    BY <2>2 DEF Allowed
  <2>4. QED
    BY <2>1, <2>3, AlterAllowedLemma
<1>3. QED
  BY <1>1, <1>2 DEF PeerSpeaks

\* A timeout dials again, loses the link, or is done with hanging up.
LEMMA TimeoutAllowedLemma ==
  ASSUME device \in [Devices -> Device], DisconnectingUnused,
         NEW d \in Devices, NEW cmd \in Commands, TimeoutOldDevice(d, cmd)
  PROVE  PromisedStep
<1> DEFINE dv == device[d]
           r  == IF Overdue(dv) THEN AlterDeviceStatus(dv, dv.status, cmd)
                                ELSE Done(dv)
<1>1. Alter(d, r, client, g_clients)
  BY DEF TimeoutOldDevice
<1>2. dv \in Device
  OBVIOUS
<1>3. dv.status = "DISCONNECTING" => dv.clients_connected = {}
  BY DEF DisconnectingUnused, Users
<1> HIDE DEF dv
<1>4. CASE Overdue(dv) /\ dv.status = "CONNECTING"
  <2>1. r = Dial(dv, cmd)
    BY <1>4 DEF AlterDeviceStatus, ToConnecting
  <2> HIDE DEF r
  <2>2. IF r.ok
        THEN \/ /\ r.dev.status = "CONNECTING"
                /\ r.dev.clients_connected = dv.clients_connected
             \/ Lost(dv, r.dev)
        ELSE Same(dv, r.dev)
    BY <1>2, <1>4, <2>1, DialAllowedLemma
  <2>3. Allowed(dv, r.dev)
    BY <1>4, <2>2 DEF Allowed, Same
  <2>4. QED
    BY <1>1, <2>3, AlterAllowedLemma DEF dv
<1>5. CASE Overdue(dv) /\ dv.status = "DISCONNECTING"
  <2>1. r = Enter(LinkForceDown(dv, cmd), "DOWN")
    BY <1>5 DEF AlterDeviceStatus, ToDisconnecting
  <2>2. Sound(LinkForceDown(dv, cmd), dv) /\ LinkForceDown(dv, cmd).dev.status = dv.status
    BY <1>2, LinkForceDownLemma
  <2>3. /\ Sound(r, dv)
        /\ r.dev.status = IF r.ok THEN "DOWN" ELSE dv.status
    BY <1>2, <2>1, <2>2, EnterLemma DEF Status
  <2> HIDE DEF r
  <2>4. r.dev.clients_connected = {}
    BY <1>3, <1>5, <2>3 DEF Sound
  <2>5. Allowed(dv, r.dev)
    BY <1>3, <1>5, <2>3, <2>4 DEF Allowed, Same, Lost
  <2>6. QED
    BY <1>1, <2>5, AlterAllowedLemma DEF dv
<1>6. CASE ~Overdue(dv)
  <2>1. r.dev = dv
    BY <1>2, <1>6, DoneLemma
  <2> HIDE DEF r
  <2>2. Allowed(dv, r.dev)
    BY <2>1 DEF Allowed, Same
  <2>3. QED
    BY <1>1, <2>2, AlterAllowedLemma DEF dv
<1>7. QED
  BY <1>4, <1>5, <1>6 DEF Overdue

\* Steps that touch no link, or only the stamps, are stutters of SharedLink.
LEMMA StutterLemma ==
  ASSUME \A d \in Devices : Same(device[d], device'[d])
  PROVE  PromisedStep
<1>1. UNCHANGED Promise!vars
  BY DEF Same, Promise!vars
<1>2. QED
  BY <1>1 DEF PromisedStep

\* What the process knew dies with it.
LEMMA ExitLemma == Exit => PromisedStep
<1>1. ASSUME Exit PROVE Promise!Reset
  BY <1>1 DEF Exit, NewDevice, Promise!Reset
<1>2. QED
  BY <1>1 DEF PromisedStep, Promise!Next

\* Every step of the server is a step or a stutter of SharedLink.
LEMMA PromisedStepLemma == IInv /\ [Next]_vars => PromisedStep
<1> SUFFICES ASSUME IInv, [Next]_vars PROVE PromisedStep
  OBVIOUS
<1>1. device \in [Devices -> Device] /\ DisconnectingUnused
  BY DEF IInv, TypeOK
<1>2. CASE UNCHANGED device
  BY <1>2, StutterLemma DEF Same
<1>3. CASE ClientSpeaks
  <2>1. ASSUME NEW c \in Clients, NEW d \in Devices, NEW cmd \in Commands,
               ClientUp(c, d, cmd) \/ ClientDown(c, d, cmd) \/ ClientForceDown(c, d, cmd)
        PROVE  PromisedStep
    BY <1>1, <2>1, ConnectAllowedLemma, DisconnectAllowedLemma,
       ForceDownAllowedLemma DEF ClientUp, ClientDown
  <2>2. QED
    BY <1>2, <1>3, <2>1 DEF ClientSpeaks, ClientAsks, ClientPing
<1>4. CASE Sweep
  <2>1. ASSUME NEW d \in Devices, NEW cmd \in Commands, ExpireFromDevice(d, cmd)
        PROVE  PromisedStep
    <3>1. /\ leaving \in Clients
          /\ DisconnectClientFromDevice(leaving, d, cmd, client, g_clients)
      BY <2>1 DEF IInv, TypeOK, ExpireFromDevice
    <3>2. QED
      BY <1>1, <3>1, DisconnectAllowedLemma
  <2>2. QED
    BY <1>1, <1>2, <1>4, <2>1, TimeoutAllowedLemma
    DEF Sweep, TimeoutOldClient, FreeClient, ClientsSwept, DevicesSwept
<1>5. CASE Quit \/ Crash
  BY <1>5, ExitLemma DEF Quit, Crash
<1>6. CASE Tick
  <2>1. \A d \in Devices : Same(device[d], device'[d])
    BY <1>1, <1>6 DEF Tick, Same, Device
  <2>2. QED
    BY <2>1, StutterLemma
<1>7. QED
  BY <1>1, <1>2, <1>3, <1>4, <1>5, <1>6, PeerAllowedLemma
  DEF Next, ServerStep, Start, TestKeepGoing, NothingToDo, SelectInterrupted,
      BroadcastStatus, Terminate, vars

\* README.protocol:60-68 and README.states, with any number of clients and links,
\* any timeouts and whatever the scripts do: the server implements SharedLink.
THEOREM SharedLinkTheorem == Spec => SharedLinkPromise
<1>1. Init => Promise!Init
  BY DEF Init, NewDevice, Promise!Init
<1>2. IInv /\ [Next]_vars => [Promise!Next]_(Promise!vars)
  BY PromisedStepLemma DEF PromisedStep
<1>3. QED
  BY <1>1, <1>2, InvariantTheorem, PTL DEF Spec, SharedLinkPromise, Promise!Spec

\* SharedLink's own invariant is inductive.
LEMMA InUseLemma == InUseWhileWanted /\ PromisedStep => InUseWhileWanted'
<1> DEFINE users == [d \in Devices |-> device[d].clients_connected]
           phase == [d \in Devices |-> device[d].status]
<1> SUFFICES ASSUME InUseWhileWanted, PromisedStep, Reliable, NEW d \in Devices
             PROVE  users'[d] # {} <=> phase'[d] \in {"CONNECTING", "UP"}
  BY DEF InUseWhileWanted, Promise!InUseWhileWanted, Reliable
<1>1. users[d] # {} <=> phase[d] \in {"CONNECTING", "UP"}
  BY DEF InUseWhileWanted, Promise!InUseWhileWanted, Reliable
<1>2. CASE UNCHANGED Promise!vars
  BY <1>1, <1>2 DEF Promise!vars
<1>3. CASE Promise!Reset
  BY <1>3 DEF Promise!Reset
<1>4. ASSUME NEW l \in Devices,
             \/ \E m \in Clients : Promise!Join(l, m) \/ Promise!Leave(l, m)
             \/ Promise!Answered(l) \/ Promise!Lose(l)
      PROVE  users'[d] # {} <=> phase'[d] \in {"CONNECTING", "UP"}
  <2>1. \/ l = d
        \/ users'[d] = users[d] /\ phase'[d] = phase[d]
    BY <1>4 DEF Promise!Join, Promise!Leave, Promise!Answered, Promise!Lose,
                Promise!Becomes
  <2>2. CASE l = d
    <3>1. users[d] = device[d].clients_connected /\ phase[d] = device[d].status
      OBVIOUS
    <3>2. /\ users'[d] = device'[d].clients_connected
          /\ phase'[d] = device'[d].status
      OBVIOUS
    <3>3. ASSUME NEW m \in Clients, Promise!Join(d, m)
          PROVE  \/ /\ device[d].clients_connected # {}
                    /\ device'[d].clients_connected # {}
                    /\ device'[d].status = device[d].status
                 \/ /\ device'[d].clients_connected # {}
                    /\ device'[d].status = "CONNECTING"
      BY <3>3 DEF Promise!Join, Promise!Becomes, Reliable
    <3>4. ASSUME NEW m \in Clients, Promise!Leave(d, m)
          PROVE  \/ /\ device'[d].clients_connected = {}
                    /\ \/ device'[d].status = "DISCONNECTING"
                       \/ device[d].status = "DOWN" /\ device'[d].status = "DOWN"
                 \/ /\ device[d].clients_connected # {}
                    /\ device'[d].clients_connected # {}
                    /\ device'[d].status = device[d].status
      BY <3>4, <1>1, <3>1 DEF Promise!Leave, Promise!Becomes, Reliable
    <3>5. CASE Promise!Answered(d)
      BY <1>1, <3>5 DEF Promise!Answered, Promise!Becomes
    <3>6. CASE Promise!Lose(d)
      BY <3>6 DEF Promise!Lose, Promise!Becomes, Reliable
    <3>7. QED
      BY <1>1, <1>4, <2>2, <3>1, <3>2, <3>3, <3>4, <3>5, <3>6
  <2>3. QED
    BY <1>1, <2>1, <2>2
<1>5. QED
  BY <1>2, <1>3, <1>4 DEF PromisedStep, Promise!Next

\* list_fns.c:457-507, with any number of clients, links and retries: scripts that
\* work leave no link up or being dialled for nobody, and nobody waiting for a link
\* that is down.
THEOREM InUseTheorem == Spec => []InUseWhileWanted
<1>1. Init => InUseWhileWanted
  BY DEF Init, NewDevice, InUseWhileWanted, Promise!InUseWhileWanted
<1>2. IInv /\ [Next]_vars /\ InUseWhileWanted => InUseWhileWanted'
  BY PromisedStepLemma, InUseLemma
<1>3. QED
  BY <1>1, <1>2, InvariantTheorem, PTL DEF Spec

=============================================================================
