---------------------- MODULE LinkServerScripts_proofs ----------------------
(***************************************************************************)
(* More proofs about LinkServer: which scripts a step runs, and what they  *)
(* have to do with the status, the users and the retries of the link they  *)
(* are run for.                                                            *)
(***************************************************************************)
EXTENDS LinkServer_proofs, SequenceTheorems, FiniteSetTheorems

-----------------------------------------------------------------------------
(***************************************************************************)
(* What one step of the server may do to a link: from old to new, running  *)
(* scripts.                                                                *)
(***************************************************************************)
Dialling == {<<"up">>, <<"force", "up">>}
Runnable == {<<>>, <<"down">>, <<"force">>} \cup Dialling

\* system() never fails to start a script.
Startable == "error" \notin Outcomes

\* A link is dialled out of DISCONNECTING after it has been killed, and otherwise
\* at once; never to UP.
DialsWell(old, new, scripts) ==
    scripts \in Dialling =>
        /\ scripts = IF old.status = "DISCONNECTING" THEN <<"force", "up">> ELSE <<"up">>
        /\ new.status # "UP"

\* A client has the link dialled: that is the first attempt, and g_retries are left
\* after it.  (If there are none to begin with, it is given up at once, and stays
\* CONNECTING if it was and cannot be killed.)
StartsOver(old, new, scripts) ==
    /\ scripts \in Dialling => g_retries >= 0 /\ new.retries < g_retries
    /\ new.status = "CONNECTING" /\ scripts \notin Dialling
       => old.status = "CONNECTING" /\ g_retries < 0 /\ new.retries = g_retries

\* A redial uses up a retry, and nothing else gives one back.
GoesOn(old, new, scripts) ==
    /\ scripts \in Dialling =>
         old.status = "CONNECTING" /\ old.retries >= 0 /\ new.retries < old.retries
    /\ new.status = "CONNECTING" =>
         old.status = "CONNECTING" /\ new.retries <= old.retries

Counts(old, new, scripts) == StartsOver(old, new, scripts) \/ GoesOn(old, new, scripts)

\* A script that could be started has its effect on the status: a dialled link is
\* CONNECTING, a killed one not UP, and no link is left busy for nobody.
TakesEffect(old, new, scripts) ==
    Startable =>
        /\ scripts \in Dialling => new.status = "CONNECTING"
        /\ scripts = <<"force">> => new.status # "UP"
        /\ new.status \in {"UP", "CONNECTING"} /\ new.clients_connected = {}
             => old.status \in {"UP", "CONNECTING"} /\ old.clients_connected = {}

\* The last users of a busy link do not go without a script that ends its use.
EndsUse(old, new, scripts) ==
    /\ old.status \in {"UP", "CONNECTING"}
    /\ old.clients_connected # {} /\ new.clients_connected = {}
    /\ Outcomes = {"ok"}
    => scripts \in {<<"down">>, <<"force">>}

\* At most one user loses a link whose force_down script is not run.
CostsOne(old, new, scripts) ==
    scripts \in {<<>>, <<"up">>, <<"down">>} =>
        \E c : old.clients_connected \ new.clients_connected \subseteq {c}

\* A dialled link is stamped, no link becomes CONNECTING without a stamp, and one that
\* stays CONNECTING keeps its own (list_fns.c:605), as long as scripts can be started.
Stamps(old, new, scripts) ==
    Startable /\ new.status = "CONNECTING" =>
        \/ new.connect_age = 0
        \/ /\ old.status = "CONNECTING" /\ scripts \notin Dialling
           /\ new.connect_age = old.connect_age

Orderly(old, new, scripts) ==
    /\ scripts \in Runnable
    /\ DialsWell(old, new, scripts)
    /\ Counts(old, new, scripts)
    /\ TakesEffect(old, new, scripts)
    /\ EndsUse(old, new, scripts)
    /\ CostsOne(old, new, scripts)

\* A call of a link function is orderly about the stamp as well; a second that
\* passes is not.
Proper(old, new, scripts) == Orderly(old, new, scripts) /\ Stamps(old, new, scripts)

-----------------------------------------------------------------------------
\* The five tuples of scripts differ from one another.
LEMMA TuplesLemma ==
  /\ <<>> \notin Dialling /\ <<"down">> \notin Dialling /\ <<"force">> \notin Dialling
  /\ <<>> # <<"force">> /\ <<>> # <<"down">> /\ <<"up">> # <<"force">>
  /\ <<"up">> # <<"force", "up">> /\ <<"force">> # <<"down">> /\ <<"up">> # <<"down">>
  /\ <<"force", "up">> # <<"down">> /\ <<"force", "up">> # <<>> /\ <<>> # <<"up">>
  /\ <<"force", "up">> # <<"force">>
  /\ Dialling \subseteq Runnable
BY DEF Dialling, Runnable

\* Which script each function runs (list_fns.c:509-576).
LEMMA RanLemma ==
  ASSUME NEW dv, NEW cmd, NEW r, NEW new
  PROVE  /\ LinkUp(dv, cmd).ran = <<"up">>
         /\ LinkDown(dv, cmd).ran = <<"down">>
         /\ LinkForceDown(dv, cmd).ran = <<"force">>
         /\ Done(dv).ran = <<>> /\ Invalid(dv).ran = <<>>
         /\ Enter(r, new).ran = r.ran /\ Stamp(r).ran = r.ran
BY DEF LinkUp, LinkDown, LinkForceDown, Done, Invalid, Enter, Stamp, Returns

\* No script but the dialling counts retries.
LEMMA KeepsRetriesLemma ==
  ASSUME NEW dv \in Device, NEW cmd \in Commands
  PROVE  /\ LinkUp(dv, cmd).dev.retries = dv.retries
         /\ LinkDown(dv, cmd).dev.retries = dv.retries
         /\ LinkForceDown(dv, cmd).dev.retries = dv.retries
BY DEF LinkUp, LinkDown, LinkForceDown, Returns, Device

\* The tails of alter_device_status() do not count retries.
LEMMA TailRetriesLemma ==
  ASSUME NEW r, NEW new, r.dev \in Device
  PROVE  Enter(r, new).dev.retries = r.dev.retries /\ Stamp(r).dev.retries = r.dev.retries
BY DEF Enter, Stamp, Returns, Device

\* A call that did not fail is stamped, and the status written beside the stamp.
LEMMA StampedLemma ==
  ASSUME NEW r, NEW new \in Status, r.dev \in Device, r.ok
  PROVE  Enter(Stamp(r), new).dev.connect_age = 0
BY DEF Enter, Stamp, Returns, Device

\* A script that can be started does not fail a link function.
LEMMA StartableLemma ==
  ASSUME NEW dv, NEW cmd \in Commands, Startable
  PROVE  LinkUp(dv, cmd).ok /\ LinkDown(dv, cmd).ok /\ LinkForceDown(dv, cmd).ok
BY DEF Startable, Commands, LinkUp, LinkDown, LinkForceDown, Returns

\* Taking a link down kills it, unless it is already going down, and counts no
\* retry (list_fns.c:671-690).
LEMMA ToDownRanLemma ==
  ASSUME NEW dv \in Device, NEW cmd \in Commands
  PROVE  LET r == ToDown(dv, cmd)
         IN  /\ r.ran = IF dv.status = "DISCONNECTING" THEN <<>> ELSE <<"force">>
             /\ r.dev.retries = dv.retries
             /\ Startable => r.ok
<1> DEFINE kill == LinkForceDown(dv, cmd)
<1>1. Done(dv).dev \in Device /\ Done(dv).ok /\ Done(dv).dev = dv
  BY DoneLemma
<1>2. /\ kill.dev \in Device /\ kill.ran = <<"force">>
      /\ kill.dev.retries = dv.retries /\ (Startable => kill.ok)
  <2>1. Sound(kill, dv)
    BY LinkForceDownLemma
  <2>2. /\ kill.ran = <<"force">> /\ kill.dev.retries = dv.retries
        /\ Startable => kill.ok
    BY RanLemma, KeepsRetriesLemma, StartableLemma
  <2>3. QED
    BY <2>1, <2>2 DEF Sound, Result
<1>3. CASE dv.status = "DISCONNECTING"
  <2>1. ToDown(dv, cmd) = Enter(Done(dv), "DOWN")
    BY <1>3 DEF ToDown
  <2>2. Enter(Done(dv), "DOWN").ok
    BY <1>1 DEF Enter, Returns
  <2>3. /\ Enter(Done(dv), "DOWN").ran = <<>>
        /\ Enter(Done(dv), "DOWN").dev.retries = dv.retries
    BY <1>1, RanLemma, TailRetriesLemma
  <2>4. QED
    BY <1>3, <2>1, <2>2, <2>3
<1>4. CASE dv.status # "DISCONNECTING"
  <2>1. ToDown(dv, cmd) = Enter(kill, "DOWN")
    BY <1>4 DEF ToDown
  <2> HIDE DEF kill
  <2>2. /\ Enter(kill, "DOWN").ok = kill.ok
        /\ Enter(kill, "DOWN").ran = <<"force">>
        /\ Enter(kill, "DOWN").dev.retries = dv.retries
    BY <1>2, RanLemma, TailRetriesLemma DEF Enter, Returns
  <2>3. QED
    BY <1>2, <1>4, <2>1, <2>2
<1>5. QED
  BY <1>3, <1>4

\* An attempt to dial runs the up script and uses up a retry, or finds no retry
\* left and gives the link up (list_fns.c:600-606).
LEMMA DialRanLemma ==
  ASSUME NEW dv \in Device, NEW cmd \in Commands
  PROVE  LET r == Dial(dv, cmd)
         IN  /\ dv.retries < 0 =>
                  /\ r.ran = IF dv.status = "DISCONNECTING" THEN <<>> ELSE <<"force">>
                  /\ r.dev.retries = dv.retries
                  /\ r.dev.status = IF r.ok THEN "DOWN" ELSE dv.status
             /\ ~(dv.retries < 0) =>
                  /\ r.ran = <<"up">>
                  /\ r.dev.retries < dv.retries
                  /\ r.dev.status = IF r.ok THEN "CONNECTING" ELSE dv.status
                  /\ r.dev.clients_connected = dv.clients_connected
             /\ Startable => r.ok
             /\ Startable /\ ~(dv.retries < 0) => r.dev.connect_age = 0
<1> DEFINE tried == [dv EXCEPT !.retries = Fewer(dv.retries)]
           r     == Dial(dv, cmd)
<1>1. tried \in Device /\ tried.status = dv.status
  BY RetriesLemma
<1>2. tried.retries = Fewer(dv.retries) /\ dv.retries \in Int
  BY DEF Device
<1>3. r = IF dv.retries < 0 THEN ToDown(tried, cmd)
          ELSE Enter(Stamp(LinkUp(tried, cmd)), "CONNECTING")
  BY DEF Dial
<1>4. CASE dv.retries < 0
  <2>1. tried.retries = dv.retries /\ r = ToDown(tried, cmd)
    BY <1>2, <1>3, <1>4 DEF Fewer
  <2> HIDE DEF tried, r
  <2>2. /\ r.ran = IF dv.status = "DISCONNECTING" THEN <<>> ELSE <<"force">>
        /\ r.dev.retries = dv.retries
        /\ Startable => r.ok
    BY <1>1, <2>1, ToDownRanLemma
  <2>3. r.dev.status = IF r.ok THEN "DOWN" ELSE dv.status
    BY <1>1, <2>1, ToDownLemma
  <2>4. QED
    BY <1>2, <1>4, <2>2, <2>3 DEF r
<1>5. CASE ~(dv.retries < 0)
  <2> DEFINE up == LinkUp(tried, cmd)
  <2>1. tried.retries < dv.retries /\ r = Enter(Stamp(up), "CONNECTING")
    BY <1>2, <1>3, <1>5 DEF Fewer
  <2>2. /\ Sound(up, tried) /\ up.dev \in Device /\ up.dev.status = dv.status
        /\ up.dev.retries = tried.retries /\ up.ran = <<"up">> /\ (Startable => up.ok)
        /\ ~up.cleared
    <3> HIDE DEF tried
    <3>1. Sound(up, tried) /\ up.dev.status = tried.status
      BY <1>1, LinkUpLemma
    <3>2. up.dev.retries = tried.retries
      BY <1>1, KeepsRetriesLemma
    <3>3. up.ran = <<"up">> /\ (Startable => up.ok) /\ ~up.cleared
      BY RanLemma, StartableLemma, LinkScriptsLemma
    <3>4. QED
      BY <1>1, <3>1, <3>2, <3>3 DEF Sound, Result
  <2>3. ~r.cleared
    <3> HIDE DEF up
    <3>1. QED
      BY <2>1, <2>2, TailLemma
  <2> HIDE DEF tried, r, up
  <2>4. /\ Sound(Stamp(up), tried) /\ Stamp(up).dev \in Device
        /\ Stamp(up).ok = up.ok /\ Stamp(up).dev.status = dv.status
        /\ Stamp(up).dev.retries = tried.retries /\ Stamp(up).ran = <<"up">>
    BY <1>1, <2>2, StampLemma, TailRetriesLemma, RanLemma DEF Sound, Result
  <2>5. /\ Sound(r, tried) /\ r.ok = up.ok
        /\ r.dev.status = IF r.ok THEN "CONNECTING" ELSE dv.status
        /\ r.dev.retries = tried.retries /\ r.ran = <<"up">>
    BY <1>1, <2>1, <2>4, EnterLemma, TailRetriesLemma, RanLemma DEF Status
  <2>6. tried.clients_connected = dv.clients_connected
    BY RetriesLemma DEF tried
  <2>7. Startable => r.dev.connect_age = 0
    BY <2>1, <2>2, <2>4, StampedLemma DEF Status
  <2>8. QED
    BY <1>2, <1>5, <2>1, <2>2, <2>3, <2>5, <2>6, <2>7 DEF r, Sound
<1>6. QED
  BY <1>4, <1>5

\* The scripts of two calls, one after the other (list_fns.c:595-603).
LEMMA PairLemma ==
  <<"force">> \o <<>> = <<"force">> /\ <<"force">> \o <<"up">> = <<"force", "up">>
<1> DEFINE two  == <<"force">> \o <<"up">>
           pair == <<"force", "up">>
<1>1. <<"force">> \o <<>> = <<"force">>
  OBVIOUS
<1>2. two \in Seq({"force", "up"}) /\ pair \in Seq({"force", "up"})
  OBVIOUS
<1>3. Len(two) = 2 /\ Len(pair) = 2 /\ two[1] = pair[1] /\ two[2] = pair[2]
  OBVIOUS
<1> HIDE DEF two, pair
<1>4. two = pair
  <2>1. \A i \in 1 .. Len(two) : two[i] = pair[i]
    BY <1>3
  <2>2. QED
    BY <1>2, <1>3, <2>1, SeqEqual
<1>5. QED
  BY <1>1, <1>4 DEF two, pair

\* A link on its way down is killed, and dialled if that and the retries allow it
\* (list_fns.c:594-606).
LEMMA KillAndDialRanLemma ==
  ASSUME NEW dv \in Device, NEW cmd \in Commands, dv.status = "DISCONNECTING"
  PROVE  LET r == KillAndDial(dv, cmd)
         IN  /\ r.ran \in {<<"force">>, <<"force", "up">>}
             /\ r.dev.status \in {"DISCONNECTING", "DOWN", "CONNECTING"}
             /\ r.ran = <<"force">> => r.dev.status # "CONNECTING"
             /\ r.ran = <<"force", "up">> => g_retries >= 0 /\ r.dev.retries < g_retries
             /\ Startable => /\ r.ok
                             /\ r.ran = <<"force">> => r.dev.status = "DOWN"
                             /\ r.ran = <<"force", "up">> => /\ r.dev.status = "CONNECTING"
                                                           /\ r.dev.connect_age = 0
<1> DEFINE kill == LinkForceDown(dv, cmd)
           dial == Dial(AllRetries(kill.dev), cmd)
           r    == KillAndDial(dv, cmd)
<1>1. /\ kill.dev \in Device /\ kill.dev.status = "DISCONNECTING"
      /\ kill.ran = <<"force">> /\ (Startable => kill.ok)
  <2>1. Sound(kill, dv) /\ kill.dev.status = dv.status
    BY LinkForceDownLemma
  <2>2. kill.ran = <<"force">> /\ (Startable => kill.ok)
    BY RanLemma, StartableLemma
  <2>3. QED
    BY <2>1, <2>2 DEF Sound, Result
<1>2. /\ AllRetries(kill.dev) \in Device /\ AllRetries(kill.dev).status = "DISCONNECTING"
      /\ AllRetries(kill.dev).retries = g_retries /\ g_retries \in Int
  BY <1>1, RetriesLemma, RetriesAssumption DEF AllRetries, Device
<1>3. /\ dial.ran = <<>> \/ dial.ran = <<"up">>
      /\ dial.ran = <<>> => dial.dev.status = IF dial.ok THEN "DOWN" ELSE "DISCONNECTING"
      /\ dial.ran = <<"up">> =>
           /\ dial.dev.status = IF dial.ok THEN "CONNECTING" ELSE "DISCONNECTING"
           /\ g_retries >= 0 /\ dial.dev.retries < g_retries
           /\ Startable => dial.dev.connect_age = 0
      /\ Startable => dial.ok
  <2>1. <<>> # <<"up">>
    OBVIOUS
  <2>2. QED
    BY <1>2, <2>1, DialRanLemma
<1>4. r = IF kill.ok THEN Then(kill, dial) ELSE kill
  BY DEF KillAndDial
<1> HIDE DEF kill, dial, r
<1>5. <<"force">> \o <<>> = <<"force">> /\ <<"force">> \o <<"up">> = <<"force", "up">>
  BY PairLemma
<1>6. <<"force">> # <<"force", "up">>
  OBVIOUS
<1>7. CASE kill.ok
  <2>1. r.ran = kill.ran \o dial.ran /\ r.dev = dial.dev /\ r.ok = dial.ok
    BY <1>4, <1>7 DEF Then, Returns
  <2>2. QED
    BY <1>1, <1>3, <1>5, <1>6, <2>1 DEF r
<1>8. CASE ~kill.ok
  BY <1>1, <1>4, <1>6, <1>8 DEF r
<1>9. QED
  BY <1>7, <1>8

-----------------------------------------------------------------------------
(***************************************************************************)
(* Every place that calls a link function is orderly.                      *)
(***************************************************************************)
\* A step that runs no script and leaves the status and the retries alone.
LEMMA NoScriptLemma ==
  ASSUME NEW old \in Device, NEW new \in Device,
         new.status = old.status, new.retries = old.retries,
         new.clients_connected = {} =>
           old.clients_connected = {} \/ old.status \notin {"UP", "CONNECTING"},
         \E c : old.clients_connected \ new.clients_connected \subseteq {c}
  PROVE  /\ Orderly(old, new, <<>>) /\ GoesOn(old, new, <<>>)
         /\ new.connect_age = old.connect_age => Proper(old, new, <<>>)
<1>1. /\ <<>> \in Runnable /\ <<>> \notin Dialling /\ <<>> # <<"force">>
      /\ old.retries \in Int
  BY TuplesLemma DEF Runnable, Device
<1>2. CostsOne(old, new, <<>>)
  BY DEF CostsOne
<1>3. GoesOn(old, new, <<>>)
  BY <1>1 DEF GoesOn
<1>4. QED
  BY <1>1, <1>2, <1>3 DEF Orderly, Proper, DialsWell, Counts, TakesEffect, EndsUse, Stamps

\* alter_device_status (DOWN): the peer's ISDOWN, FORCE_DOWN, and a link that is
\* given up; FORCE_DOWN also empties the list of users (process_client.c:91-94).
LEMMA ToDownOrderlyLemma ==
  ASSUME NEW dv \in Device, NEW cmd \in Commands, NEW new \in Device,
         dv.status = "DISCONNECTING" => dv.clients_connected = {},
         LET r == ToDown(dv, cmd)
         IN  new = r.dev \/ (r.ok /\ new = NoUsers(r).dev)
  PROVE  Proper(dv, new, ToDown(dv, cmd).ran)
<1> DEFINE r == ToDown(dv, cmd)
<1>1. /\ r.dev \in Device
      /\ r.dev.status = IF r.ok THEN "DOWN" ELSE dv.status
      /\ r.dev.clients_connected = IF r.cleared THEN {} ELSE dv.clients_connected
  BY ToDownLemma DEF Sound, Result
<1>2. /\ r.ran = IF dv.status = "DISCONNECTING" THEN <<>> ELSE <<"force">>
      /\ r.dev.retries = dv.retries
      /\ Startable => r.ok
  BY ToDownRanLemma
<1>3. new = r.dev \/ (r.ok /\ new = NoUsers(r).dev)
  OBVIOUS
<1> HIDE DEF r
<1>4. NoUsers(r).dev = [r.dev EXCEPT !.clients_connected = {}]
  BY DEF NoUsers, Returns
<1>5. /\ new.status = IF r.ok THEN "DOWN" ELSE dv.status
      /\ new.retries = dv.retries
  BY <1>1, <1>2, <1>3, <1>4 DEF Device
<1>6. r.ran \in Runnable /\ r.ran \notin Dialling /\ dv.retries \in Int
  BY <1>2, TuplesLemma DEF Runnable, Device
<1>7. DialsWell(dv, new, r.ran) /\ Counts(dv, new, r.ran)
  BY <1>5, <1>6 DEF DialsWell, Counts, GoesOn
<1>8. TakesEffect(dv, new, r.ran) /\ EndsUse(dv, new, r.ran) /\ Stamps(dv, new, r.ran)
  BY <1>2, <1>5, <1>6 DEF TakesEffect, EndsUse, CostsOne, Stamps
<1>9. CostsOne(dv, new, r.ran)
  BY <1>2, TuplesLemma DEF CostsOne
<1>10. QED
  BY <1>6, <1>7, <1>8, <1>9 DEF Orderly, Proper, r

\* A redial after the connect timeout (list_fns.c:121-123).
LEMMA RedialOrderlyLemma ==
  ASSUME NEW dv \in Device, NEW cmd \in Commands, dv.status = "CONNECTING"
  PROVE  /\ Proper(dv, Dial(dv, cmd).dev, Dial(dv, cmd).ran)
         /\ GoesOn(dv, Dial(dv, cmd).dev, Dial(dv, cmd).ran)
<1> DEFINE r == Dial(dv, cmd)
<1>1. r.dev.retries \in Int
  <2>1. Sound(r, dv)
    BY DialLemma
  <2> HIDE DEF r
  <2>2. QED
    BY <2>1 DEF Sound, Result, Device
<1>2. /\ dv.retries < 0 =>
           /\ r.ran = <<"force">>
           /\ r.dev.retries = dv.retries
           /\ r.dev.status = IF r.ok THEN "DOWN" ELSE dv.status
      /\ ~(dv.retries < 0) =>
           /\ r.ran = <<"up">>
           /\ r.dev.retries < dv.retries
           /\ r.dev.status = IF r.ok THEN "CONNECTING" ELSE dv.status
           /\ r.dev.clients_connected = dv.clients_connected
      /\ Startable => r.ok
      /\ Startable /\ ~(dv.retries < 0) => r.dev.connect_age = 0
  BY DialRanLemma
<1>3. /\ dv.retries \in Int
      /\ <<"force">> \notin Dialling /\ <<"force">> \in Runnable
      /\ <<"up">> \in Dialling /\ <<"up">> \in Runnable /\ <<"up">> # <<"force">>
  BY TuplesLemma DEF Device, Runnable, Dialling
<1> HIDE DEF r
<1>4. CASE dv.retries < 0
  <2>1. /\ r.ran = <<"force">> /\ r.dev.retries = dv.retries
        /\ r.dev.status = IF r.ok THEN "DOWN" ELSE dv.status
        /\ Startable => r.ok
    BY <1>2, <1>4
  <2>2. QED
    BY <1>3, <2>1, TuplesLemma DEF r, Orderly, Proper, DialsWell, Counts, GoesOn,
      TakesEffect, EndsUse, CostsOne, Stamps
<1>5. CASE ~(dv.retries < 0)
  <2>1. /\ r.ran = <<"up">> /\ r.dev.retries < dv.retries
        /\ r.dev.status = "CONNECTING"
        /\ r.dev.clients_connected = dv.clients_connected
    BY <1>2, <1>5
  <2> HIDE DEF r
  <2>2. /\ r.ran \in Runnable /\ DialsWell(dv, r.dev, r.ran)
        /\ EndsUse(dv, r.dev, r.ran) /\ CostsOne(dv, r.dev, r.ran)
    BY <1>3, <2>1 DEF DialsWell, EndsUse, CostsOne
  <2>3. TakesEffect(dv, r.dev, r.ran) /\ Stamps(dv, r.dev, r.ran)
    BY <1>2, <1>3, <1>5, <2>1 DEF TakesEffect, Stamps
  <2>4. GoesOn(dv, r.dev, r.ran)
    <3>1. \A m, n \in Int : m < n => m <= n
      OBVIOUS
    <3>2. dv.retries >= 0
      BY <1>3, <1>5
    <3>3. QED
      BY <1>1, <1>3, <2>1, <3>1, <3>2 DEF GoesOn
  <2>5. QED
    BY <2>2, <2>3, <2>4 DEF r, Orderly, Proper, Counts
<1>6. QED
  BY <1>4, <1>5

\* UP <device> for a link without users dials it, and enters the client if that did
\* not fail (list_fns.c:457-474).
FirstUser(r, c) ==
    IF r.ok THEN [r.dev EXCEPT !.clients_connected = @ \cup {c}] ELSE r.dev

\* The call that the first user makes is orderly.
LEMMA ConnectOrderlyLemma ==
  ASSUME NEW dv \in Device, NEW c \in Clients, NEW cmd \in Commands
  PROVE  LET r == DialIfUnused(dv, cmd)
         IN  /\ FirstUser(r, c) \in Device
             /\ Proper(dv, FirstUser(r, c), r.ran)
<1> DEFINE r   == DialIfUnused(dv, cmd)
           new == FirstUser(r, c)
           all == AllRetries(dv)
<1>1. Sound(r, dv) /\ r.dev \in Device
  BY DialIfUnusedLemma DEF Sound, Result
<1>2. /\ new \in Device
      /\ new.status = r.dev.status /\ new.retries = r.dev.retries
      /\ new.connect_age = r.dev.connect_age
      /\ r.ok => new.clients_connected # {}
      /\ r.dev.clients_connected \subseteq new.clients_connected
  <2> HIDE DEF r
  <2>1. QED
    BY <1>1 DEF FirstUser, Device
<1>3. /\ all \in Device /\ all.status = dv.status
      /\ all.clients_connected = dv.clients_connected
      /\ all.retries = g_retries /\ AllRetries(all).retries = g_retries
  BY RetriesLemma DEF Device, AllRetries
<1>4. CASE dv.clients_connected # {}
  <2>1. r = Done(dv)
    BY <1>4 DEF DialIfUnused
  <2>2. r.ran = <<>> /\ r.dev = dv
    BY <2>1, DoneLemma, RanLemma
  <2> HIDE DEF r, new, all
  <2>3. Proper(dv, new, <<>>)
    BY <1>2, <1>4, <2>2, NoScriptLemma
  <2>4. QED
    BY <1>2, <2>2, <2>3 DEF r, new
<1>5. CASE dv.clients_connected = {}
  <2>1. r = ToConnecting(all, cmd)
    BY <1>5 DEF DialIfUnused, AlterDeviceStatus
  <2>2. /\ r.ran \in Runnable
        /\ DialsWell(dv, r.dev, r.ran)
        /\ StartsOver(dv, r.dev, r.ran)
        /\ Startable => /\ r.ran \in Dialling => r.dev.status = "CONNECTING"
                        /\ r.ran = <<"force">> => r.dev.status # "UP"
                        /\ r.ok \/ (dv.status = "UP" /\ r.dev.status = "UP")
                        /\ r.dev.status = "CONNECTING" => r.dev.connect_age = 0
    <3> HIDE DEF r, all
    <3>1. CASE dv.status \in {"DOWN", "CONNECTING"}
      <4>1. r = Dial(all, cmd) \/ r = Dial(AllRetries(all), cmd)
        BY <1>3, <2>1, <3>1 DEF ToConnecting
      <4>2. PICK x \in Device : /\ x.status = dv.status /\ x.retries = g_retries
                                /\ r = Dial(x, cmd)
        BY <1>3, <4>1, RetriesLemma
      <4>3. /\ r.ran \in {<<"force">>, <<"up">>}
            /\ r.ran = <<"force">> =>
                 /\ r.dev.status = IF r.ok THEN "DOWN" ELSE dv.status
                 /\ g_retries < 0 /\ r.dev.retries = g_retries
            /\ r.ran = <<"up">> =>
                 /\ r.dev.status = IF r.ok THEN "CONNECTING" ELSE dv.status
                 /\ ~(g_retries < 0) /\ r.dev.retries < g_retries
            /\ Startable => r.ok
            /\ Startable /\ r.ran = <<"up">> => r.dev.connect_age = 0
        BY <3>1, <4>2, DialRanLemma, TuplesLemma
      <4>4. ~(g_retries < 0) => g_retries >= 0
        BY RetriesAssumption
      <4>5. StartsOver(dv, r.dev, r.ran)
        BY <3>1, <4>3, <4>4, TuplesLemma DEF StartsOver, Dialling
      <4>6. QED
        BY <3>1, <4>3, <4>5, TuplesLemma DEF DialsWell, Runnable, Dialling
    <3>2. CASE dv.status = "DISCONNECTING"
      <4>1. r = KillAndDial(all, cmd)
        BY <1>3, <2>1, <3>2 DEF ToConnecting
      <4>2. /\ r.ran \in {<<"force">>, <<"force", "up">>}
            /\ r.dev.status \in {"DISCONNECTING", "DOWN", "CONNECTING"}
            /\ r.ran = <<"force">> => r.dev.status # "CONNECTING"
            /\ r.ran = <<"force", "up">> => g_retries >= 0 /\ r.dev.retries < g_retries
            /\ Startable => /\ r.ok
                            /\ r.ran = <<"force">> => r.dev.status = "DOWN"
                            /\ r.ran = <<"force", "up">> => /\ r.dev.status = "CONNECTING"
                                                          /\ r.dev.connect_age = 0
        BY <1>3, <3>2, <4>1, KillAndDialRanLemma
      <4>3. StartsOver(dv, r.dev, r.ran)
        BY <4>2, TuplesLemma DEF StartsOver, Dialling
      <4>4. QED
        BY <3>2, <4>2, <4>3, TuplesLemma DEF DialsWell, Runnable, Dialling
    <3>3. CASE dv.status = "UP"
      <4>1. r = Invalid(all)
        BY <1>3, <2>1, <3>3 DEF ToConnecting
      <4>2. r.ran = <<>> /\ r.dev.status = "UP"
        BY <1>3, <3>3, <4>1, DoneLemma, RanLemma
      <4>3. QED
        BY <3>3, <4>2, TuplesLemma DEF DialsWell, StartsOver, Runnable
    <3>4. QED
      BY <3>1, <3>2, <3>3 DEF Device, Status
  <2> HIDE DEF r, new, all
  <2>3. DialsWell(dv, new, r.ran)
    BY <1>2, <2>2 DEF DialsWell
  <2>4. TakesEffect(dv, new, r.ran) /\ Stamps(dv, new, r.ran)
    BY <1>2, <1>5, <2>2 DEF TakesEffect, Stamps
  <2>5. Counts(dv, new, r.ran) /\ EndsUse(dv, new, r.ran) /\ CostsOne(dv, new, r.ran)
    BY <1>2, <1>5, <2>2 DEF Counts, StartsOver, EndsUse, CostsOne
  <2>6. QED
    BY <1>2, <2>2, <2>3, <2>4, <2>5 DEF r, new, Orderly, Proper
<1>6. QED
  BY <1>4, <1>5

\* DOWN <device>, and a client that is forgotten: the last user hangs up
\* (list_fns.c:479-507).
LEMMA HangUpOrderlyLemma ==
  ASSUME NEW dv \in Device, NEW c \in Clients, NEW cmd \in Commands,
         dv.status = "DISCONNECTING" => dv.clients_connected = {}
  PROVE  LET r == HangUpIfLast(dv, c, cmd)
         IN  r.dev \in Device /\ Proper(dv, r.dev, r.ran)
<1> DEFINE left == [dv EXCEPT !.clients_connected = dv.clients_connected \ {c}]
           r    == HangUpIfLast(dv, c, cmd)
<1>1. /\ left \in Device /\ left.status = dv.status /\ left.retries = dv.retries
      /\ left.connect_age = dv.connect_age
      /\ left.clients_connected = dv.clients_connected \ {c}
  BY DEF Device
<1>2. r.dev \in Device
  BY HangUpIfLastLemma DEF Result
<1>3. r = IF c \in dv.clients_connected /\ left.clients_connected = {}
          THEN AlterDeviceStatus(left, "DISCONNECTING", cmd)
          ELSE Done(left)
  BY DEF HangUpIfLast
<1> HIDE DEF left, r
<1>4. CASE c \in dv.clients_connected /\ left.clients_connected = {}
  <2>1. r = ToDisconnecting(left, cmd) /\ dv.status # "DISCONNECTING"
    BY <1>3, <1>4 DEF AlterDeviceStatus
  <2>2. CASE dv.status = "DOWN"
    <3>1. r.ran = <<>> /\ r.dev = left
      BY <1>1, <2>1, <2>2, DoneLemma, RanLemma DEF ToDisconnecting
    <3>2. Proper(dv, r.dev, <<>>)
      BY <1>1, <1>2, <2>2, <3>1, NoScriptLemma
    <3>3. QED
      BY <1>2, <3>1, <3>2 DEF r
  <2>3. CASE dv.status \in {"CONNECTING", "UP"}
    <3> DEFINE s == IF dv.status = "UP" THEN LinkDown(left, cmd)
                                        ELSE LinkForceDown(left, cmd)
    <3>1. r = Enter(s, "DISCONNECTING")
      BY <1>1, <2>1, <2>3 DEF ToDisconnecting
    <3>2. /\ Sound(s, left) /\ s.dev \in Device /\ s.dev.status = dv.status
          /\ s.dev.retries = dv.retries
          /\ s.ran \in {<<"down">>, <<"force">>}
          /\ Startable => s.ok
      <4>1. CASE dv.status = "UP"
        <5>1. s = LinkDown(left, cmd)
          BY <4>1
        <5> HIDE DEF s
        <5>2. Sound(s, left) /\ s.dev.status = dv.status
          BY <1>1, <5>1, LinkDownLemma
        <5>3. s.dev.retries = dv.retries /\ s.ran = <<"down">> /\ (Startable => s.ok)
          BY <1>1, <5>1, KeepsRetriesLemma, RanLemma, StartableLemma
        <5>4. QED
          BY <5>2, <5>3 DEF Sound, Result
      <4>2. CASE dv.status # "UP"
        <5>1. s = LinkForceDown(left, cmd)
          BY <4>2
        <5> HIDE DEF s
        <5>2. Sound(s, left) /\ s.dev.status = dv.status
          BY <1>1, <5>1, LinkForceDownLemma
        <5>3. s.dev.retries = dv.retries /\ s.ran = <<"force">> /\ (Startable => s.ok)
          BY <1>1, <5>1, KeepsRetriesLemma, RanLemma, StartableLemma
        <5>4. QED
          BY <5>2, <5>3 DEF Sound, Result
      <4>3. QED
        BY <4>1, <4>2
    <3> HIDE DEF s
    <3>3. /\ r.dev.status = IF s.ok THEN "DISCONNECTING" ELSE dv.status
          /\ r.dev.retries = dv.retries /\ r.ran = s.ran
      <4>1. r.dev.status = IF s.ok THEN "DISCONNECTING" ELSE s.dev.status
        BY <1>1, <3>1, <3>2, EnterLemma DEF Status
      <4>2. r.dev.retries = s.dev.retries
        BY <3>1, <3>2, TailRetriesLemma
      <4>3. r.ran = s.ran
        BY <3>1, RanLemma
      <4>4. QED
        BY <3>2, <4>1, <4>2, <4>3
    <3>4. r.ran \in Runnable /\ r.ran \notin Dialling /\ dv.retries \in Int
      BY <3>2, <3>3, TuplesLemma DEF Runnable, Device
    <3>5. DialsWell(dv, r.dev, r.ran) /\ Counts(dv, r.dev, r.ran)
      BY <3>3, <3>4 DEF DialsWell, Counts, GoesOn
    <3>6. TakesEffect(dv, r.dev, r.ran) /\ EndsUse(dv, r.dev, r.ran) /\ Stamps(dv, r.dev, r.ran)
      BY <3>2, <3>3, <3>4 DEF TakesEffect, EndsUse, CostsOne, Stamps
    <3>7. CostsOne(dv, r.dev, r.ran)
      BY <1>1, <1>4 DEF CostsOne
    <3>8. QED
      BY <1>2, <3>4, <3>5, <3>6, <3>7 DEF r, Orderly, Proper
  <2>4. QED
    BY <2>1, <2>2, <2>3 DEF Device, Status
<1>5. CASE ~(c \in dv.clients_connected /\ left.clients_connected = {})
  <2>1. r.ran = <<>> /\ r.dev = left
    BY <1>1, <1>3, <1>5, DoneLemma, RanLemma
  <2>2. Proper(dv, r.dev, <<>>)
    BY <1>1, <1>2, <1>5, <2>1, NoScriptLemma
  <2>3. QED
    BY <1>2, <2>1, <2>2 DEF r
<1>6. QED
  BY <1>4, <1>5

\* ISUP <device>: the call is answered, or nothing happens (list_fns.c:649-670).
LEMMA ToUpOrderlyLemma ==
  ASSUME NEW dv \in Device
  PROVE  Proper(dv, ToUp(dv).dev, ToUp(dv).ran)
<1> DEFINE r == ToUp(dv)
<1>1. /\ r.dev \in Device
      /\ r.dev.clients_connected = dv.clients_connected
      /\ IF r.ok THEN dv.status = "CONNECTING" /\ r.dev.status = "UP" ELSE r.dev = dv
  BY ToUpLemma DEF Sound, Result
<1>2. r.ran = <<>>
  BY RanLemma DEF ToUp
<1>3. <<>> \in Runnable /\ <<>> \notin Dialling /\ <<>> # <<"force">> /\ dv.retries \in Int
  BY TuplesLemma DEF Runnable, Device
<1> HIDE DEF r
<1>4. CASE r.dev = dv
  BY <1>1, <1>2, <1>4, NoScriptLemma DEF r
<1>5. CASE dv.status = "CONNECTING" /\ r.dev.status = "UP"
  <2>1. CostsOne(dv, r.dev, r.ran)
    BY <1>1 DEF CostsOne
  <2>2. GoesOn(dv, r.dev, r.ran)
    BY <1>2, <1>3, <1>5 DEF GoesOn
  <2>3. QED
    BY <1>1, <1>2, <1>3, <1>5, <2>1, <2>2
    DEF r, Orderly, Proper, DialsWell, Counts, TakesEffect, EndsUse, Stamps
<1>6. QED
  BY <1>1, <1>4, <1>5

\* The sweep over the links redials or gives up, kills what should have hung up, or
\* leaves a link alone (list_fns.c:115-145).
LEMMA TimeoutOrderlyLemma ==
  ASSUME NEW dv \in Device, NEW cmd \in Commands,
         dv.status = "DISCONNECTING" => dv.clients_connected = {}
  PROVE  LET r == IF Overdue(dv) THEN AlterDeviceStatus(dv, dv.status, cmd) ELSE Done(dv)
         IN  Proper(dv, r.dev, r.ran) /\ GoesOn(dv, r.dev, r.ran)
<1> DEFINE r == IF Overdue(dv) THEN AlterDeviceStatus(dv, dv.status, cmd) ELSE Done(dv)
<1>1. CASE ~Overdue(dv)
  <2>1. r.dev = dv /\ r.ran = <<>>
    BY <1>1, DoneLemma, RanLemma
  <2>2. QED
    BY <2>1, NoScriptLemma
<1>2. CASE Overdue(dv) /\ dv.status = "CONNECTING"
  <2>1. r = Dial(dv, cmd)
    BY <1>2 DEF AlterDeviceStatus, ToConnecting
  <2>2. QED
    BY <1>2, <2>1, RedialOrderlyLemma
<1>3. CASE Overdue(dv) /\ dv.status = "DISCONNECTING"
  <2> DEFINE kill == LinkForceDown(dv, cmd)
  <2>1. r = Enter(kill, "DOWN")
    BY <1>3 DEF AlterDeviceStatus, ToDisconnecting
  <2>2. /\ Sound(kill, dv) /\ kill.dev.status = dv.status
    BY LinkForceDownLemma
  <2>3. kill.dev.retries = dv.retries /\ kill.ran = <<"force">> /\ (Startable => kill.ok)
    BY KeepsRetriesLemma, RanLemma, StartableLemma
  <2> HIDE DEF r, kill
  <2>4. /\ Sound(r, dv) /\ r.dev.status = IF kill.ok THEN "DOWN" ELSE dv.status
        /\ r.ran = <<"force">>
    <3>1. Sound(r, dv) /\ r.dev.status = IF kill.ok THEN "DOWN" ELSE kill.dev.status
      BY <2>1, <2>2, EnterLemma DEF Status
    <3>2. r.ran = kill.ran
      BY <2>1, RanLemma
    <3>3. QED
      BY <2>2, <2>3, <3>1, <3>2
  <2>5. r.ran \in Runnable /\ r.ran \notin Dialling
    BY <2>4, TuplesLemma DEF Runnable
  <2>6. DialsWell(dv, r.dev, r.ran) /\ GoesOn(dv, r.dev, r.ran)
    BY <1>3, <2>4, <2>5 DEF DialsWell, GoesOn
  <2>7. TakesEffect(dv, r.dev, r.ran) /\ EndsUse(dv, r.dev, r.ran) /\ Stamps(dv, r.dev, r.ran)
    BY <1>3, <2>3, <2>4, <2>5 DEF TakesEffect, EndsUse, CostsOne, Stamps
  <2>8. CostsOne(dv, r.dev, r.ran)
    BY <2>4, TuplesLemma DEF CostsOne
  <2>9. QED
    BY <2>5, <2>6, <2>7, <2>8 DEF r, Orderly, Proper, Counts
<1>4. QED
  BY <1>1, <1>2, <1>3 DEF Overdue

-----------------------------------------------------------------------------
(***************************************************************************)
(* A step of the server calls a link function for one link, or touches no  *)
(* link but its stamps, or ends the process.                               *)
(***************************************************************************)
Runs(d, scripts) == ran' = [i \in DOMAIN scripts |-> <<d, scripts[i]>>]

CallsFor(d, scripts) ==
    /\ Proper(device[d], device'[d], scripts)
    /\ Runs(d, scripts)
    /\ \A e \in Devices \ {d} : device'[e] = device[e]

OneCall == \E d \in Devices, scripts \in Runnable : CallsFor(d, scripts)

Untouched(old, new) ==
    /\ new.status = old.status
    /\ new.clients_connected = old.clients_connected
    /\ new.retries = old.retries

Still == ran' = <<>> /\ UNCHANGED device

NoCall == ran' = <<>> /\ \A d \in Devices : Untouched(device[d], device'[d])

Ends == /\ ran' = <<>>
        /\ pc' = "exited"
        /\ \A d \in Devices : device'[d] = NewDevice

\* The calls of alter_device_status() outside of the two list functions.
LEMMA AlterCallLemma ==
  ASSUME device \in [Devices -> Device], NEW d \in Devices, NEW r,
         NEW table, NEW known,
         Proper(device[d], r.dev, r.ran), Alter(d, r, table, known)
  PROVE  OneCall
<1>1. device' = [device EXCEPT ![d] = r.dev] /\ Runs(d, r.ran)
  BY DEF Alter, Runs
<1>2. r.ran \in Runnable
  BY DEF Orderly, Proper
<1>3. CallsFor(d, r.ran)
  BY <1>1 DEF CallsFor
<1>4. QED
  BY <1>2, <1>3 DEF OneCall

\* The two list functions.
LEMMA ListCallLemma ==
  ASSUME device \in [Devices -> Device], DisconnectingUnused,
         NEW c \in Clients, NEW d \in Devices, NEW cmd \in Commands,
         NEW table, NEW known,
         \/ ConnectClientToDevice(c, d, cmd, table, known)
         \/ DisconnectClientFromDevice(c, d, cmd, table, known)
  PROVE  OneCall
<1>1. /\ device[d] \in Device
      /\ device[d].status = "DISCONNECTING" => device[d].clients_connected = {}
  BY DEF DisconnectingUnused, Users
<1>2. CASE ConnectClientToDevice(c, d, cmd, table, known)
  <2> DEFINE r == DialIfUnused(device[d], cmd)
  <2>1. Proper(device[d], FirstUser(r, c), r.ran)
    BY <1>1, ConnectOrderlyLemma
  <2>2. device' = [device EXCEPT ![d] = FirstUser(r, c)] /\ Runs(d, r.ran)
    BY <1>2 DEF ConnectClientToDevice, FirstUser, Runs
  <2> HIDE DEF r
  <2>3. r.ran \in Runnable
    BY <2>1 DEF Orderly, Proper
  <2>4. CallsFor(d, r.ran)
    BY <2>1, <2>2 DEF CallsFor
  <2>5. QED
    BY <2>3, <2>4 DEF OneCall
<1>3. CASE DisconnectClientFromDevice(c, d, cmd, table, known)
  <2> DEFINE r == HangUpIfLast(device[d], c, cmd)
  <2>1. Proper(device[d], r.dev, r.ran)
    BY <1>1, HangUpOrderlyLemma
  <2>2. device' = [device EXCEPT ![d] = r.dev] /\ Runs(d, r.ran)
    BY <1>3 DEF DisconnectClientFromDevice, Runs
  <2> HIDE DEF r
  <2>3. r.ran \in Runnable
    BY <2>1 DEF Orderly, Proper
  <2>4. CallsFor(d, r.ran)
    BY <2>1, <2>2 DEF CallsFor
  <2>5. QED
    BY <2>3, <2>4 DEF OneCall
<1>4. QED
  BY <1>2, <1>3

\* FORCE_DOWN <device>
LEMMA ForceDownCallLemma ==
  ASSUME device \in [Devices -> Device], DisconnectingUnused,
         NEW c \in Clients, NEW d \in Devices,
         NEW cmd \in Commands, ClientForceDown(c, d, cmd)
  PROVE  OneCall
<1> DEFINE down == ToDown(device[d], cmd)
           r    == IF down.ok THEN NoUsers(down) ELSE down
<1>1. Alter(d, r, Heard(c), Known(c))
  BY DEF ClientForceDown, AlterDeviceStatus
<1>2. /\ device[d] \in Device /\ down.dev \in Device
      /\ device[d].status = "DISCONNECTING" => device[d].clients_connected = {}
  BY ToDownLemma DEF Sound, Result, DisconnectingUnused, Users
<1>3. r.ran = down.ran /\ (r.dev = down.dev \/ (down.ok /\ r.dev = NoUsers(down).dev))
  <2> HIDE DEF down
  <2>1. QED
    BY DEF NoUsers, Returns
<1>4. r.dev \in Device
  <2> HIDE DEF down
  <2>1. QED
    BY <1>2, <1>3 DEF NoUsers, Returns, Device
<1> HIDE DEF r
<1>5. Proper(device[d], r.dev, r.ran)
  BY <1>2, <1>3, <1>4, ToDownOrderlyLemma
<1>6. QED
  BY <1>1, <1>5, AlterCallLemma

\* A step in which no time passes leaves all links as they are, or is one of the other
\* two.
LEMMA ServerCallLemma ==
  ASSUME IInv, Start \/ ServerStep \/ Crash \/ Terminate
  PROVE  OneCall \/ Still \/ Ends
<1>1. device \in [Devices -> Device] /\ DisconnectingUnused
  BY DEF IInv, TypeOK
<1>2. CASE UNCHANGED device /\ ran' = <<>>
  BY <1>2 DEF Still
<1>3. CASE ClientSpeaks
  <2>1. ASSUME NEW c \in Clients, NEW d \in Devices, NEW cmd \in Commands,
               ClientUp(c, d, cmd) \/ ClientDown(c, d, cmd) \/ ClientForceDown(c, d, cmd)
        PROVE  OneCall
    BY <1>1, <2>1, ListCallLemma, ForceDownCallLemma DEF ClientUp, ClientDown
  <2>2. QED
    BY <1>2, <1>3, <2>1 DEF ClientSpeaks, ClientAsks, ClientPing
<1>4. CASE PeerSpeaks
  <2>1. ASSUME NEW d \in Devices, PeerIsUp(d)
        PROVE  OneCall
    BY <1>1, <2>1, ToUpOrderlyLemma, AlterCallLemma DEF PeerIsUp
  <2>2. ASSUME NEW d \in Devices, NEW cmd \in Commands, PeerIsDown(d, cmd)
        PROVE  OneCall
    <3>1. /\ Alter(d, ToDown(device[d], cmd), client, g_clients) /\ device[d] \in Device
          /\ device[d].status = "DISCONNECTING" => device[d].clients_connected = {}
      BY <1>1, <2>2 DEF PeerIsDown, AlterDeviceStatus, DisconnectingUnused, Users
    <3>2. ToDown(device[d], cmd).dev \in Device
      BY <3>1, ToDownLemma DEF Sound, Result
    <3>3. Proper(device[d], ToDown(device[d], cmd).dev, ToDown(device[d], cmd).ran)
      BY <3>1, <3>2, ToDownOrderlyLemma
    <3>4. QED
      BY <1>1, <3>1, <3>3, AlterCallLemma
  <2>3. QED
    BY <1>4, <2>1, <2>2 DEF PeerSpeaks
<1>5. CASE Sweep
  <2>1. ASSUME NEW d \in Devices, NEW cmd \in Commands, ExpireFromDevice(d, cmd)
        PROVE  OneCall
    <3>1. /\ leaving \in Clients
          /\ DisconnectClientFromDevice(leaving, d, cmd, client, g_clients)
      BY <2>1 DEF IInv, TypeOK, ExpireFromDevice
    <3>2. QED
      BY <1>1, <3>1, ListCallLemma
  <2>2. ASSUME NEW d \in Devices, NEW cmd \in Commands, TimeoutOldDevice(d, cmd)
        PROVE  OneCall
    <3> DEFINE dv == device[d]
               r  == IF Overdue(dv) THEN AlterDeviceStatus(dv, dv.status, cmd)
                                    ELSE Done(dv)
    <3>1. Alter(d, r, client, g_clients)
      BY <2>2 DEF TimeoutOldDevice
    <3>2. dv \in Device /\ (dv.status = "DISCONNECTING" => dv.clients_connected = {})
      BY <1>1 DEF DisconnectingUnused, Users
    <3>3. Proper(dv, r.dev, r.ran)
      BY <3>2, TimeoutOrderlyLemma
    <3> HIDE DEF r
    <3>4. QED
      BY <1>1, <3>1, <3>3, AlterCallLemma
  <2>3. QED
    BY <1>2, <1>5, <2>1, <2>2
    DEF Sweep, TimeoutOldClient, FreeClient, ClientsSwept, DevicesSwept, Quiet
<1>6. CASE Quit \/ Crash
  BY <1>6 DEF Quit, Crash, Exit, Ends
<1>7. QED
  BY <1>2, <1>3, <1>4, <1>5, <1>6
  DEF ServerStep, Start, TestKeepGoing, NothingToDo, SelectInterrupted,
      BroadcastStatus, Terminate, Quiet

\* Every step of the server is one of the three.
LEMMA CallLemma ==
  ASSUME IInv, Next
  PROVE  OneCall \/ NoCall \/ Ends
<1>1. device \in [Devices -> Device]
  BY DEF IInv, TypeOK
<1>2. CASE Tick
  BY <1>1, <1>2 DEF Tick, Quiet, NoCall, Untouched, Device
<1>3. Still => NoCall
  BY DEF Still, NoCall, Untouched
<1>4. QED
  BY <1>2, <1>3, ServerCallLemma DEF Next

\* What RunsScript sees of a call.
LEMMA RunsScriptLemma ==
  ASSUME NEW d, NEW scripts \in Runnable, Runs(d, scripts), NEW e
  PROVE  /\ RunsScript(e, "up") <=> e = d /\ scripts \in Dialling
         /\ RunsScript(e, "down") <=> e = d /\ scripts = <<"down">>
         /\ RunsScript(e, "force") <=> e = d /\ scripts \in {<<"force">>, <<"force", "up">>}
<1>1. \A x : RunsScript(e, x) <=> e = d /\ \E i \in DOMAIN scripts : scripts[i] = x
  BY DEF RunsScript, Runs
<1>2. CASE scripts = <<>>
  <2>1. DOMAIN scripts = {}
    BY <1>2
  <2>2. QED
    BY <1>1, <1>2, <2>1, TuplesLemma
<1>3. ASSUME NEW x \in {"up", "down", "force"}, scripts = <<x>>
      PROVE  /\ RunsScript(e, "up") <=> e = d /\ scripts \in Dialling
             /\ RunsScript(e, "down") <=> e = d /\ scripts = <<"down">>
             /\ RunsScript(e, "force")
                  <=> e = d /\ scripts \in {<<"force">>, <<"force", "up">>}
  <2>1. DOMAIN scripts = {1} /\ scripts[1] = x
    BY <1>3
  <2>2. /\ scripts \in Dialling <=> x = "up"
        /\ scripts = <<"down">> <=> x = "down"
        /\ scripts \in {<<"force">>, <<"force", "up">>} <=> x = "force"
    BY <1>3 DEF Dialling
  <2>3. QED
    BY <1>1, <2>1, <2>2
<1>4. CASE scripts = <<"force", "up">>
  <2>1. DOMAIN scripts = {1, 2} /\ scripts[1] = "force" /\ scripts[2] = "up"
    BY <1>4
  <2>2. scripts # <<"down">> /\ scripts \in Dialling
    BY <1>4 DEF Dialling
  <2>3. QED
    BY <1>1, <1>4, <2>1, <2>2
<1>5. QED
  BY <1>2, <1>3, <1>4 DEF Runnable, Dialling

\* What the scripts of a step tell about one link.
Tells(d, scripts) ==
    /\ Orderly(device[d], device'[d], scripts)
    /\ RunsScript(d, "up") <=> scripts \in Dialling
    /\ RunsScript(d, "down") <=> scripts = <<"down">>
    /\ RunsScript(d, "force") <=> scripts \in {<<"force">>, <<"force", "up">>}
    /\ scripts = <<>> \/ Runs(d, scripts)

\* A step of the server does something orderly to every link, or ends the process.
LEMMA LinkLemma ==
  ASSUME IInv, Next, NEW d \in Devices
  PROVE  \/ pc' = "exited" /\ device'[d] = NewDevice /\ ran' = <<>>
         \/ \E scripts \in Runnable : Tells(d, scripts)
<1>1. IInv'
  BY NextLemma
<1>2. device[d] \in Device /\ device'[d] \in Device
  BY <1>1 DEF IInv, TypeOK
<1>3. <<>> \in Runnable /\ <<>> \notin Dialling
      /\ <<>> # <<"force">> /\ <<>> # <<"down">> /\ <<>> # <<"force", "up">>
  BY TuplesLemma DEF Runnable
<1>4. CASE Untouched(device[d], device'[d])
          /\ \A x \in {"up", "down", "force"} : ~RunsScript(d, x)
  <2>1. Orderly(device[d], device'[d], <<>>)
    BY <1>2, <1>4, NoScriptLemma DEF Untouched
  <2>2. Tells(d, <<>>)
    BY <1>3, <1>4, <2>1 DEF Tells
  <2>3. QED
    BY <1>3, <2>2
<1>5. CASE OneCall
  <2>1. PICK e \in Devices, scripts \in Runnable : CallsFor(e, scripts)
    BY <1>5 DEF OneCall
  <2>2. /\ RunsScript(d, "up") <=> d = e /\ scripts \in Dialling
        /\ RunsScript(d, "down") <=> d = e /\ scripts = <<"down">>
        /\ RunsScript(d, "force") <=> d = e /\ scripts \in {<<"force">>, <<"force", "up">>}
    BY <2>1, RunsScriptLemma DEF CallsFor
  <2>3. CASE d = e
    <3>1. Tells(d, scripts)
      BY <2>1, <2>2, <2>3 DEF Tells, CallsFor, Proper
    <3>2. QED
      BY <3>1
  <2>4. CASE d # e
    <3>1. Untouched(device[d], device'[d])
      BY <2>1, <2>4 DEF CallsFor, Untouched
    <3>2. QED
      BY <1>4, <2>2, <2>4, <3>1
  <2>5. QED
    BY <2>3, <2>4
<1>6. CASE NoCall
  <2>1. \A x : ~RunsScript(d, x)
    BY <1>6 DEF NoCall, RunsScript
  <2>2. QED
    BY <1>4, <1>6, <2>1 DEF NoCall
<1>7. CASE Ends
  BY <1>7 DEF Ends
<1>8. QED
  BY <1>5, <1>6, <1>7, CallLemma

-----------------------------------------------------------------------------
(***************************************************************************)
(* The theorems.                                                           *)
(***************************************************************************)
\* list_fns.c:594-597, with any number of clients and links and whatever the scripts
\* return: a link on its way down is dialled only right after it was killed, and no
\* other link's script comes between the two.
THEOREM RedialTheorem == Spec => RedialKillsFirst
<1>1. ASSUME IInv, Next, NEW d \in Devices,
             device[d].status = "DISCONNECTING", RunsScript(d, "up")
      PROVE  ran' = <<<<d, "force">>, <<d, "up">>>>
  <2>1. ran' # <<>>
    BY <1>1 DEF RunsScript
  <2>2. PICK scripts \in Runnable : Tells(d, scripts)
    BY <1>1, <2>1, LinkLemma
  <2>3. scripts = <<"force", "up">> /\ Runs(d, scripts)
    BY <1>1, <2>2, TuplesLemma DEF Tells, Orderly, DialsWell
  <2>4. ran' = [i \in {1, 2} |-> <<d, scripts[i]>>]
    BY <2>3 DEF Runs
  <2>5. QED
    BY <2>3, <2>4
<1>2. IInv /\ [Next]_vars =>
        [\A d \in Devices :
           device[d].status = "DISCONNECTING" /\ RunsScript(d, "up")
             => ran' = <<<<d, "force">>, <<d, "up">>>>]_vars
  BY <1>1
<1>3. QED
  BY <1>2, InvariantTheorem, PTL DEF Spec, RedialKillsFirst

\* list_fns.c:481-483, with any number of clients, links and retries: as long as
\* scripts can be started, working or not, no link is up or dialled for nobody.
THEOREM UnusedTheorem == Startable /\ Spec => []UnusedLinkReleased
<1> SUFFICES ASSUME Startable PROVE Spec => []UnusedLinkReleased
  OBVIOUS
<1>1. Init => UnusedLinkReleased
  BY DEF Init, NewDevice, UnusedLinkReleased
<1>2. ASSUME IInv, UnusedLinkReleased, Next
      PROVE  UnusedLinkReleased'
  <2> SUFFICES ASSUME NEW d \in Devices,
                      device'[d].status \in {"UP", "CONNECTING"}, Users(d)' = {}
               PROVE  FALSE
    BY DEF UnusedLinkReleased
  <2>1. device'[d] # NewDevice
    BY DEF NewDevice
  <2>2. PICK scripts \in Runnable : Tells(d, scripts)
    BY <1>2, <2>1, LinkLemma
  <2>3. device[d].status \in {"UP", "CONNECTING"} /\ Users(d) = {}
    BY <2>2 DEF Tells, Orderly, TakesEffect, Users
  <2>4. QED
    BY <1>2, <2>3 DEF UnusedLinkReleased
<1>3. UnusedLinkReleased /\ UNCHANGED vars => UnusedLinkReleased'
  BY DEF UnusedLinkReleased, Users, vars
<1>4. QED
  BY <1>1, <1>2, <1>3, InvariantTheorem, PTL DEF Spec

\* SharedLink lets at most one user leave a link that is not lost.
LEMMA OneLeavesLemma ==
  ASSUME IInv, IInv', PromisedStep, NEW d \in Devices, device'[d].status # "DOWN"
  PROVE  \E c : Users(d) \ Users(d)' \subseteq {c}
<1> DEFINE users == [e \in Devices |-> device[e].clients_connected]
           phase == [e \in Devices |-> device[e].status]
<1>1. /\ users[d] = Users(d) /\ users'[d] = Users(d)'
      /\ phase'[d] = device'[d].status
  BY DEF Users
<1>2. CASE UNCHANGED Promise!vars
  BY <1>1, <1>2 DEF Promise!vars
<1>3. CASE Promise!Reset
  BY <1>1, <1>3 DEF Promise!Reset
<1>4. ASSUME NEW l \in Devices,
             \/ \E m \in Clients : Promise!Join(l, m) \/ Promise!Leave(l, m)
             \/ Promise!Answered(l) \/ Promise!Lose(l)
      PROVE  \E c : Users(d) \ Users(d)' \subseteq {c}
  <2>1. CASE l # d
    <3>1. users'[d] = users[d]
      BY <1>4, <2>1 DEF Promise!Join, Promise!Leave, Promise!Answered, Promise!Lose,
                        Promise!Becomes
    <3>2. QED
      BY <1>1, <3>1
  <2>2. CASE l = d
    <3>1. ASSUME NEW m \in Clients, Promise!Join(d, m)
          PROVE  users[d] \subseteq users'[d]
      BY <3>1 DEF Promise!Join, Promise!Becomes
    <3>2. ASSUME NEW m \in Clients, Promise!Leave(d, m)
          PROVE  users[d] \ users'[d] \subseteq {m}
      BY <3>2 DEF Promise!Leave, Promise!Becomes
    <3>3. CASE Promise!Answered(d)
      BY <1>1, <3>3 DEF Promise!Answered, Promise!Becomes
    <3>4. CASE Promise!Lose(d)
      BY <1>1, <3>4 DEF Promise!Lose, Promise!Becomes
    <3>5. CASE \E m \in Clients : Promise!Join(d, m) \/ Promise!Leave(d, m)
      BY <1>1, <3>1, <3>2, <3>5
    <3>6. QED
      BY <1>4, <2>2, <3>3, <3>4, <3>5
  <2>3. QED
    BY <2>1, <2>2
<1>5. QED
  BY <1>2, <1>3, <1>4 DEF PromisedStep, Promise!Next

\* process_client.c:81-94 and list_fns.c:547-576, with any number of clients and links
\* and whatever the scripts return: more than one user loses a link in a step only if
\* the server ends, or has run the link's force_down script and counts it as down.
THEOREM UsersLeaveTheorem == Spec => UsersLeaveOneAtATime
<1>1. ASSUME IInv, IInv', Next, PromisedStep, NEW d \in Devices,
             Cardinality(Users(d) \ Users(d)') > 1, pc' # "exited"
      PROVE  RunsScript(d, "force") /\ device'[d].status = "DOWN"
  <2>1. ASSUME NEW c, Users(d) \ Users(d)' \subseteq {c}
        PROVE  FALSE
    <3>1. IsFiniteSet({c}) /\ Cardinality({c}) = 1
      BY FS_Singleton
    <3>2. /\ Cardinality(Users(d) \ Users(d)') \in Nat
          /\ Cardinality(Users(d) \ Users(d)') <= 1
      BY <2>1, <3>1, FS_Subset, FS_CardinalityType
    <3>3. QED
      BY <1>1, <3>2
  <2>2. device'[d].status = "DOWN"
    BY <1>1, <2>1, OneLeavesLemma
  <2>3. PICK scripts \in Runnable : Tells(d, scripts)
    BY <1>1, LinkLemma
  <2>4. scripts \notin {<<>>, <<"up">>, <<"down">>}
    BY <2>1, <2>3 DEF Tells, Orderly, CostsOne, Users
  <2>5. RunsScript(d, "force")
    BY <2>3, <2>4 DEF Tells, Runnable, Dialling
  <2>6. QED
    BY <2>2, <2>5
<1>2. IInv /\ IInv' /\ [Next]_vars =>
        [\A d \in Devices :
           Cardinality(Users(d) \ Users(d)') > 1
             => \/ pc' = "exited"
                \/ RunsScript(d, "force") /\ device'[d].status = "DOWN"]_vars
  BY <1>1, PromisedStepLemma
<1>3. QED
  BY <1>2, InvariantTheorem, PTL DEF Spec, UsersLeaveOneAtATime

=============================================================================
