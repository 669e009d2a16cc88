------------------------- MODULE LinkServerHistory -------------------------
(***************************************************************************)
(* LinkServer with history variables, for what the server promises about   *)
(* time and about the number of its attempts.  A device_t has one time     *)
(* stamp, connect_time, that means "dialled at", "came up at" or "hung up  *)
(* at" by its status, and not every attempt sets it; retries counts down,  *)
(* and from another number after every UP.  The history keeps the first    *)
(* meaning apart and counts up.  It feeds back into nothing.               *)
(***************************************************************************)
EXTENDS LinkServer

VARIABLES
    dial_age,    \* seconds since the up script last ran for a device
    attempts     \* how often the up script ran since a client had it run

allVars == <<vars, dial_age, attempts>>

HistoryInit ==
    /\ Init
    /\ dial_age = [d \in Devices |-> MaxAge]
    /\ attempts = [d \in Devices |-> 0]

\* The count stops at one more than is allowed.
OneMore(n) == IF n > 1 + g_retries THEN n ELSE n + 1

\* Outside of timeout_old_devices() a link is dialled for a client's UP.
Record(time) ==
    /\ dial_age' = [d \in Devices |->
                      IF RunsScript(d, "up") THEN 0 ELSE time[dial_age[d]]]
    /\ attempts' = [d \in Devices |->
                      CASE ~RunsScript(d, "up") -> attempts[d]
                        [] RunsScript(d, "up") /\ pc # "devices" -> 1
                        [] RunsScript(d, "up") /\ pc = "devices" -> OneMore(attempts[d])]

HistoryNext ==
    \/ Tick /\ Record([age \in Age |-> Older(age)])
    \/ (Start \/ ServerStep \/ Crash \/ Terminate) /\ Record([age \in Age |-> age])

HistorySpec == HistoryInit /\ [][HistoryNext]_allVars

\* The history stands in nobody's way: the fairness is that of FairSpec.
FairHistorySpec == HistorySpec /\ WF_vars(ServerStep) /\ WF_vars(Tick)

-----------------------------------------------------------------------------
\* list_fns.c:600-606 and 115-145: however its scripts end and whoever asks in
\* between, a link somebody asked for is dialled once and then at most g_retries
\* times more, before it is given up.  (The comment list_fns.c:121-123 has the
\* sweep redial "if retries > 0"; line 601 redials at 0 as well.  As the first
\* attempt has used up one of the retries by then, it is this that makes
\* g_retries the number of redials.)
AttemptsBounded == \A d \in Devices : attempts[d] = 0 \/ attempts[d] <= 1 + g_retries

\* timeout_old_devices() finds the device overdue: it runs one of its scripts.
Overtaken(d) ==
    pc = "devices" /\ (RunsScript(d, "up") \/ RunsScript(d, "force"))

\* list_fns.c:121-123: every attempt to dial, also one whose script failed, is
\* given the whole connect timeout before the sweep redials or gives up.
AttemptGetsItsTime ==
    [][\A d \in Devices :
         Overtaken(d) /\ device[d].status = "CONNECTING"
         => dial_age[d] > g_connect_timeout]_allVars

=============================================================================
