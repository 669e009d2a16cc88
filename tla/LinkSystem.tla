----------------------------- MODULE LinkSystem -----------------------------
(***************************************************************************)
(* The link server together with what it controls: the telephone line of   *)
(* every link, and the notification peer that pppd runs when the line has  *)
(* come up or gone (src/peer/notify.c, called from src/rpm/ip-up.local and *)
(* ip-down.local).                                                         *)
(*                                                                         *)
(* The server never looks at a line.  It runs a script, which acts on the  *)
(* line, and believes the last ISUP or ISDOWN it received.  A report is    *)
(* one datagram: it may be lost, and it waits in the socket of the server  *)
(* while the server runs scripts and sweeps, so it may be about an earlier *)
(* connection than the one the server has in mind.                         *)
(*                                                                         *)
(* The line and pppd are not under src/; they are modelled from how the    *)
(* server uses them, the scripts in server/link_server.conf being          *)
(*   link_up          start pppd, which dials (nothing if it is running)   *)
(*   link_down        ask pppd to hang up, in its own time (once more, if  *)
(*                    it is hanging up already)                            *)
(*   link_force_down  kill pppd: the line is gone when the script returns, *)
(*                    and pppd may or may not have run the peer            *)
(***************************************************************************)
EXTENDS LinkServer

CONSTANT MaxReports    \* datagrams the socket of the server holds

ASSUME MaxReportsAssumption == MaxReports \in Nat

VARIABLES
    line,      \* what the line of each link does
    reports,   \* the datagrams of the peer in the socket, oldest first
    unheard,   \* history: the server may never hear how a connection ended
    orphan     \* history: the line is in use since before the server started

lineVars == <<line, reports, unheard, orphan>>
sysVars  == <<vars, lineVars>>

LineStatus == {"idle", "dialling", "up", "hanging"}
Report     == [kind : {"ISUP", "ISDOWN"}, device : Devices]

SystemInit ==
    /\ Init
    /\ line = [d \in Devices |-> "idle"]
    /\ reports = <<>>
    /\ unheard = [d \in Devices |-> FALSE]
    /\ orphan = [d \in Devices |-> FALSE]

-----------------------------------------------------------------------------
(***************************************************************************)
(* Reports.                                                                *)
(***************************************************************************)
About(queue, d) == {i \in DOMAIN queue : queue[i].device = d}

\* A link nobody uses, with an idle line and no report on its way, has nothing
\* left to hear of.
Settled(d) ==
    /\ device'[d].status = "DOWN"
    /\ line'[d] = "idle"
    /\ About(reports', d) = {}

\* The history of a step that loses reports about the devices in lost.
Remember(lost) ==
    /\ unheard' = [d \in Devices |-> (unheard[d] \/ d \in lost) /\ ~Settled(d)]
    /\ orphan' = [d \in Devices |-> orphan[d] /\ line'[d] # "idle"]

\* The peer runs: parse_command_line(), read_config() and one sendto().  The
\* datagram is lost on the way, or because nobody reads the socket or it is full.
Notify(queue, kind, d) ==
    \/ /\ pc # "exited"
       /\ Len(queue) < MaxReports
       /\ reports' = Append(queue, [kind |-> kind, device |-> d])
       /\ Remember({})
    \/ /\ reports' = queue
       /\ Remember({d})

Silence(queue) == reports' = queue /\ Remember({})

-----------------------------------------------------------------------------
(***************************************************************************)
(* What the scripts a server step runs do to the lines.                    *)
(***************************************************************************)
AfterKill(d) ==
    CASE RunsScript(d, "force") -> "idle"
      [] RunsScript(d, "down")  -> IF line[d] \in {"up", "hanging"} THEN "hanging"
                                   ELSE "idle"
      [] OTHER                  -> line[d]

AfterDial(d) ==
    IF RunsScript(d, "up") /\ AfterKill(d) = "idle" THEN "dialling" ELSE AfterKill(d)

Killed == {d \in Devices : RunsScript(d, "force") /\ line[d] \in {"up", "hanging"}}

\* A killed connection ends with or without a report.
React(queue) ==
    /\ line' = [d \in Devices |-> AfterDial(d)]
    /\ IF Killed = {} THEN Silence(queue)
       ELSE \E d \in Killed : Notify(queue, "ISDOWN", d)

-----------------------------------------------------------------------------
(***************************************************************************)
(* The server's steps.                                                     *)
(***************************************************************************)
ServerTurn ==
    /\ \/ TestKeepGoing \/ ClientSpeaks \/ NothingToDo \/ SelectInterrupted
       \/ BroadcastStatus \/ Sweep
    /\ React(reports)

\* process_peer() on the oldest datagram in the socket.
Deliver ==
    /\ reports # <<>>
    /\ LET d == Head(reports).device
       IN  IF Head(reports).kind = "ISUP"
           THEN PeerIsUp(d)
           ELSE \E cmd \in Commands : PeerIsDown(d, cmd)
    /\ React(Tail(reports))

\* A new process finds the lines as the old one left them, and does not know.
Begin ==
    /\ Start
    /\ UNCHANGED <<line, reports, unheard>>
    /\ orphan' = [d \in Devices |-> line[d] # "idle"]

\* The socket is closed, with what is in it.
End ==
    /\ Quit \/ Crash
    /\ line' = line
    /\ reports' = <<>>
    /\ Remember({d \in Devices : About(reports, d) # {}})

Outside ==
    /\ Terminate \/ Tick
    /\ React(reports)

-----------------------------------------------------------------------------
(***************************************************************************)
(* The line by itself.                                                     *)
(***************************************************************************)
LineMoves(d, from, to) ==
    /\ line[d] = from
    /\ line' = [line EXCEPT ![d] = to]
    /\ UNCHANGED vars

\* pppd has negotiated an address, and runs ip-up.
ComesUp(d) ==
    /\ LineMoves(d, "dialling", "up")
    /\ Notify(reports, "ISUP", d)

\* Nobody answers: ip-up has not run, and ip-down does not.
DialFails(d) ==
    /\ LineMoves(d, "dialling", "idle")
    /\ Silence(reports)

\* The other end hangs up, or this end is done with hanging up.
GoesDown(d) ==
    /\ LineMoves(d, "up", "idle") \/ LineMoves(d, "hanging", "idle")
    /\ Notify(reports, "ISDOWN", d)

SystemNext ==
    \/ ServerTurn \/ Deliver \/ Begin \/ End \/ Outside
    \/ \E d \in Devices : ComesUp(d) \/ DialFails(d) \/ GoesDown(d)

SystemSpec == SystemInit /\ [][SystemNext]_sysVars

-----------------------------------------------------------------------------
SystemTypeOK ==
    /\ TypeOK
    /\ line \in [Devices -> LineStatus]
    /\ reports \in Seq(Report) /\ Len(reports) <= MaxReports
    /\ unheard \in [Devices -> BOOLEAN]
    /\ orphan \in [Devices -> BOOLEAN]

\* list_fns.c:481-483, "If doing this causes clients_connected to become empty,
\* bring down the link": the telephone is used for somebody or not at all,
\* however late, lost or misleading the reports about it are.  Only a line left
\* over from an earlier process escapes.
LineOnlyForUsers ==
    \A d \in Devices :
        pc # "exited" /\ ~orphan[d] /\ line[d] \in {"dialling", "up"}
            => Users(d) # {}

\* process_peer.c:18-41: a link the server believes up is up, or is a connection
\* whose end will be reported, unless a report about it was lost or is still on
\* its way; reports of earlier connections cannot leave a wrong belief behind.
UpIsUp ==
    \A d \in Devices :
        /\ device[d].status = "UP"
        /\ About(reports, d) = {}
        /\ ~unheard[d]
        => line[d] \in {"up", "hanging"}

=============================================================================
