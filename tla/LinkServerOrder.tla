--------------------------- MODULE LinkServerOrder ---------------------------
(***************************************************************************)
(* LinkServer with the order of its list of clients.  LinkServer sweeps    *)
(* the clients in any order, which is more than the code can do; what is   *)
(* to be shown of one behaviour has to be shown in the order of the list.  *)
(***************************************************************************)
EXTENDS LinkServer

VARIABLE order    \* g_clients as a sequence

orderVars == <<vars, order>>

OrderInit == Init /\ order = <<>>

\* add_client() appends, rm_client() unlinks.
Relink ==
    \/ g_clients' \subseteq g_clients
       /\ order' = SelectSeq(order, LAMBDA c : c \in g_clients')
    \/ \E c \in g_clients' \ g_clients : order' = Append(order, c)

Place(c) == CHOOSE i \in DOMAIN order : order[i] = c

\* timeout_old_clients() walks from the head of the list to its end.
InOrder ==
    clients_left' \subseteq clients_left =>
        \A c \in clients_left \ clients_left', d \in clients_left' : Place(c) < Place(d)

OrderedStep == ServerStep /\ Relink /\ (pc = "clients" => InOrder)
OrderedTick == Tick /\ UNCHANGED order

OrderNext ==
    \/ OrderedStep
    \/ OrderedTick
    \/ (Start \/ Crash \/ Terminate) /\ Relink

OrderSpec == OrderInit /\ [][OrderNext]_orderVars

\* The fairness of FairSpec.
FairOrderSpec == OrderSpec /\ WF_orderVars(OrderedStep) /\ WF_orderVars(OrderedTick)

=============================================================================
