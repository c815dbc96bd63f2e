------------------------------ MODULE PortCore ------------------------------
(***************************************************************************)
(* The port broker behind LPC: listen ports, connections with a client and *)
(* a server endpoint, references the kernel retains on either, and the     *)
(* queues of messages between them, charged to the pool of the port.       *)
(*                                                                         *)
(* The broker is one record, and every operation is an operator from broker*)
(* to broker, as the executive calls them (LpcConnect and LpcWaits): port, *)
(* the live ports by object id; conn, the connections, none of which is    *)
(* ever removed; plane, the message plane of each connection and of each   *)
(* retained connection port; kport and kcomm, the endpoints the kernel     *)
(* retains, numbered by retained; usage, the pool account of every port    *)
(* that was created.  Ports, connections and kernel endpoints are numbered *)
(* in the order of their creation, which is the order of the vectors that  *)
(* are searched.                                                           *)
(***************************************************************************)
EXTENDS Naturals, Sequences, FiniteSets
LOCAL INSTANCE SequencesExt
LOCAL INSTANCE FiniteSetsExt
LOCAL INSTANCE Functions

CONSTANTS
    QueuedCharge,     \* queued_message_pool_charge
    DeliveredCharge   \* delivered_request_pool_charge

EmptyPlane == [server_inbox |-> << >>, client_inbox |-> << >>, delivered |-> {}]

ConnPlane(c) == <<"conn", c>>
KernelPlane(k) == <<"kport", k>>

-----------------------------------------------------------------------------
(* Lookups.                                                                *)

Without(f, dead) == Restrict(f, DOMAIN f \ dead)

Open(s, o) == o \in DOMAIN s.port /\ s.port[o].user_open

Refs(s, c) == {k \in DOMAIN s.kcomm : s.kcomm[k].conn = c}   \* client_kernel_refs

ClientLive(s, c) == s.conn[c].client_open \/ Refs(s, c) # {}

Constructing(s, c) == s.conn[c].state \in {"Pending", "Received", "Accepted"}

Referenced(s, o) ==
    \/ s.port[o].user_open
    \/ \E k \in DOMAIN s.kport : s.kport[k] = o
    \/ \E c \in DOMAIN s.conn :
         /\ s.conn[c].port = o
         /\ \/ ClientLive(s, c)
            \/ s.conn[c].server_open /\ s.conn[c].server_handle
            \/ Constructing(s, c)

(* The account that pays for plane p.                                      *)
Account(s, p) == IF p[1] = "conn" THEN s.conn[p[2]].port ELSE s.kport[p[2]]

Connected(s, c) == s.conn[c].state = "Connected" /\ s.conn[c].server_open

ServerLive(s, c) == s.conn[c].server_open /\ s.conn[c].server_handle

(* Listen handles, and the LPC server handles that stand for their port.   *)
Listens(s, o) ==
    \/ Open(s, o)
    \/ \E c \in DOMAIN s.conn :
         ServerLive(s, c) /\ s.conn[c].port = o /\ s.conn[c].api = "Lpc"

-----------------------------------------------------------------------------
(* Storage and its charges.                                                *)

Charge(s, o, old, new) == [s EXCEPT !.usage[o] = @ - old + new]

PlaneCharge(pl) ==
    QueuedCharge * (Len(pl.server_inbox) + Len(pl.client_inbox))
        + DeliveredCharge * Cardinality(pl.delivered)

(* Plane p becomes pl, which holds a part of what it held.                 *)
Shrink(s, p, pl) ==
    Charge([s EXCEPT !.plane[p] = pl], Account(s, p),
           PlaneCharge(s.plane[p]), PlaneCharge(pl))

DropSet(pl, dead) ==
    LET keep(m) == m \notin dead
    IN [server_inbox |-> SelectSeq(pl.server_inbox, keep),
        client_inbox |-> SelectSeq(pl.client_inbox, keep),
        delivered |-> pl.delivered \ dead]

release_connection_storage(s, c, client, server, delivered) ==
    LET pl == s.plane[ConnPlane(c)]
    IN Shrink(s, ConnPlane(c),
              [server_inbox |-> IF server THEN << >> ELSE pl.server_inbox,
               client_inbox |-> IF client THEN << >> ELSE pl.client_inbox,
               delivered |-> IF delivered THEN {} ELSE pl.delivered])

(* Acknowledged datagrams to the server outlive their sender.              *)
release_client_storage(s, c) ==
    LET pl == s.plane[ConnPlane(c)]
        datagram(m) == ~m.request
    IN IF s.conn[c].server_open
       THEN Shrink(s, ConnPlane(c),
                   [EmptyPlane EXCEPT
                      !.server_inbox = SelectSeq(pl.server_inbox, datagram)])
       ELSE release_connection_storage(s, c, TRUE, TRUE, TRUE)

retire_unreferenced_ports(s) ==
    LET dead == {o \in DOMAIN s.port : ~Referenced(s, o)}
        refund(a) == IF a \in dead THEN QueuedCharge * Len(s.port[a].datagrams) ELSE 0
    IN [s EXCEPT !.port = Without(@, dead),
                 !.usage = [a \in DOMAIN @ |-> @[a] - refund(a)]]

-----------------------------------------------------------------------------
(* Ports, connections and references.                                      *)

create_port(s, proc, api) ==
    LET o == Len(s.usage) + 1
    IN [s EXCEPT !.usage = Append(@, 0),
                 !.port = [n \in DOMAIN @ \cup {o} |->
                             IF n # o THEN @[n]
                             ELSE [user_open |-> TRUE, api |-> api, owner |-> proc,
                                   pending |-> << >>, datagrams |-> << >>]]]

connect(s, o, proc, auto) ==
    LET c == Len(s.conn) + 1
        new == [port |-> o, client |-> proc, api |-> s.port[o].api,
                server |-> s.port[o].owner,
                state |-> IF auto THEN "Connected" ELSE "Pending",
                client_open |-> auto, server_handle |-> FALSE, server_open |-> auto]
    IN [s EXCEPT !.conn = Append(@, new),
                 !.plane = [p \in DOMAIN @ \cup {ConnPlane(c)} |->
                              IF p = ConnPlane(c) THEN EmptyPlane ELSE @[p]],
                 !.port[o].pending = IF auto THEN @ ELSE Append(@, c)]

(* A request that was refused meanwhile is still handed out.               *)
receive(s, o) ==
    LET c == Head(s.port[o].pending)
    IN [s EXCEPT !.port[o].pending = Tail(@),
                 !.conn[c].state = IF @ = "Pending" THEN "Received" ELSE @]

refuse(s, c) == retire_unreferenced_ports([s EXCEPT !.conn[c].state = "Refused"])

accept(s, c) ==
    [s EXCEPT !.conn[c].state = "Accepted", !.conn[c].server_handle = TRUE,
              !.conn[c].server_open = TRUE]

complete(s, c) ==
    [s EXCEPT !.conn[c].state = "Connected", !.conn[c].client_open = TRUE]

(* AutoAccept connections have no server handle of their own.              *)
close_listen(s, o) ==
    LET owned == {c \in DOMAIN s.conn :
                    /\ s.conn[c].port = o
                    /\ s.conn[c].server_open /\ ~s.conn[c].server_handle}
        shut(t, c) ==
            IF c \notin owned THEN t
            ELSE [release_connection_storage(t, c, FALSE, TRUE, TRUE) EXCEPT
                    !.conn[c].server_open = FALSE, !.conn[c].state = "Refused"]
        closed == [s EXCEPT !.port[o].user_open = FALSE]
    IN retire_unreferenced_ports(FoldLeftDomain(shut, closed, s.conn))

(* The last reference to a client endpoint is gone.                        *)
ClientGone(s, c) ==
    IF ClientLive(s, c) THEN s
    ELSE [release_client_storage(s, c) EXCEPT !.conn[c].state = "Refused"]

close_client(s, c) ==
    retire_unreferenced_ports(ClientGone([s EXCEPT !.conn[c].client_open = FALSE], c))

close_server(s, c) ==
    retire_unreferenced_ports(
        [release_connection_storage(s, c, FALSE, TRUE, TRUE) EXCEPT
           !.conn[c].server_open = FALSE, !.conn[c].state = "Refused"])

retain_connection_port(s, o) ==
    LET k == s.retained + 1
    IN [s EXCEPT !.retained = k,
                 !.kport = [n \in DOMAIN @ \cup {k} |-> IF n = k THEN o ELSE @[n]],
                 !.plane = [p \in DOMAIN @ \cup {KernelPlane(k)} |->
                              IF p = KernelPlane(k) THEN EmptyPlane ELSE @[p]]]

retain_communication_port(s, c) ==
    LET k == s.retained + 1
    IN [s EXCEPT !.retained = k,
                 !.kcomm = [n \in DOMAIN @ \cup {k} |->
                              IF n = k THEN [conn |-> c, outstanding |-> {}] ELSE @[n]]]

(* Exactly the requests of this reference are cancelled.                   *)
release_communication_port(s, k) ==
    LET c == s.kcomm[k].conn
        p == ConnPlane(c)
        cancelled == Shrink(s, p, DropSet(s.plane[p], s.kcomm[k].outstanding))
    IN retire_unreferenced_ports(
         ClientGone([cancelled EXCEPT !.kcomm = Without(@, {k})], c))

(* The handles of a process are closed one by one: listen ports first, then*)
(* the endpoints of each connection.  Connections it is still constructing *)
(* are refused; references the kernel holds stay.                          *)
close_process_ports(s, proc) ==
    LET ports == {o \in DOMAIN s.port : Open(s, o) /\ s.port[o].owner = proc}
        closeListen(t, o) == close_listen(t, o)
        closeEnds(t, c) ==
            LET u == IF t.conn[c].client_open /\ t.conn[c].client = proc
                     THEN close_client(t, c) ELSE t
            IN IF ServerLive(u, c) /\ u.conn[c].server = proc THEN close_server(u, c) ELSE u
        abandon(t, c) ==
            IF ~(Constructing(t, c) /\ t.conn[c].client = proc) THEN t
            ELSE [release_connection_storage(t, c, TRUE, TRUE, TRUE) EXCEPT
                    !.conn[c].state = "Refused"]
        listens == FoldLeft(closeListen, s, SetToSeq(ports))
        ends == FoldLeftDomain(closeEnds, listens, s.conn)
    IN retire_unreferenced_ports(FoldLeftDomain(abandon, ends, s.conn))

-----------------------------------------------------------------------------
(* Messages.                                                               *)

Enqueue(s, p, queue, m) ==
    Charge([s EXCEPT !.plane[p][queue] = Append(@, m)], Account(s, p), 0, QueuedCharge)

(* Mutant: the record of a delivered request is not charged.               *)
MutDequeue(s, p) ==
    LET m == Head(s.plane[p].server_inbox)
        held == IF m.request THEN {m} ELSE {}
    IN Charge([s EXCEPT !.plane[p].server_inbox = Tail(@),
                        !.plane[p].delivered = @ \cup held],
              Account(s, p), QueuedCharge, 0)

(* A request that is dequeued leaves a smaller record until it is answered.*)
dequeue_server_message(s, p) ==
    LET m == Head(s.plane[p].server_inbox)
        held == IF m.request /\ m \notin s.plane[p].delivered THEN {m} ELSE {}
    IN Charge([s EXCEPT !.plane[p].server_inbox = Tail(@),
                        !.plane[p].delivered = @ \cup held],
              Account(s, p), QueuedCharge, DeliveredCharge * Cardinality(held))

(* Datagrams of the port first, then its retained endpoints, then its      *)
(* connections, each in the order of their creation.                       *)
ServerPlanes(s, o) ==
    LET kernel == {k \in DOMAIN s.kport :
                     s.kport[k] = o /\ s.plane[KernelPlane(k)].server_inbox # << >>}
        conns == {c \in DOMAIN s.conn :
                    /\ s.conn[c].port = o /\ s.conn[c].server_open
                    /\ s.plane[ConnPlane(c)].server_inbox # << >>}
    IN IF kernel # {} THEN {KernelPlane(Min(kernel))}
       ELSE IF conns # {} THEN {ConnPlane(Min(conns))} ELSE {}

receive_message(s, o) ==
    IF s.port[o].datagrams # << >>
    THEN Charge([s EXCEPT !.port[o].datagrams = Tail(@)], o, QueuedCharge, 0)
    ELSE dequeue_server_message(s, CHOOSE p \in ServerPlanes(s, o) : TRUE)

send_reply_message(s, p, m) ==
    Charge([s EXCEPT !.plane[p].delivered = @ \ {m},
                     !.plane[p].client_inbox = Append(@, m)],
           Account(s, p), DeliveredCharge, QueuedCharge)

(* Removing request m from plane p wherever it is.                         *)
remove_request(s, p, m) == Shrink(s, p, DropSet(s.plane[p], {m}))

(* The requests that plane p holds.                                        *)
Requests(s, p) ==
    LET pl == s.plane[p]
    IN {m \in ToSet(pl.server_inbox) \cup ToSet(pl.client_inbox) \cup pl.delivered :
          m.request}
=============================================================================
