----------------------------- MODULE LpcConnect -----------------------------
(***************************************************************************)
(* How the executive carries a connection through the port broker: the     *)
(* connector parks, a row per connection keeps the section views that the  *)
(* two sides map into each other, the server accepts and completes, and    *)
(* the row is retired when the broker reports both endpoints deleted.      *)
(*                                                                         *)
(* Every call is one pass of the service loop: the handler runs, the       *)
(* results it queued for connectors are delivered, and what earlier calls  *)
(* left over is swept before the next call is received (Enter, Leave); the *)
(* sweep that opens a call repeats that one.  The operators map a record of*)
(* the whole state to another.  One thing may go wrong in a call: a view   *)
(* cannot be unmapped now, a view or its description cannot be written     *)
(* ("write"), the connector's handle cannot ("publish"), the reply of a    *)
(* parked thread is lost, or no reply slot is free.                        *)
(***************************************************************************)
EXTENDS Naturals, Sequences, FiniteSets
LOCAL INSTANCE SequencesExt
LOCAL INSTANCE FiniteSetsExt
LOCAL INSTANCE Functions

CONSTANTS
    Procs,      \* processes
    Threads,    \* threads that connect
    ProcOf,     \* the process of a thread
    Offers,     \* whether a side may offer a section: a subset of BOOLEAN
    MaxPorts,   \* bound on the listen ports
    MaxConns,   \* bound on the connections
    MaxKernel,  \* bound on the references the kernel retains
    MaxFaults   \* bound on the calls in which something goes wrong

VARIABLES
    core,     \* the broker
    row,      \* lpc_connection_views, by connection
    mapped,   \* the section views that are in an address space
    wait,     \* LPC_CONNECT_WAITS, by connection
    queue,    \* lpc_connect_completions
    result,   \* what became of the connector of each connection
    process,  \* "live", "exited", or "deleted" with its address space
    gone,     \* threads that were torn down
    faults    \* calls in which something went wrong

vars == <<core, row, mapped, wait, queue, result, process, gone, faults>>

B == INSTANCE PortCore WITH QueuedCharge <- 0, DeliveredCharge <- 0

Phases == {"Waiting", "Indeterminate"}   \* the others end within one call

(* A view that one side has of the section that a side offered.            *)
Sides == {"client", "server"}
View == Sides \X Sides

Row ==
    [aborting : BOOLEAN, completed : BOOLEAN, failed_accept : BOOLEAN,
     retirement_pending : BOOLEAN,
     acceptor : BOOLEAN,       \* acceptor_process is known
     offer : Offers,           \* connector_view
     views : SUBSET View]      \* connector_mapping and acceptor_mapping

Faults == {"none", "unmap", "write", "publish", "reply", "park"}

Conns == DOMAIN core.conn

Init ==
    /\ core = [port |-> << >>, conn |-> << >>, plane |-> << >>, kport |-> << >>,
               kcomm |-> << >>, retained |-> 0, usage |-> << >>]
    /\ row = << >> /\ mapped = {} /\ wait = << >> /\ queue = << >> /\ result = << >>
    /\ process = [p \in Procs |-> "live"]
    /\ gone = {} /\ faults = 0

Without(f, x) == Restrict(f, DOMAIN f \ {x})

With(f, x, y) == [n \in DOMAIN f \cup {x} |-> IF n = x THEN y ELSE f[n]]

-----------------------------------------------------------------------------
(* Rows.  s is the state of the call, s.fault what goes wrong in it.       *)

Pending(s, c) == c \in DOMAIN s.wait   \* lpc_connect_wait_is_pending

Terminal(c, ok) == [conn |-> c, ok |-> ok, retained |-> FALSE]

(* queue_lpc_connect_completion, if the connector still waits.             *)
Complete(s, c, ok) ==
    IF Pending(s, c) THEN [s EXCEPT !.queue = Append(@, Terminal(c, ok))] ELSE s

(* The answers of query_endpoint_lifetime.                                 *)
Deleted(s, c, side) ==
    IF side = "client" THEN ~B!ClientLive(s.core, c) /\ ~B!Constructing(s.core, c)
    ELSE ~s.core.conn[c].server_open

ProcessOf(b, c, side) == IF side = "client" THEN b.conn[c].client ELSE b.conn[c].server

(* The views of the sides in over are unmapped, unless that is impossible  *)
(* now.  A process that was deleted took its views along.                  *)
retire_lpc_process_views(s, c, over) ==
    LET leave == {v \in s.row[c].views :
                    v[1] \in over /\ (s.fault = "unmap" => <<c, v>> \notin s.mapped)}
    IN [s EXCEPT !.row[c].views = @ \ leave, !.mapped = @ \ ({c} \X leave)]

(* The row goes with the last endpoint and view, and then the connector of *)
(* a failed accept is told.                                                *)
Settle(s, c, over) ==
    IF over # Sides \/ s.row[c].views # {} THEN s
    ELSE [s EXCEPT !.row = Without(@, c),
                   !.queue = IF s.row[c].failed_accept /\ Pending(s, c)
                             THEN Append(@, Terminal(c, FALSE)) ELSE @]

(* Mutant: the views of both sides go with the first endpoint.             *)
MutRetire(s, c) ==
    IF c \notin DOMAIN s.row THEN s
    ELSE LET over == {side \in Sides :
                        /\ side = "server" => s.row[c].acceptor /\ s.core.conn[c].server_handle
                        /\ Deleted(s, c, side)}
         IN Settle(retire_lpc_process_views(s, c, IF over = {} THEN {} ELSE Sides), c, over)

Retry(s, c, over, unknown) ==
    [s EXCEPT !.row[c].retirement_pending =
       unknown \/ \E v \in s.row[c].views : v[1] \in over]

(* Views go with the endpoint they belong to.  An acceptor without a server*)
(* handle is not known to the broker.                                      *)
retire_deleted_lpc_endpoints(s, c) ==
    IF c \notin DOMAIN s.row THEN s
    ELSE LET known == s.core.conn[c].server_handle
             over == {side \in Sides :
                        /\ side = "server" => s.row[c].acceptor /\ known
                        /\ Deleted(s, c, side)}
         IN Settle(Retry(retire_lpc_process_views(s, c, over), c, over,
                         s.row[c].acceptor /\ ~known), c, over)

abort_lpc_connection_views(s, c) ==
    IF c \notin DOMAIN s.row THEN s
    ELSE LET t == [s EXCEPT !.row[c].aborting = TRUE]
         IN IF t.row[c].acceptor THEN retire_deleted_lpc_endpoints(t, c)
            ELSE IF Deleted(t, c, "client") /\ t.row[c].views = {}
            THEN [t EXCEPT !.row = Without(@, c)] ELSE t

(* An open endpoint that has its row is closed in the broker.              *)
close_lpc_endpoint_owned(s, c, side) ==
    LET open == IF side = "client" THEN s.core.conn[c].client_open
                ELSE B!ServerLive(s.core, c) /\ s.row[c].acceptor
    IN IF c \notin DOMAIN s.row THEN s
       ELSE IF ~open THEN s
       ELSE retire_deleted_lpc_endpoints(
              [s EXCEPT !.core = IF side = "client" THEN B!close_client(@, c)
                                 ELSE B!close_server(@, c)], c)

settle_lpc_accept_failure(s, c) ==
    IF c \notin DOMAIN s.row THEN s
    ELSE retire_deleted_lpc_endpoints(
           close_lpc_endpoint_owned([s EXCEPT !.row[c].failed_accept = TRUE], c, "server"), c)

AbortAgain(s, c) ==
    IF c \notin DOMAIN s.row THEN s
    ELSE IF s.row[c].aborting THEN abort_lpc_connection_views(s, c) ELSE s

RetireAgain(s, c) ==
    IF c \notin DOMAIN s.row THEN s
    ELSE IF s.row[c].retirement_pending THEN retire_deleted_lpc_endpoints(s, c) ELSE s

(* retry_pending_section_view_rollbacks                                    *)
Sweep(s) ==
    LET one(t, c) == RetireAgain(AbortAgain(t, c), c)
    IN FoldLeftDomain(one, s, s.core.conn)

-----------------------------------------------------------------------------
(* Connectors.                                                             *)

(* Mutant: the status does not tell that the handle was closed again.      *)
MutReport(s, q) ==
    LET t == IF q.ok /\ s.fault = "publish"
             THEN close_lpc_endpoint_owned(s, q.conn, "client") ELSE s
    IN [t EXCEPT !.wait = Without(@, q.conn),
                 !.result[q.conn] = IF q.ok THEN "success" ELSE "failure"]

(* A result is delivered to the connector that waits for it.  A success    *)
(* that cannot be written closes the handle.  Without the acknowledgement  *)
(* of the reply the wait stays as it is.                                   *)
lpc_connect_wait_complete(s, q) ==
    IF q.retained \/ ~Pending(s, q.conn)
    THEN [s EXCEPT !.queue = Append(@, [q EXCEPT !.retained = TRUE])]
    ELSE IF s.wait[q.conn].phase # "Waiting"
    THEN [s EXCEPT !.queue = Append(@, [q EXCEPT !.retained = TRUE])]
    ELSE LET published == q.ok /\ s.fault # "publish"
             t == IF q.ok /\ ~published
                  THEN close_lpc_endpoint_owned(s, q.conn, "client") ELSE s
         IN IF s.fault = "reply" THEN [t EXCEPT !.wait[q.conn].phase = "Indeterminate"]
            ELSE [t EXCEPT !.wait = Without(@, q.conn),
                           !.result[q.conn] = IF published THEN "success" ELSE "failure"]

(* lpc_connect_completion_drain                                            *)
Drain(s) ==
    LET one(t, q) == lpc_connect_wait_complete([t EXCEPT !.queue = Tail(@)], q)
    IN FoldLeft(one, s, s.queue)

(* A call begins with what the barrier before it left.                     *)
Enter(f) ==
    [core |-> core, row |-> row, mapped |-> mapped, wait |-> wait, queue |-> queue,
     result |-> result, fault |-> f]

Becomes(t) ==
    /\ core' = t.core /\ row' = t.row /\ mapped' = t.mapped
    /\ wait' = t.wait /\ queue' = t.queue /\ result' = t.result
    /\ faults' = IF t.fault = "none" THEN faults ELSE faults + 1

(* The end of the call, and the barrier before the next is received.       *)
Leave(s) == Becomes(Drain(Sweep(Drain(s))))

Call(f) == f = "none" \/ faults < MaxFaults

Live(p) == process[p] = "live"

(* A thread that can enter the system.                                     *)
Runs(t) ==
    /\ Live(ProcOf[t]) /\ t \notin gone
    /\ \A c \in DOMAIN wait : wait[c].thread # t

Aside == UNCHANGED <<process, gone>>

-----------------------------------------------------------------------------
(* The calls.                                                              *)

NtCreatePort(p) ==
    /\ Live(p) /\ Len(core.usage) < MaxPorts
    /\ \A o \in DOMAIN core.port : ~B!Open(core, o)
    /\ Leave([Enter("none") EXCEPT !.core = B!create_port(@, p, "Lpc")])
    /\ Aside

(* accept_connect(id, false): only before it was accepted.                 *)
RefuseInBroker(s, c) ==
    IF s.core.conn[c].state \in {"Pending", "Received"}
    THEN [s EXCEPT !.core = B!refuse(@, c)] ELSE s

(* NtConnectPort and NtSecureConnectPort: the connection is queued, its    *)
(* row staged, and the connector parked, or all of it undone.              *)
NtConnectPort(t, o, offer, f) ==
    LET s == Enter(f)
        c == Len(core.conn) + 1
        staged ==
            [s EXCEPT !.core = B!connect(@, o, ProcOf[t], FALSE),
                      !.result = Append(@, "none"),
                      !.row = With(@, c, [aborting |-> FALSE, completed |-> FALSE,
                                          failed_accept |-> FALSE,
                                          retirement_pending |-> FALSE,
                                          acceptor |-> FALSE, offer |-> offer,
                                          views |-> {}])]
    IN /\ Runs(t) /\ B!Open(core, o) /\ Len(core.conn) < MaxConns
       /\ f \in {"none", "park"} /\ Call(f)
       /\ Leave(IF f = "none"
                THEN [staged EXCEPT !.wait = With(@, c, [thread |-> t, phase |-> "Waiting"])]
                ELSE [abort_lpc_connection_views(RefuseInBroker(staged, c), c) EXCEPT
                        !.result[c] = "failure"])
       /\ Aside

(* The server takes the next connection request.                           *)
NtListenPort(o) ==
    /\ B!Listens(core, o) /\ Live(core.port[o].owner) /\ core.port[o].pending # << >>
    /\ Leave([Enter("none") EXCEPT !.core = B!receive(@, o)])
    /\ Aside

(* The request of connection c was handed out, and its port still serves.  *)
HandedOut(c) ==
    LET o == core.conn[c].port
    IN /\ o \in DOMAIN core.port /\ B!Listens(core, o) /\ Live(core.conn[c].server)
       /\ c \notin ToSet(core.port[o].pending)

(* The views of accept in the order in which they are mapped: of each      *)
(* offer the peer's first.                                                 *)
Mappings(offered, offer) ==
    (IF offered THEN <<<<"server", "client">>, <<"client", "client">>>> ELSE << >>)
        \o (IF offer THEN <<<<"client", "server">>, <<"server", "server">>>> ELSE << >>)

(* accept_lpc_connection_views gets to map n views, and fails if then      *)
(* something goes wrong.                                                   *)
accept_lpc_connection_views(s, c, offer, n) ==
    LET r == s.row[c]
        todo == Mappings(r.offer, offer)
        new == ToSet(SubSeq(todo, 1, n))
        shared == [s EXCEPT !.row[c].views = new, !.mapped = @ \cup ({c} \X new)]
    IN IF r.aborting \/ r.views # {} \/ process[s.core.conn[c].client] = "deleted"
       THEN settle_lpc_accept_failure(s, c)
       ELSE IF s.fault = "write" THEN settle_lpc_accept_failure(shared, c)
       ELSE shared

prepare_lpc_accept_owner(s, c) ==
    /\ c \in DOMAIN s.row
    /\ ~s.row[c].aborting /\ ~s.row[c].completed /\ ~s.row[c].failed_accept

(* n views are mapped before the call fails, if it does.                   *)
NtAcceptConnectPort(c, offer, f, n) ==
    LET s == Enter(f)
        owned == [s EXCEPT !.row[c].acceptor = TRUE]
        todo == Mappings(s.row[c].offer, offer)
    IN /\ HandedOut(c) /\ f \in {"none", "write", "unmap"} /\ Call(f)
       /\ prepare_lpc_accept_owner(s, c)
       /\ IF f = "write" THEN n \in 0..Len(todo) ELSE n = Len(todo)
       /\ Leave(IF s.core.conn[c].state \notin {"Pending", "Received"} THEN owned
                ELSE accept_lpc_connection_views(
                       [owned EXCEPT !.core = B!accept(@, c)], c, offer, n))
       /\ Aside

(* NtAcceptConnectPort with AcceptConnection false.                        *)
RefuseConnectPort(c, f) ==
    LET s == Enter(f)
        aborted == abort_lpc_connection_views(RefuseInBroker(s, c), c)
    IN /\ HandedOut(c) /\ f \in {"none", "reply"} /\ Call(f)
       /\ s.core.conn[c].state \in {"Pending", "Received"}
       /\ Leave(Complete(aborted, c, FALSE))
       /\ Aside

(* Mutant: the connector may have given up meanwhile.                      *)
MutCompleteViews(s, c) == c \in DOMAIN s.row

(* complete_lpc_connection_views succeeds.                                 *)
complete_lpc_connection_views(s, c) ==
    /\ c \in DOMAIN s.row
    /\ ~s.row[c].aborting /\ ~s.row[c].completed /\ ~s.row[c].failed_accept
    /\ process[s.core.conn[c].client] # "deleted"
    /\ s.row[c].offer => \A side \in Sides : <<side, "client">> \in s.row[c].views
    /\ s.fault # "write"

(* It gives up the row where it finds views missing or cannot write.       *)
GiveUp(s, c) ==
    IF c \in DOMAIN s.row
    THEN IF s.row[c].aborting \/ s.row[c].completed \/ s.row[c].failed_accept
            \/ process[s.core.conn[c].client] = "deleted"
         THEN s ELSE abort_lpc_connection_views(s, c)
    ELSE s

NtCompleteConnectPort(c, f) ==
    LET s == Enter(f)
        done == [s EXCEPT !.core = B!complete(@, c)]
        undone == settle_lpc_accept_failure(
                    close_lpc_endpoint_owned(GiveUp(done, c), c, "client"), c)
        noted == [done EXCEPT !.row[c].completed = TRUE]
    IN /\ B!ServerLive(core, c) /\ Live(core.conn[c].server)
       /\ f \in {"none", "write", "publish", "reply", "unmap"} /\ Call(f)
       /\ Leave(IF s.core.conn[c].state # "Accepted" THEN abort_lpc_connection_views(s, c)
                ELSE IF ~complete_lpc_connection_views(done, c) THEN undone
                ELSE Complete(noted, c, TRUE))
       /\ Aside

(* NtClose, by the process that has the handle.                            *)
CloseClient(c, f) ==
    /\ core.conn[c].client_open /\ Live(core.conn[c].client) /\ result[c] = "success"
    /\ f \in {"none", "unmap"} /\ Call(f)
    /\ Leave(close_lpc_endpoint_owned(Enter(f), c, "client"))
    /\ Aside

CloseServer(c, f) ==
    /\ B!ServerLive(core, c) /\ Live(core.conn[c].server)
    /\ f \in {"none", "unmap"} /\ Call(f)
    /\ Leave(close_lpc_endpoint_owned(Enter(f), c, "server"))
    /\ Aside

CloseListen(o) ==
    /\ B!Open(core, o) /\ Live(core.port[o].owner)
    /\ Leave([Enter("none") EXCEPT !.core = B!close_listen(@, o)])
    /\ Aside

(* References of the kernel to a client endpoint.                          *)
Retain(c) ==
    /\ B!Connected(core, c) /\ core.conn[c].client_open /\ core.retained < MaxKernel
    /\ Leave([Enter("none") EXCEPT !.core = B!retain_communication_port(@, c)])
    /\ Aside

(* release_lpc_port_object                                                 *)
Release(k, f) ==
    LET c == core.kcomm[k].conn IN
    /\ f \in {"none", "unmap"} /\ Call(f)
    /\ Leave(retire_deleted_lpc_endpoints(
               [Enter(f) EXCEPT !.core = B!release_communication_port(@, k)], c))
    /\ Aside

(* A thread is torn down: its wait is cancelled, its connection refused.   *)
lpc_connect_wait_abandon_thread(s, t) ==
    LET mine == {c \in DOMAIN s.wait :
                   s.wait[c].thread = t /\ s.wait[c].phase = "Waiting"}
        one(u, c) ==
            IF s.fault = "reply" THEN [u EXCEPT !.wait[c].phase = "Indeterminate"]
            ELSE abort_lpc_connection_views(
                   RefuseInBroker([u EXCEPT !.wait = Without(@, c),
                                            !.result[c] = "cancelled"], c), c)
    IN FoldLeft(one, s, SetToSeq(mine))

TearDown(t, f) ==
    /\ t \notin gone /\ f \in {"none", "reply", "unmap"} /\ Call(f)
    /\ Leave(lpc_connect_wait_abandon_thread(Enter(f), t))
    /\ gone' = gone \cup {t} /\ UNCHANGED process

(* A process exits: the broker closes what it owns, before its threads     *)
(* are torn down.                                                          *)
retire_lpc_process_handles(s, p) ==
    LET closed == [s EXCEPT !.core = B!close_process_ports(@, p)]
        one(t, c) ==
            IF c \in DOMAIN t.row
            THEN IF t.core.conn[c].client = p \/ (t.row[c].acceptor /\ t.core.conn[c].server = p)
                 THEN retire_deleted_lpc_endpoints(t, c) ELSE t
            ELSE t
    IN FoldLeftDomain(one, closed, closed.core.conn)

ProcessExits(p, f) ==
    /\ Live(p) /\ f \in {"none", "unmap"} /\ Call(f)
    /\ Leave(retire_lpc_process_handles(Enter(f), p))
    /\ process' = [process EXCEPT ![p] = "exited"]
    /\ UNCHANGED gone

(* Its address space goes once no thread is left.                          *)
ProcessDeleted(p) ==
    /\ process[p] = "exited" /\ {t \in Threads : ProcOf[t] = p} \subseteq gone
    /\ process' = [process EXCEPT ![p] = "deleted"]
    /\ mapped' = {x \in mapped : ProcessOf(core, x[1], x[2][1]) # p}
    /\ UNCHANGED <<core, row, wait, queue, result, gone, faults>>

(* Any other call sweeps and drains.                                       *)
OtherCall ==
    /\ Leave(Enter("none"))
    /\ <<core, row, wait, queue>>' # <<core, row, wait, queue>>
    /\ Aside

Next ==
    \/ \E p \in Procs :
         NtCreatePort(p) \/ ProcessDeleted(p) \/ \E f \in Faults : ProcessExits(p, f)
    \/ \E t \in Threads, f \in Faults :
         \/ TearDown(t, f)
         \/ \E o \in DOMAIN core.port, offer \in Offers : NtConnectPort(t, o, offer, f)
    \/ \E o \in DOMAIN core.port : NtListenPort(o) \/ CloseListen(o)
    \/ \E c \in Conns :
         \/ Retain(c)
         \/ \E f \in Faults :
              \/ RefuseConnectPort(c, f) \/ NtCompleteConnectPort(c, f)
              \/ CloseClient(c, f) \/ CloseServer(c, f)
              \/ \E offer \in Offers, n \in 0..4 : NtAcceptConnectPort(c, offer, f, n)
    \/ \E k \in DOMAIN core.kcomm, f \in Faults : Release(k, f)
    \/ OtherCall

Spec == Init /\ [][Next]_vars

-----------------------------------------------------------------------------
(* Properties.                                                             *)

(* Rows, waits and results have their types; a wait and a row belong to a  *)
(* connection of the broker.                                               *)
TypeOK ==
    /\ DOMAIN row \subseteq Conns /\ \A c \in DOMAIN row : row[c] \in Row
    /\ mapped \subseteq Conns \X View /\ DOMAIN wait \subseteq Conns
    /\ \A c \in DOMAIN wait : wait[c] \in [thread : Threads, phase : Phases]
    /\ queue \in Seq([conn : Conns, ok : BOOLEAN, retained : BOOLEAN])
    /\ result \in [Conns -> {"none", "success", "failure", "cancelled"}]
    /\ process \in [Procs -> {"live", "exited", "deleted"}]
    /\ gone \subseteq Threads /\ faults \in 0..MaxFaults

(* On a connection that was completed, each side keeps its views of both   *)
(* offered sections until its own endpoint is deleted, however the peer    *)
(* closes, exits or is torn down.                                          *)
ViewsLastAsTheirEndpoint ==
    \A c \in DOMAIN row : row[c].completed =>
        /\ row[c].offer /\ ~Deleted([core |-> core], c, "client") =>
              <<"client", "client">> \in row[c].views
        /\ row[c].offer /\ ~Deleted([core |-> core], c, "server") =>
              <<"server", "client">> \in row[c].views
        /\ \A side \in Sides :
              (\E v \in row[c].views : v[1] # side /\ v[2] = "server")
                /\ ~Deleted([core |-> core], c, side)
                   => <<side, "server">> \in row[c].views

(* A connector that was told of a failure, or gave up, has no client handle*)
(* and will have none: what the server completes for it is closed again.   *)
FailedConnectorsHoldNothing ==
    \A c \in Conns : result[c] \in {"failure", "cancelled"} => ~B!ClientLive(core, c)

=============================================================================
