------------------------------ MODULE LpcWaits ------------------------------
(***************************************************************************)
(* How the executive parks the threads that wait on the port broker, and   *)
(* wakes them.  The broker never calls back: a server that finds nothing to*)
(* receive and a requester without its reply are recorded in tables, and   *)
(* every call that moves a message asks the broker again on behalf of each *)
(* of them, in the order in which they parked.                             *)
(*                                                                         *)
(* A call is one step: its handler, the redrive if it made progress, and   *)
(* then its own park, or its reply followed by the resumption of a kernel  *)
(* component that waits for one.  One connection to one port is established*)
(* at the start, and the kernel holds a reference to the port (hard errors *)
(* and components send through it).                                        *)
(***************************************************************************)
EXTENDS Naturals, Sequences, FiniteSets
LOCAL INSTANCE SequencesExt
LOCAL INSTANCE FiniteSetsExt

CONSTANTS
    Server, Client,   \* the two processes
    Threads, ProcOf,  \* their threads
    MaxConns,         \* bound on the connections
    MaxKernel,        \* bound on the references the kernel retains
    MaxMessages,      \* bound on the messages
    QueuedCharge,     \* what a queued message costs its port
    DeliveredCharge   \* what the record of a delivered request costs

VARIABLES
    core,     \* the broker
    issued,   \* messages so far
    recv,     \* LPC_RECEIVE_WAITS, oldest first
    req,      \* LPC_REQUEST_WAITS, oldest first
    comp,     \* LPC_COMPONENT_WAITS, oldest first
    reg,      \* the termination port of a thread: its retained reference
    exited,   \* processes whose handles were closed
    gone      \* threads that were torn down

vars == <<core, issued, recv, req, comp, reg, exited, gone>>

B == INSTANCE PortCore

Hard == B!KernelPlane(1)   \* the requests of hard errors and components

(* Handles that a server receives from.                                    *)
Listen == <<"listen", 1>>
ServerEnd(c) == <<"server", c>>
Handles == {Listen} \cup {ServerEnd(c) : c \in 1..MaxConns}

Without(waits, t) == LET other(w) == w.thread # t IN SelectSeq(waits, other)

ThreadsOf(waits) == {waits[i].thread : i \in DOMAIN waits}

Init ==
    /\ core = LET empty == [port |-> << >>, conn |-> << >>, plane |-> << >>, kport |-> << >>,
                            kcomm |-> << >>, retained |-> 0, usage |-> << >>]
                  asked == B!connect(B!create_port(empty, Server, "Lpc"), 1, Client, FALSE)
              IN B!retain_connection_port(B!complete(B!accept(B!receive(asked, 1), 1), 1), 1)
    /\ issued = 0 /\ recv = << >> /\ req = << >> /\ comp = << >>
    /\ reg = << >> /\ exited = {} /\ gone = {}

-----------------------------------------------------------------------------
(* Waking.  s is the state of the call.                                    *)

(* The handle stands for the port, while it is open.                       *)
Valid(s, h) ==
    IF h = Listen THEN B!Open(s.core, 1)
    ELSE h[2] \in DOMAIN s.core.conn /\ B!ServerLive(s.core, h[2])

Available(s) ==
    \/ s.core.port[1].pending # << >> \/ s.core.port[1].datagrams # << >>
    \/ B!ServerPlanes(s.core, 1) # {}

(* op_receive: connection requests before messages.                        *)
op_receive(s) ==
    [s EXCEPT !.core = IF @.port[1].pending # << >> THEN B!receive(@, 1)
                       ELSE B!receive_message(@, 1)]

(* A waiter whose handle was closed is told so.                            *)
lpc_receive_wait_redrive_all(s) ==
    LET one(t, w) ==
            IF ~Valid(t, w.handle) THEN [t EXCEPT !.recv = Without(@, w.thread)]
            ELSE IF Available(t) THEN [op_receive(t) EXCEPT !.recv = Without(@, w.thread)]
            ELSE t
    IN FoldLeft(one, s, s.recv)

Answered(s, w) == w.msg \in ToSet(s.core.plane[w.plane].client_inbox)

OverConn(w) == w.plane[1] = "conn"

(* receive_reply fails: the client handle is gone, or the connection while *)
(* no reply is there.                                                      *)
Broken(s, w) ==
    /\ OverConn(w)
    /\ \/ ~s.core.conn[w.plane[2]].client_open
       \/ ~B!Connected(s.core, w.plane[2]) /\ ~Answered(s, w)

TakeReply(s, w) == [s EXCEPT !.core = B!remove_request(@, w.plane, w.msg)]

lpc_request_wait_redrive_all(s) ==
    LET one(t, w) ==
            IF Broken(t, w) THEN [t EXCEPT !.req = Without(@, w.thread)]
            ELSE IF Answered(t, w) THEN [TakeReply(t, w) EXCEPT !.req = Without(@, w.thread)]
            ELSE t
    IN FoldLeft(one, s, s.req)

lpc_endpoint_redrive_all(s) == lpc_request_wait_redrive_all(lpc_receive_wait_redrive_all(s))

(* A request of thread t over plane p.                                     *)
Ask(s, t, p) ==
    LET m == [id |-> s.issued + 1, request |-> TRUE, proc |-> ProcOf[t]]
    IN [s EXCEPT !.issued = @ + 1, !.core = B!Enqueue(@, p, "server_inbox", m)]

Wait(s, t, p) ==
    [thread |-> t, plane |-> p,
     msg |-> [id |-> s.issued + 1, request |-> TRUE, proc |-> ProcOf[t]]]

(* The component that thread t called sends a request and waits for it.    *)
lpc_wait_begin_after_stack_admission(s, t) ==
    lpc_endpoint_redrive_all([Ask(s, t, Hard) EXCEPT !.comp = Append(@, Wait(s, t, Hard))])

(* Components are resumed with the replies that came; one that is resumed  *)
(* may send its next request at once.                                      *)
lpc_component_reply_commit_drain(s, again) ==
    LET one(t, w) ==
            IF ~Answered(t, w) THEN t
            ELSE LET u == [TakeReply(t, w) EXCEPT !.comp = Without(@, w.thread)]
                 IN IF again /\ u.issued < MaxMessages
                    THEN lpc_wait_begin_after_stack_admission(u, w.thread) ELSE u
    IN FoldLeft(one, s, s.comp)

-----------------------------------------------------------------------------
(* The calls.                                                              *)

Enter == [core |-> core, issued |-> issued, recv |-> recv, req |-> req, comp |-> comp]

Leave(t) ==
    /\ core' = t.core /\ issued' = t.issued
    /\ recv' = t.recv /\ req' = t.req /\ comp' = t.comp

Waiting == ThreadsOf(recv) \cup ThreadsOf(req) \cup ThreadsOf(comp)   \* lpc_thread_has_wait

Runs(t) == t \notin gone \cup Waiting /\ ProcOf[t] \notin exited

Aside == UNCHANGED <<reg, exited, gone>>

(* cancel_request through the handle of wait w, if that is open.           *)
cancel_request(s, w) ==
    IF OverConn(w) /\ ~s.core.conn[w.plane[2]].client_open THEN s
    ELSE [s EXCEPT !.core = B!remove_request(@, w.plane, w.msg)]

(* NtRequestWaitReplyPort through the client handle, or a hard error       *)
(* through the reference of the kernel.  Without a reply slot to park the  *)
(* request is taken back, which the server may have received meanwhile.    *)
lpc_request_wait_or_park(t, p, park) ==
    LET s == Enter
        sent == lpc_endpoint_redrive_all(Ask(s, t, p))
    IN /\ Runs(t) /\ issued < MaxMessages
       /\ p # Hard => /\ ProcOf[t] = Client /\ core.conn[p[2]].client_open
                      /\ B!Connected(core, p[2])
       /\ Leave(IF park THEN [sent EXCEPT !.req = Append(@, Wait(s, t, p))]
                ELSE cancel_request(sent, Wait(s, t, p)))
       /\ Aside

ComponentRequest(t) ==
    /\ Runs(t) /\ issued < MaxMessages
    /\ Leave(lpc_wait_begin_after_stack_admission(Enter, t))
    /\ Aside

(* Handle h may answer request m of plane p.                               *)
Answers(s, h, p, m) ==
    LET live(c) == B!Connected(s, c) /\ B!ClientLive(s, c)
    IN /\ m \in s.plane[p].delivered
       /\ p[1] = "conn" => live(p[2])
       /\ h # Listen =>
            IF p[1] = "conn" THEN h[2] = p[2]
            ELSE live(h[2]) /\ s.conn[h[2]].client = m.proc

Reply(s, p, m) == [s EXCEPT !.core = B!send_reply_message(@, p, m)]

nt_reply_port(t, h, p, m, again) ==
    /\ Runs(t) /\ ProcOf[t] = Server /\ Valid(Enter, h) /\ Answers(core, h, p, m)
    /\ Leave(lpc_component_reply_commit_drain(
               lpc_endpoint_redrive_all(Reply(Enter, p, m)), again))
    /\ Aside

(* What a receive leaves: something received, or the caller parked.        *)
ReceiveOrPark(s, t, h, park, replied) ==
    LET taken == op_receive(s)
        driven == IF replied THEN lpc_endpoint_redrive_all(s) ELSE s
    IN IF Available(s) THEN IF replied THEN lpc_endpoint_redrive_all(taken) ELSE taken
       ELSE IF park THEN [driven EXCEPT !.recv = Append(@, [thread |-> t, handle |-> h])]
       ELSE driven

(* NtReplyWaitReceivePort and NtListenPort without a reply.                *)
NtListenPort(t, h, park) ==
    /\ Runs(t) /\ ProcOf[t] = Server /\ Valid(Enter, h)
    /\ Leave(ReceiveOrPark(Enter, t, h, park, FALSE))
    /\ Aside


(* With the reply to an earlier request, which precedes the receive.       *)
lpc_receive_or_park(t, h, p, m, park, again) ==
    /\ Runs(t) /\ ProcOf[t] = Server /\ Valid(Enter, h) /\ Answers(core, h, p, m)
    /\ Leave(lpc_component_reply_commit_drain(
               ReceiveOrPark(Reply(Enter, p, m), t, h, park, TRUE), again))
    /\ Aside

(* A connection request arrives; its own wait is that of LpcConnect.       *)
NtConnectPort ==
    /\ B!Open(core, 1) /\ Len(core.conn) < MaxConns
    /\ Leave(lpc_endpoint_redrive_all(
               [Enter EXCEPT !.core = B!connect(@, 1, Client, FALSE)]))
    /\ Aside

(* NtRegisterThreadTerminatePort with a client handle.                     *)
register_native_thread_termination_port(t, c) ==
    /\ Runs(t) /\ ProcOf[t] = Client /\ t \notin DOMAIN reg
    /\ core.conn[c].client_open /\ B!Connected(core, c) /\ core.retained < MaxKernel
    /\ Leave([Enter EXCEPT !.core = B!retain_communication_port(@, c)])
    /\ reg' = [x \in DOMAIN reg \cup {t} |-> IF x = t THEN core.retained + 1 ELSE reg[x]]
    /\ UNCHANGED <<exited, gone>>

(* NtClose does not redrive.                                               *)
CloseHandle(p) ==
    /\ \/ /\ p = Server /\ B!Open(core, 1)
          /\ Leave([Enter EXCEPT !.core = B!close_listen(@, 1)])
       \/ \E c \in DOMAIN core.conn :
            \/ /\ p = Server /\ B!ServerLive(core, c)
               /\ Leave([Enter EXCEPT !.core = B!close_server(@, c)])
            \/ /\ p = Client /\ core.conn[c].client_open
               /\ Leave([Enter EXCEPT !.core = B!close_client(@, c)])
    /\ p \notin exited
    /\ Aside

(* Progress of calls on other ports, or in the name of no thread.          *)
UnrelatedProgress ==
    /\ Leave(lpc_endpoint_redrive_all(Enter))
    /\ Enter' # Enter
    /\ Aside

-----------------------------------------------------------------------------
(* Teardown.                                                               *)

(* The server is told of the death of a thread that registered a port, and *)
(* the reference goes.                                                     *)
notify_thread_termination_ports(s, t) ==
    IF t \notin DOMAIN reg THEN s
    ELSE LET k == reg[t]
             c == s.core.kcomm[k].conn
             m == [id |-> s.issued + 1, request |-> FALSE, proc |-> ProcOf[t]]
             told == IF ~B!Connected(s.core, c) THEN s
                     ELSE [s EXCEPT !.issued = @ + 1,
                             !.core = B!Enqueue(@, B!ConnPlane(c), "server_inbox", m)]
         IN lpc_endpoint_redrive_all(
              [told EXCEPT !.core = B!release_communication_port(@, k)])

lpc_component_wait_cancel(s, t) ==
    LET mine(w) == w.thread = t
        one(u, w) == [cancel_request(u, w) EXCEPT !.comp = Without(@, t)]
    IN FoldLeft(one, s, SelectSeq(s.comp, mine))

(* Mutant: the request of the thread stays with the broker.                *)
MutAbandon(s, t) == [s EXCEPT !.req = Without(@, t)]

lpc_request_wait_abandon_thread(s, t) ==
    LET mine(w) == w.thread = t
        one(u, w) == [cancel_request(u, w) EXCEPT !.req = Without(@, t)]
    IN FoldLeft(one, s, SelectSeq(s.req, mine))

lpc_receive_wait_abandon_thread(s, t) == [s EXCEPT !.recv = Without(@, t)]

(* Components first, then the notification, then the waits of the thread.  *)
TearDown(t) ==
    /\ t \notin gone
    /\ t \in DOMAIN reg => issued < MaxMessages
    /\ LET notified == notify_thread_termination_ports(lpc_component_wait_cancel(Enter, t), t)
       IN Leave(lpc_request_wait_abandon_thread(
                  lpc_receive_wait_abandon_thread(notified, t), t))
    /\ gone' = gone \cup {t}
    /\ reg' = [x \in DOMAIN reg \ {t} |-> reg[x]]
    /\ UNCHANGED exited

(* A process exits: its handles are closed before its threads are torn     *)
(* down.                                                                   *)
ProcessExits(p) ==
    /\ p \notin exited
    /\ Leave([Enter EXCEPT !.core = B!close_process_ports(@, p)])
    /\ exited' = exited \cup {p}
    /\ UNCHANGED <<reg, gone>>

Conns == DOMAIN core.conn

Next ==
    \/ \E t \in Threads, park \in BOOLEAN :
         \/ \E p \in {Hard} \cup {B!ConnPlane(c) : c \in Conns} :
              lpc_request_wait_or_park(t, p, park)
         \/ \E h \in Handles :
              \/ NtListenPort(t, h, park)
              \/ \E p \in DOMAIN core.plane, again \in BOOLEAN :
                   \E m \in core.plane[p].delivered :
                     \/ nt_reply_port(t, h, p, m, again)
                     \/ lpc_receive_or_park(t, h, p, m, park, again)
    \/ \E t \in Threads :
         \/ ComponentRequest(t) \/ TearDown(t)
         \/ \E c \in Conns : register_native_thread_termination_port(t, c)
    \/ \E p \in {Server, Client} : CloseHandle(p) \/ ProcessExits(p)
    \/ NtConnectPort
    \/ UnrelatedProgress

Spec == Init /\ [][Next]_vars

-----------------------------------------------------------------------------
(* Properties.                                                             *)

(* A thread waits in one place, and the waits have their types.            *)
TypeOK ==
    /\ issued \in 0..MaxMessages
    /\ \A i \in DOMAIN recv :
         recv[i].thread \in {t \in Threads : ProcOf[t] = Server} /\ recv[i].handle \in Handles
    /\ \A w \in ToSet(req) \cup ToSet(comp) :
         w.thread \in Threads /\ w.plane \in DOMAIN core.plane /\ w.msg.request
    /\ Cardinality(Waiting) = Len(recv) + Len(req) + Len(comp)
    /\ gone \cap Waiting = {}
    /\ DOMAIN reg \subseteq Threads \ gone
    /\ {reg[t] : t \in DOMAIN reg} = DOMAIN core.kcomm


(* Requests and waits correspond: a request that is queued, held by the    *)
(* server or answered has its waiter while the handle is open, so a request*)
(* whose waiter could not park or was torn down is taken back; and what is *)
(* waited for is still there unless the connection is not.                 *)
RequestsHaveWaiters ==
    LET waits == ToSet(req) \cup ToSet(comp)
    IN /\ \A p \in DOMAIN core.plane : \A m \in B!Requests(core, p) :
            \/ p[1] = "conn" /\ ~core.conn[p[2]].client_open
            \/ \E w \in waits : w.plane = p /\ w.msg = m
       /\ \A w \in waits :
            \/ w.msg \in B!Requests(core, w.plane)
            \/ OverConn(w) /\ ~(core.conn[w.plane[2]].client_open
                                  /\ B!Connected(core, w.plane[2]))

(* The pool account of a port is charged exactly for the messages and      *)
(* delivered-request records that are stored on its behalf, whatever was   *)
(* closed, released, cancelled or answered: the refunds of                 *)
(* replace_pool_charge that are unwrapped cannot fail.                     *)
PoolBalanced ==
    \A a \in DOMAIN core.usage :
        LET paid == {p \in DOMAIN core.plane : B!Account(core, p) = a}
            charge(p) == B!PlaneCharge(core.plane[p])
        IN core.usage[a] = MapThenSumSet(charge, paid)
=============================================================================
