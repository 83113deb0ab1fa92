--------------------------- MODULE RdmaConnection ---------------------------
(***************************************************************************)
(* src/Connection.cc: a client and a server that set up a connection with  *)
(* blocking calls, each in its own process: establish_connection,          *)
(* rdma_client_connect, rdma_server_connect, retry_rdma_connect and        *)
(* ctx_close_connection.                                                   *)
(*                                                                         *)
(* External: librdmacm and the helpers of perftest.  A request reaches the *)
(* server when its listener exists; the client may give up on a request    *)
(* (REJECTED, UNREACHABLE...) whatever the server does with it later.      *)
(***************************************************************************)
EXTENDS Naturals, Sequences

CONSTANTS
  NumOfRetries,  \* NUM_OF_RETRIES: budget for address and route errors
  MaxRetries,    \* max_retries of retry_rdma_connect
  Work,          \* user_param->work_rdma_cm as configured, TRUE for ON
  UseRdmaCm,     \* user_param->use_rdma_cm
  Ud,            \* user_param->connection_type = UD
  NeedsAh        \* tst = LAT, or tst = BW with duplex

ASSUME RetriesAssumption == NumOfRetries \in Nat \ {0} /\ MaxRetries \in Nat \ {0}
ASSUME ParamsAssumption  == {Work, UseRdmaCm, Ud, NeedsAh} \subseteq BOOLEAN

Roles == {"client", "server"}

VARIABLES
  cpc,           \* where the client is
  driver,        \* which function called rdma_client_connect
  attempt,       \* number of the client's attempt; i + 1 in retry_rdma_connect
  num_of_retry,  \* local of rdma_client_connect
  errs,          \* history: errors received in this attempt, by kind
  aborted,       \* history: the loop that gave this attempt up, or "no"
  spc,           \* where the server is
  control,       \* external: state of the server's cm_id_control
  requests,      \* external: attempts whose request waits at the listener
  taken,         \* attempt whose request the server took, 0 if none
  accepted,      \* external: attempt that rdma_accept answered, 0 if none
  work,          \* user_param->work_rdma_cm of each side
  temp,          \* local of both functions: work_rdma_cm while ctx_init runs
  initFailed,    \* history: ctx_init has failed on this side
  recv,          \* external: kind of receive posted for the connection
  unacked,       \* an event was received and not acknowledged
  sock           \* whether rdma_params->sockfd is open

vars == <<cpc, driver, attempt, num_of_retry, errs, aborted, spc, control, requests,
          taken, accepted, work, temp, initFailed, recv, unacked, sock>>

clientVars == <<cpc, driver, attempt, num_of_retry, errs, aborted>>
serverVars == <<spc, control, taken, accepted>>
workVars   == <<work, temp, initFailed>>

ClientPlaces == {"start", "create", "begin", "addr", "addr_wait", "route", "route_wait", "init",
                 "ctx_init", "restore", "connect", "conn_wait", "destroy",
                 "connected", "closed", "failed"}
ServerPlaces == {"start", "wait_req", "init", "ctx_init", "restore", "accept", "wait_ah",
                 "ack", "destroy", "returned", "closed", "failed"}

TypeOK ==
  /\ cpc \in ClientPlaces
  /\ driver \in {"none", "establish", "retry"}
  /\ attempt \in 0..MaxRetries
  /\ num_of_retry \in 0..NumOfRetries
  /\ errs \in [{"addr", "route"} -> Nat]
  /\ aborted \in {"no", "addr", "route"}
  /\ spc \in ServerPlaces
  /\ control \in {"idle", "listening", "destroyed"}
  /\ requests \in Seq(1..MaxRetries)
  /\ taken \in 0..MaxRetries
  /\ accepted \in 0..MaxRetries
  /\ work \in [Roles -> BOOLEAN]
  /\ temp \in [Roles -> BOOLEAN]
  /\ initFailed \in [Roles -> BOOLEAN]
  /\ recv \in [Roles -> {"none", "data", "ah"}]
  /\ unacked \in [Roles -> BOOLEAN]
  /\ sock \in [Roles -> {"open", "closed"}]

NoErrors == [k \in {"addr", "route"} |-> 0]

Init ==
  /\ cpc = "start"
  /\ driver = "none"
  /\ attempt = 0
  /\ num_of_retry = NumOfRetries
  /\ errs = NoErrors
  /\ aborted = "no"
  /\ spc = "start"
  /\ control = "idle"
  /\ requests = <<>>
  /\ taken = 0
  /\ accepted = 0
  /\ work = [r \in Roles |-> Work]
  /\ temp = work  \* not read before it is assigned
  /\ initFailed = [r \in Roles |-> FALSE]
  /\ recv = [r \in Roles |-> "none"]
  /\ unacked = [r \in Roles |-> FALSE]
  /\ sock = [r \in Roles |-> "open"]

-----------------------------------------------------------------------------
(* The client.                                                             *)

(* establish_connection calls rdma_client_connect once, with resources its *)
(* caller made; retry_rdma_connect makes them for every attempt.           *)
EstablishConnection ==
  /\ cpc = "start"
  /\ cpc' = "begin"
  /\ driver' = "establish"
  /\ attempt' = 1
  /\ UNCHANGED <<num_of_retry, errs, aborted, serverVars, requests, workVars, recv, unacked, sock>>

RetryRdmaConnect ==
  /\ cpc = "start"
  /\ cpc' = "create"
  /\ driver' = "retry"
  /\ UNCHANGED <<attempt, num_of_retry, errs, aborted, serverVars, requests, workVars, recv, unacked, sock>>

CreateRdmaResources ==
  /\ cpc = "create"
  /\ \/ cpc' = "failed" /\ UNCHANGED attempt
     \/ cpc' = "begin" /\ attempt' = attempt + 1
  /\ UNCHANGED <<driver, num_of_retry, errs, aborted, serverVars, requests, workVars, recv, unacked, sock>>

\* rdma_client_connect returns something else than SUCCESS.
ClientFails == cpc' = IF driver = "retry" THEN "destroy" ELSE "failed"

\* The address is looked up, which may fail; the retry budget is filled.
Begin ==
  /\ cpc = "begin"
  /\ ClientFails \/ cpc' = "addr"
  /\ num_of_retry' = NumOfRetries
  /\ errs' = NoErrors
  /\ aborted' = "no"
  /\ UNCHANGED <<driver, attempt, serverVars, requests, workVars, recv, unacked, sock>>

\* The place where the event of a resolution is awaited, and the one after it.
Awaiting == [addr |-> "addr_wait", route |-> "route_wait"]
Resolved == [addr |-> "route", route |-> "init"]

\* Mutant: the budget is not tested.
ResolveNoBudget(k) ==
  /\ cpc = k
  /\ ClientFails \/ cpc' = Awaiting[k]
  /\ UNCHANGED <<driver, attempt, num_of_retry, errs, aborted, serverVars, requests, workVars, recv, unacked, sock>>

(* The head of the loop on address errors and of the one on route errors,  *)
(* k: out of budget, or the resolution is started, which may fail.         *)
Resolve(k) ==
  /\ cpc = k
  /\ \/ /\ num_of_retry = 0
        /\ ClientFails
        /\ aborted' = k
     \/ /\ num_of_retry > 0
        /\ ClientFails \/ cpc' = Awaiting[k]
        /\ UNCHANGED aborted
  /\ UNCHANGED <<driver, attempt, num_of_retry, errs, serverVars, requests, workVars, recv, unacked, sock>>

\* Mutant: an unexpected event is not acknowledged.
ResolveEventNoAck(k) ==
  /\ cpc = Awaiting[k]
  /\ \/ ClientFails /\ unacked' = [unacked EXCEPT !["client"] = TRUE]
     \/ cpc' = Resolved[k] /\ UNCHANGED unacked
  /\ UNCHANGED <<driver, attempt, num_of_retry, errs, aborted, serverVars, requests, workVars, recv, sock>>

\* Mutant: a route error does not count.
ResolveEventFreeRoute(k) ==
  /\ cpc = Awaiting[k]
  /\ \/ ClientFails /\ UNCHANGED <<num_of_retry, errs>>
     \/ /\ errs[k] <= NumOfRetries
        /\ cpc' = k
        /\ num_of_retry' = IF k = "addr" THEN num_of_retry - 1 ELSE num_of_retry
        /\ errs' = [errs EXCEPT ![k] = @ + 1]
     \/ cpc' = Resolved[k] /\ UNCHANGED <<num_of_retry, errs>>
  /\ UNCHANGED <<driver, attempt, aborted, serverVars, requests, workVars, recv, unacked, sock>>

(* The event: none can be got or it is an unexpected one; an error, after  *)
(* which the loop goes round again; or the awaited one.  All of them are   *)
(* acknowledged.                                                           *)
ResolveEvent(k) ==
  /\ cpc = Awaiting[k]
  /\ \/ ClientFails /\ UNCHANGED <<num_of_retry, errs>>
     \/ /\ cpc' = k
        /\ num_of_retry' = num_of_retry - 1
        /\ errs' = [errs EXCEPT ![k] = @ + 1]
     \/ cpc' = Resolved[k] /\ UNCHANGED <<num_of_retry, errs>>
  /\ UNCHANGED <<driver, attempt, aborted, serverVars, requests, workVars, recv, unacked, sock>>

(* Both functions save work_rdma_cm in temp and set it ON for ctx_init.    *)
SaveWork(r) ==
  /\ temp' = [temp EXCEPT ![r] = work[r]]
  /\ work' = [work EXCEPT ![r] = TRUE]
  /\ UNCHANGED initFailed

(* ctx_init may fail, and then the function returns with the flag ON.      *)
CtxInit(r, ok) ==
  /\ initFailed' = [initFailed EXCEPT ![r] = @ \/ ~ok]
  /\ UNCHANGED <<work, temp>>

\* Mutant: work_rdma_cm is not set back.
RestoreNothing(r) == UNCHANGED <<work, temp, initFailed>>

Restore(r) ==
  /\ work' = [work EXCEPT ![r] = temp[r]]
  /\ UNCHANGED <<temp, initFailed>>

ClientSaveWork ==
  /\ cpc = "init"
  /\ cpc' = "ctx_init"
  /\ SaveWork("client")
  /\ UNCHANGED <<driver, attempt, num_of_retry, errs, aborted, serverVars, requests, recv, unacked, sock>>

ClientCtxInit ==
  /\ cpc = "ctx_init"
  /\ \/ CtxInit("client", TRUE) /\ cpc' = "restore"
     \/ CtxInit("client", FALSE) /\ ClientFails
  /\ UNCHANGED <<driver, attempt, num_of_retry, errs, aborted, serverVars, requests, recv, unacked, sock>>

\* The flag is set back; with work_rdma_cm OFF a receive is posted.
ClientRestore ==
  /\ cpc = "restore"
  /\ Restore("client")
  /\ \/ work'["client"] /\ cpc' = "connect" /\ UNCHANGED recv
     \/ ~work'["client"] /\ cpc' = "connect" /\ recv' = [recv EXCEPT !["client"] = "data"]
     \/ ~work'["client"] /\ ClientFails /\ UNCHANGED recv
  /\ UNCHANGED <<driver, attempt, num_of_retry, errs, aborted, serverVars, requests, unacked, sock>>

RdmaConnect ==
  /\ cpc = "connect"
  /\ \/ ClientFails /\ UNCHANGED requests
     \/ /\ cpc' = "conn_wait"
        /\ requests' = IF control = "listening" THEN Append(requests, attempt) ELSE requests
  /\ UNCHANGED <<driver, attempt, num_of_retry, errs, aborted, serverVars, workVars, recv, unacked, sock>>

(* ESTABLISHED, possible once the server has accepted this attempt, or any *)
(* other event, or none; acknowledged.  In UD mode the client does not     *)
(* send its QP number: that code is commented out.                         *)
ConnectEvent ==
  /\ cpc = "conn_wait"
  /\ \/ accepted = attempt /\ cpc' = "connected"
     \/ ClientFails
  /\ UNCHANGED <<driver, attempt, num_of_retry, errs, aborted, serverVars, requests, workVars, recv, unacked, sock>>

(* destroy_rdma_resources between two attempts of retry_rdma_connect: like *)
(* rdma_destroy_id it waits for every event to be acknowledged.            *)
DestroyRdmaResources ==
  /\ cpc = "destroy"
  /\ ~unacked["client"]
  /\ cpc' \in IF attempt < MaxRetries THEN {"create", "failed"} ELSE {"failed"}
  /\ recv' = [recv EXCEPT !["client"] = "none"]
  /\ UNCHANGED <<driver, attempt, num_of_retry, errs, aborted, serverVars, requests, workVars, unacked, sock>>

-----------------------------------------------------------------------------
(* The server: one call of rdma_server_connect.                            *)

ServerFails == spc' = "failed"

Listen ==
  /\ spc = "start"
  /\ \/ ServerFails /\ UNCHANGED control
     \/ spc' = "wait_req" /\ control' = "listening"
  /\ UNCHANGED <<clientVars, taken, accepted, requests, workVars, recv, unacked, sock>>

(* A request, or an event that is not one, which is not acknowledged, or   *)
(* no event at all.                                                        *)
ConnectRequest ==
  /\ spc = "wait_req"
  /\ \/ /\ requests # <<>>
        /\ spc' = "init"
        /\ taken' = Head(requests)
        /\ requests' = Tail(requests)
        /\ unacked' = [unacked EXCEPT !["server"] = TRUE]
     \/ /\ ServerFails
        /\ \E event \in BOOLEAN : unacked' = [unacked EXCEPT !["server"] = event]
        /\ UNCHANGED <<taken, requests>>
  /\ UNCHANGED <<clientVars, control, accepted, workVars, recv, sock>>

(* The receive the server posts before it accepts: one for data when       *)
(* work_rdma_cm is OFF, in UD mode possibly one for the client's address.  *)
ServerRecv(on) == IF ~on THEN "data" ELSE IF Ud /\ NeedsAh THEN "ah" ELSE "none"

ServerSaveWork ==
  /\ spc = "init"
  /\ spc' = "ctx_init"
  /\ SaveWork("server")
  /\ UNCHANGED <<clientVars, control, taken, accepted, requests, recv, unacked, sock>>

ServerCtxInit ==
  /\ spc = "ctx_init"
  /\ \/ CtxInit("server", TRUE) /\ spc' = "restore"
     \/ CtxInit("server", FALSE) /\ ServerFails
  /\ UNCHANGED <<clientVars, control, taken, accepted, requests, recv, unacked, sock>>

\* Mutant: no receive is posted before the connection is accepted.
ServerRestoreNoRecv ==
  /\ spc = "restore"
  /\ Restore("server")
  /\ spc' = "accept"
  /\ UNCHANGED <<clientVars, control, taken, accepted, requests, recv, unacked, sock>>

ServerRestore ==
  /\ spc = "restore"
  /\ Restore("server")
  /\ \/ spc' = "accept" /\ recv' = [recv EXCEPT !["server"] = ServerRecv(work'["server"])]
     \/ ServerRecv(work'["server"]) # "none" /\ ServerFails /\ UNCHANGED recv
  /\ UNCHANGED <<clientVars, control, taken, accepted, requests, unacked, sock>>

(* rdma_accept; then a server with work_rdma_cm ON waits, in UD mode with  *)
(* NeedsAh, for the completion of the receive for the client's address.    *)
Accept ==
  /\ spc = "accept"
  /\ \/ ServerFails /\ UNCHANGED accepted
     \/ /\ accepted' = taken
        /\ spc' = IF work["server"] /\ Ud /\ NeedsAh THEN "wait_ah" ELSE "ack"
  /\ UNCHANGED <<clientVars, control, taken, requests, workVars, recv, unacked, sock>>

\* Mutant: the listener is to be destroyed before the event is acknowledged.
AckSkipped ==
  /\ spc = "ack"
  /\ spc' = "destroy"
  /\ UNCHANGED <<clientVars, control, taken, accepted, requests, workVars, recv, unacked, sock>>

Ack ==
  /\ spc = "ack"
  /\ spc' = "destroy"
  /\ unacked' = [unacked EXCEPT !["server"] = FALSE]
  /\ UNCHANGED <<clientVars, control, taken, accepted, requests, workVars, recv, sock>>

\* rdma_destroy_id of the listener; requests still waiting there are dropped.
DestroyControl ==
  /\ spc = "destroy"
  /\ ~unacked["server"]
  /\ spc' = "returned"
  /\ control' = "destroyed"
  /\ requests' = <<>>
  /\ UNCHANGED <<clientVars, taken, accepted, workVars, recv, unacked, sock>>

-----------------------------------------------------------------------------
(* ctx_close_connection: after a handshake that may fail, a side that uses *)
(* neither kind of rdma_cm writes "done", which may fail too, and closes   *)
(* its socket.                                                             *)
CloseSocket(r) ==
  sock' = IF UseRdmaCm \/ work[r] THEN sock ELSE [sock EXCEPT ![r] = "closed"]

CtxCloseConnection ==
  /\ \/ cpc = "connected" /\ cpc' \in {"closed", "failed"} /\ UNCHANGED spc
        /\ IF cpc' = "closed" THEN CloseSocket("client") ELSE UNCHANGED sock
     \/ spc = "returned" /\ spc' \in {"closed", "failed"} /\ UNCHANGED cpc
        /\ IF spc' = "closed" THEN CloseSocket("server") ELSE UNCHANGED sock
  /\ UNCHANGED <<driver, attempt, num_of_retry, errs, aborted, control, taken, accepted,
                 requests, workVars, recv, unacked>>

-----------------------------------------------------------------------------
ClientStep ==
  \/ EstablishConnection \/ RetryRdmaConnect \/ CreateRdmaResources \/ Begin
  \/ \E k \in {"addr", "route"} : Resolve(k) \/ ResolveEvent(k)
  \/ ClientSaveWork \/ ClientCtxInit \/ ClientRestore \/ RdmaConnect \/ ConnectEvent \/ DestroyRdmaResources

ServerStep ==
  \/ Listen \/ ConnectRequest \/ ServerSaveWork \/ ServerCtxInit \/ ServerRestore
  \/ Accept \/ Ack \/ DestroyControl

Next == ClientStep \/ ServerStep \/ CtxCloseConnection

Spec == Init /\ [][Next]_vars

(* Each process runs on.  The resolutions have a timeout of 2000 ms and    *)
(* rdma_connect gives up after its retries, so a client's wait for an      *)
(* event ends; nothing ends a server's wait for a request.                 *)
FairSpec ==
  Spec /\ WF_vars(ClientStep) /\ WF_vars(ServerStep /\ spc # "wait_req")

-----------------------------------------------------------------------------
(* In one attempt of rdma_client_connect the address and route errors      *)
(* together use up one budget of NUM_OF_RETRIES: never more errors than    *)
(* that are retried, and an attempt given up for them has met exactly so   *)
(* many.                                                                   *)
RetryBudget ==
  /\ errs["addr"] + errs["route"] + num_of_retry = NumOfRetries
  /\ aborted # "no" => errs["addr"] + errs["route"] = NumOfRetries

\* work_rdma_cm as the client has it between two calls: a failed ctx_init,
\* whose early return skips the restore, has left it ON for good.
ClientWork == Work \/ initFailed["client"]

(* The receive a side needs is posted before the other side can send: when *)
(* the client's connection is up the server has the one its configuration  *)
(* asks for, and the client has the one for data when work_rdma_cm is OFF, *)
(* whatever attempts failed before, save that after an attempt that failed *)
(* in ctx_init a client configured OFF connects without it.                *)
PeersReady ==
  cpc \in {"connected", "closed"} =>
    /\ recv["server"] = ServerRecv(Work)
    /\ recv["client"] = IF ClientWork THEN "none" ELSE "data"

(* A side that has closed its connection has closed its socket exactly     *)
(* when it is configured for neither kind of rdma_cm; the flag overwritten *)
(* for ctx_init shows in this way in one case only, a client one of whose  *)
(* earlier attempts failed there: its socket stays open.                   *)
SocketsClosed ==
  /\ cpc = "closed" => sock["client"] = IF UseRdmaCm \/ ClientWork THEN "open" ELSE "closed"
  /\ spc = "closed" => sock["server"] = IF UseRdmaCm \/ Work THEN "open" ELSE "closed"

(* A client that starts connecting gets an answer, through up to           *)
(* max_retries attempts: no attempt leaves an unacknowledged event behind  *)
(* on which destroy_rdma_resources would wait for ever.                    *)
ClientReturns == cpc = "begin" ~> cpc \in {"connected", "closed", "failed"}

(* A server that has taken a request returns: it acknowledges the request  *)
(* before it destroys the listener the request counts for.                 *)
ServerReturns == spc = "init" ~> spc \in {"returned", "closed", "failed"}

(* Comment at establish_connection, "establishes the RDMA connection", for *)
(* every kind of transport: when the client's side of it is up, the        *)
(* server's call returns too.                                              *)
BothEstablished == cpc = "connected" ~> spc \in {"returned", "closed", "failed"}

=============================================================================
