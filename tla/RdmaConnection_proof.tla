------------------------ MODULE RdmaConnection_proof ------------------------
(***************************************************************************)
(* For every retry budget, number of attempts and configuration: the error *)
(* budget of rdma_client_connect, the receives that are posted when a      *)
(* connection is up and the sockets that are closed after it.              *)
(***************************************************************************)
EXTENDS RdmaConnection, TLAPS

USE RetriesAssumption, ParamsAssumption

Resolving == {"addr", "addr_wait", "route", "route_wait"}

\* What the client's place says about its attempt and its budget.
ClientInv ==
  /\ cpc \in Resolving => aborted = "no"
  /\ cpc \in {"addr_wait", "route_wait"} => num_of_retry > 0
  /\ cpc = "start" => attempt = 0
  /\ cpc = "create" => attempt < MaxRetries
  /\ cpc \notin {"start", "create", "failed"} => attempt > 0

\* What has become of work_rdma_cm: set ON while a function saves it, and as
\* it was before, or ON for good on a client whose ctx_init failed.
Saved == {"ctx_init", "restore"}

WorkInv ==
  /\ cpc \in Saved => work["client"] /\ temp["client"] = ClientWork
  /\ cpc \notin Saved => work["client"] = ClientWork
  /\ spc \in Saved => work["server"] /\ temp["server"] = Work
  /\ spc \notin Saved \cup {"failed"} => work["server"] = Work

\* A server that waits to accept, or has accepted, has posted its receive.
ServerInv ==
  /\ spc \in {"start", "wait_req", "init", "ctx_init", "restore", "accept"} => accepted = 0
  /\ spc = "accept" \/ accepted > 0 => recv["server"] = ServerRecv(Work)

\* A client has no receive before it restores its flag, then the one it needs.
RecvInv ==
  /\ cpc \notin {"connect", "conn_wait", "destroy", "connected", "closed", "failed"} =>
       recv["client"] = "none"
  /\ cpc \in {"connect", "conn_wait", "connected", "closed"} =>
       recv["client"] = IF ClientWork THEN "none" ELSE "data"
  /\ cpc \in {"connected", "closed"} => accepted > 0

\* Sockets are open until the connection is closed.
SocketInv ==
  /\ cpc \notin {"closed", "failed"} => sock["client"] = "open"
  /\ spc \notin {"closed", "failed"} => sock["server"] = "open"

Inv ==
  /\ TypeOK /\ RetryBudget /\ SocketsClosed
  /\ ClientInv /\ WorkInv /\ ServerInv /\ RecvInv /\ SocketInv

(* The initial states satisfy the invariant.                               *)
LEMMA InitInv == Init => Inv
BY SMT DEF Init, NoErrors, Inv, TypeOK, RetryBudget, SocketsClosed, ClientInv, WorkInv, ServerInv,
   RecvInv, SocketInv, ClientPlaces, ServerPlaces, Roles, Resolving, Saved, ClientWork

(* Every step of the client, of the server and of ctx_close_connection     *)
(* keeps the invariant.                                                    *)
LEMMA NextInv == Inv /\ [Next]_vars => Inv'
<1> SUFFICES ASSUME Inv, [Next]_vars PROVE Inv'
  OBVIOUS
<1> USE DEF Inv, TypeOK, RetryBudget, SocketsClosed, ClientInv, WorkInv, ServerInv, RecvInv, SocketInv,
            ClientPlaces, ServerPlaces, Roles, Resolving, Saved, ClientWork,
            clientVars, serverVars, workVars, ClientFails
<1>1. CASE EstablishConnection
  BY <1>1, SMT DEF EstablishConnection
<1>2. CASE RetryRdmaConnect
  BY <1>2, SMT DEF RetryRdmaConnect
<1>3. CASE CreateRdmaResources
  <2>1. CASE cpc' = "failed" /\ UNCHANGED attempt
    BY <1>3, <2>1, SMT DEF CreateRdmaResources
  <2>2. CASE cpc' = "begin" /\ attempt' = attempt + 1
    BY <1>3, <2>2, SMT DEF CreateRdmaResources
  <2> QED
    BY <1>3, <2>1, <2>2 DEF CreateRdmaResources
<1>4. CASE Begin
  BY <1>4, SMT DEF Begin, NoErrors
<1>5. ASSUME NEW k \in {"addr", "route"}, Resolve(k) PROVE Inv'
  BY <1>5, SMT DEF Resolve, Awaiting
<1>6. ASSUME NEW k \in {"addr", "route"}, ResolveEvent(k) PROVE Inv'
  <2>1. /\ cpc \in {"addr_wait", "route_wait"} /\ num_of_retry > 0 /\ aborted = "no" /\ attempt > 0
        /\ UNCHANGED <<driver, attempt, aborted, serverVars, requests, workVars, recv, unacked, sock>>
    BY <1>6, SMT DEF ResolveEvent, Awaiting
  <2>2. CASE ClientFails /\ UNCHANGED <<num_of_retry, errs>>
    BY <2>1, <2>2, SMT
  <2>3. CASE cpc' = Resolved[k] /\ UNCHANGED <<num_of_retry, errs>>
    <3>1. cpc' \in {"route", "init"}
      BY <2>3, SMT DEF Resolved
    <3> QED
      BY <2>1, <2>3, <3>1, SMT
  <2>4. CASE /\ cpc' = k /\ num_of_retry' = num_of_retry - 1
             /\ errs' = [errs EXCEPT ![k] = @ + 1]
    <3>0. errs \in [{"addr", "route"} -> Nat] /\ num_of_retry \in 0..NumOfRetries
      OBVIOUS
    <3> HIDE DEF Inv
    <3>1. errs' \in [{"addr", "route"} -> Nat] /\ num_of_retry' \in 0..NumOfRetries
      BY <2>1, <2>4, <3>0, SMT
    <3>2. errs'["addr"] + errs'["route"] = errs["addr"] + errs["route"] + 1
      BY <2>4, <3>0, SMT
    <3> USE DEF Inv
    <3>3. RetryBudget'
      BY <2>1, <2>4, <3>1, <3>2, SMT
    <3> HIDE DEF RetryBudget
    <3>4. cpc' \in {"addr", "route"}
      BY <2>4
    <3> QED
      BY <2>1, <3>1, <3>3, <3>4, SMT
  <2> QED
    BY <1>6, <2>2, <2>3, <2>4 DEF ResolveEvent
<1>7. CASE ClientSaveWork
  BY <1>7, SMT DEF ClientSaveWork, SaveWork
<1>8. CASE ClientCtxInit
  <2>1. CASE CtxInit("client", TRUE) /\ cpc' = "restore"
    <3>1. initFailed' = initFailed
      BY <2>1, SMT DEF CtxInit
    <3> QED
      BY <1>8, <2>1, <3>1, SMT DEF ClientCtxInit, CtxInit
  <2>2. CASE CtxInit("client", FALSE) /\ ClientFails
    <3>1. /\ initFailed' \in [Roles -> BOOLEAN] /\ initFailed'["client"]
          /\ work' = work /\ temp' = temp
      <4>1. initFailed' = [initFailed EXCEPT !["client"] = TRUE] /\ UNCHANGED <<work, temp>>
        BY <2>2, Zenon DEF CtxInit
      <4> QED
        BY <4>1, SMT
    <3>2. cpc' \in {"destroy", "failed"}
      BY <2>2
    <3> QED
      BY <1>8, <3>1, <3>2, SMT DEF ClientCtxInit
  <2> QED
    BY <1>8, <2>1, <2>2 DEF ClientCtxInit
<1>9. CASE ClientRestore
  <2>1. /\ work' \in [Roles -> BOOLEAN] /\ work'["client"] = ClientWork
        /\ work'["server"] = work["server"] /\ UNCHANGED <<temp, initFailed>>
    BY <1>9, SMT DEF ClientRestore, Restore
  <2>2. /\ recv' \in [Roles -> {"none", "data", "ah"}] /\ recv'["server"] = recv["server"]
        /\ cpc' = "connect" => recv'["client"] = IF ClientWork THEN "none" ELSE "data"
        /\ cpc' \in {"connect", "destroy", "failed"}
    BY <1>9, <2>1, SMT DEF ClientRestore
  <2> QED
    BY <1>9, <2>1, <2>2, SMT DEF ClientRestore
<1>10. CASE RdmaConnect
  <2>1. requests' \in Seq(1..MaxRetries)
    <3>1. attempt \in 1..MaxRetries
      BY <1>10, SMT DEF RdmaConnect
    <3>2. Append(requests, attempt) \in Seq(1..MaxRetries)
      BY <3>1, SMT
    <3> QED
      BY <1>10, <3>2, Zenon DEF RdmaConnect
  <2>2. CASE ClientFails
    BY <1>10, <2>1, <2>2, SMT DEF RdmaConnect
  <2>3. CASE cpc' = "conn_wait"
    BY <1>10, <2>1, <2>3, SMT DEF RdmaConnect
  <2> QED
    BY <1>10, <2>2, <2>3 DEF RdmaConnect
<1>11. CASE ConnectEvent
  BY <1>11, SMT DEF ConnectEvent
<1>12. CASE DestroyRdmaResources
  BY <1>12, SMT DEF DestroyRdmaResources
<1>13. CASE Listen
  BY <1>13, SMT DEF Listen, ServerFails
<1>14. CASE ConnectRequest
  <2>1. requests' \in Seq(1..MaxRetries) /\ taken' \in 0..MaxRetries
    <3>1. ASSUME requests # <<>>
          PROVE  Head(requests) \in 0..MaxRetries /\ Tail(requests) \in Seq(1..MaxRetries)
      BY <3>1, SMT
    <3> QED
      BY <1>14, <3>1, Zenon DEF ConnectRequest
  <2>2. unacked' \in [Roles -> BOOLEAN]
    <3>1. PICK event \in BOOLEAN : unacked' = [unacked EXCEPT !["server"] = event]
      BY <1>14, Zenon DEF ConnectRequest
    <3> QED
      BY <3>1, SMT
  <2>3. spc' \in {"init", "failed"}
    BY <1>14 DEF ConnectRequest, ServerFails
  <2> QED
    BY <1>14, <2>1, <2>2, <2>3, SMT DEF ConnectRequest
<1>15. CASE ServerSaveWork
  BY <1>15, SMT DEF ServerSaveWork, SaveWork
<1>16. CASE ServerCtxInit
  <2>1. /\ initFailed' \in [Roles -> BOOLEAN] /\ initFailed'["client"] = initFailed["client"]
        /\ work' = work /\ temp' = temp
    BY <1>16, SMT DEF ServerCtxInit, CtxInit
  <2>2. spc' \in {"restore", "failed"}
    BY <1>16 DEF ServerCtxInit, ServerFails
  <2> QED
    BY <1>16, <2>1, <2>2, SMT DEF ServerCtxInit
<1>17. CASE ServerRestore
  <2>1. /\ work' \in [Roles -> BOOLEAN] /\ work'["server"] = Work
        /\ work'["client"] = work["client"] /\ UNCHANGED <<temp, initFailed>>
    BY <1>17, SMT DEF ServerRestore, Restore
  <2>2. ServerRecv(Work) \in {"none", "data", "ah"}
    BY DEF ServerRecv
  <2>3. /\ recv' \in [Roles -> {"none", "data", "ah"}] /\ recv'["client"] = recv["client"]
        /\ spc' = "accept" => recv'["server"] = ServerRecv(Work)
        /\ spc' \in {"accept", "failed"}
    BY <1>17, <2>1, <2>2, SMT DEF ServerRestore, ServerFails
  <2> QED
    BY <1>17, <2>1, <2>3, SMT DEF ServerRestore
<1>18. CASE Accept
  BY <1>18, SMT DEF Accept, ServerFails
<1>19. CASE Ack
  BY <1>19, SMT DEF Ack
<1>20. CASE DestroyControl
  BY <1>20, SMT DEF DestroyControl
<1>21. CASE CtxCloseConnection
  BY <1>21, SMTT(20) DEF CtxCloseConnection, CloseSocket
<1>22. CASE UNCHANGED vars
  BY <1>22, SMT DEF vars
<1> QED
  BY <1>1, <1>2, <1>3, <1>4, <1>5, <1>6, <1>7, <1>8, <1>9, <1>10, <1>11, <1>12, <1>13, <1>14,
     <1>15, <1>16, <1>17, <1>18, <1>19, <1>20, <1>21, <1>22 DEF Next, ClientStep, ServerStep

(* The variables of both sides keep their types; in particular the retry   *)
(* budget never becomes negative.                                          *)
THEOREM TypeCorrect == Spec => []TypeOK
<1>1. Inv => TypeOK
  BY DEF Inv
<1> QED
  BY InitInv, NextInv, <1>1, PTL DEF Spec

(* The address and route errors of an attempt share one budget exactly.    *)
THEOREM BudgetKept == Spec => []RetryBudget
<1>1. Inv => RetryBudget
  BY DEF Inv
<1> QED
  BY InitInv, NextInv, <1>1, PTL DEF Spec

(* A closed connection leaves a socket open just where the configuration,  *)
(* or on the client a ctx_init that failed in an earlier attempt, says so. *)
THEOREM SocketsClosedAsConfigured == Spec => []SocketsClosed
<1>1. Inv => SocketsClosed
  BY DEF Inv
<1> QED
  BY InitInv, NextInv, <1>1, PTL DEF Spec

(* When the client's connection is up both sides have posted the receives  *)
(* they need, whatever attempts came before, save on a client that had a   *)
(* ctx_init fail.                                                          *)
THEOREM ReceivesPosted == Spec => []PeersReady
<1>1. Inv => PeersReady
  BY SMT DEF Inv, ServerInv, RecvInv, PeersReady
<1> QED
  BY InitInv, NextInv, <1>1, PTL DEF Spec

=============================================================================
