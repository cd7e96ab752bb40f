---------------------- MODULE PythonConnectionManager ----------------------
(***************************************************************************)
(* The client side of the server: a ZeroMQ REP socket served by a          *)
(* PythonConnectionManager, and the REQ clients that talk to it.           *)
(*                                                                         *)
(* Every definition below is the part of a step that falls to this         *)
(* component; CommsThread joins them to the parts of the others.           *)
(***************************************************************************)
EXTENDS Naturals, ServerCodes

CONSTANTS Clients,      \* the REQ sockets of the clients
          NoClient,     \* "nobody"
          ClientMessages, \* the messages the clients send: code and shape
          MaxRequests   \* bound: requests sent in a behaviour

ASSUME ClientsAssumption ==
  /\ NoClient \notin Clients
  /\ ClientMessages \subseteq [code : RequestCodes, shape : Shapes]
  /\ MaxRequests \in Nat

VARIABLES
  request,        \* per client: the last request it sent (id 0: none yet)
  answer,         \* per client: the reply to it, at most one ({}: waiting)
  nextId,         \* id of the next request; it doubles as its payload
  inbox,          \* clients whose request waits in the REP socket
  owed,           \* the client the REP socket owes a reply, or NoClient
  mClientManager, \* which manager object is alive: 1, 2, ... (0: none)
  mLastCommand    \* the code the next reply will carry

clientVars == << request, answer, nextId >>
pyVars == << clientVars, inbox, owed, mClientManager, mLastCommand >>

Request == [id : Nat, code : RequestCodes, shape : Shapes]

\* The data words of a reply, as the set of requests whose payload they
\* answer: {} for an empty reply, {0} for bytes that answer no request.
Reply == [code : RequestCodes \cup ErrorCodes, data : SUBSET Nat]

PyTypeOK ==
  /\ request \in [Clients -> Request]
  /\ answer \in [Clients -> SUBSET Reply]
  /\ nextId \in Nat \ {0}
  /\ inbox \in SUBSET Clients
  /\ owed \in Clients \cup {NoClient}
  /\ mClientManager \in Nat
  /\ mLastCommand \in RequestCodes \cup ErrorCodes

PyInit ==
  /\ request = [c \in Clients |-> [id |-> 0, code |-> "NOP", shape |-> "ok"]]
  /\ answer = [c \in Clients |-> {}]
  /\ nextId = 1
  /\ inbox = {}
  /\ owed = NoClient
  /\ mClientManager = 0
  /\ mLastCommand = "ERROR_OCCURED"

Waiting(c) == request[c].id # 0 /\ answer[c] = {}

(***************************************************************************)
(* A client sends.  A REQ socket has one request outstanding at a time; a  *)
(* request sent while the REP socket is closed waits and is delivered when *)
(* it is bound again.  The socket picks among the pending requests, so a   *)
(* set of clients is all the queue there is.                               *)
(***************************************************************************)
clientSend(c) ==
  /\ ~ Waiting(c)
  /\ nextId =< MaxRequests
  /\ \E m \in ClientMessages :
       request' = [request EXCEPT ![c] = [id |-> nextId, code |-> m.code,
                                          shape |-> m.shape]]
  /\ answer' = [answer EXCEPT ![c] = {}]
  /\ nextId' = nextId + 1
  /\ inbox' = inbox \cup {c}
  /\ UNCHANGED << owed, mClientManager, mLastCommand >>

\* A new manager object with its own socket; what was queued in the old
\* socket went with it.
open ==
  /\ mClientManager' = mClientManager + 1
  /\ mLastCommand' = "ERROR_OCCURED"
  /\ UNCHANGED << clientVars, inbox, owed >>

\* Closing the socket drops the requests it holds and the reply it owes.
close ==
  /\ inbox' = {}
  /\ owed' = NoClient
  /\ UNCHANGED << clientVars, mClientManager, mLastCommand >>

\* A REP socket refuses (EFSM) to receive while it owes a reply, and to send
\* when it owes none.
RecvRefused == owed # NoClient
SendRefused == owed = NoClient

recv(c) ==
  /\ ~ RecvRefused
  /\ c \in inbox
  /\ inbox' = inbox \ {c}
  /\ owed' = c
  /\ UNCHANGED << clientVars, mClientManager, mLastCommand >>

\* send() on the REP socket.
send(reply) ==
  /\ ~ SendRefused
  /\ answer' = [answer EXCEPT ![owed] = {reply}]
  /\ owed' = NoClient
  /\ UNCHANGED << request, nextId, inbox, mClientManager >>

sendResponse(data) ==
  /\ send([code |-> mLastCommand, data |-> data])
  /\ UNCHANGED mLastCommand

sendError(errcode) ==
  /\ send([code |-> errcode, data |-> {}])
  /\ mLastCommand' = errcode

\* sendResponse({}) once handleCommand has recorded the command.
sendEmptyResponse(command_code) ==
  /\ send([code |-> command_code, data |-> {}])
  /\ mLastCommand' = command_code

\* handleCommand hands the request on and answers nothing yet.
rememberCommand(command_code) ==
  /\ mLastCommand' = command_code
  /\ UNCHANGED << clientVars, inbox, owed, mClientManager >>

============================================================================
