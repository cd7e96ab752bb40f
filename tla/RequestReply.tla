---------------------------- MODULE RequestReply ---------------------------
(***************************************************************************)
(* What the server promises its clients, whatever happens behind it: it    *)
(* takes requests one at a time, it replies at most once to the client it  *)
(* took the request from, and the reply carries the request's own code and *)
(* nothing but its own data, or an error code and no data.  A request may  *)
(* be dropped (the server shuts down or replaces its socket): then it is   *)
(* never replied to.                                                       *)
(***************************************************************************)
EXTENDS Naturals

CONSTANTS Clients, NoClient, ErrorCodes

VARIABLES request,  \* per client: the last request it sent
          answer,   \* per client: the replies to it
          pending,  \* clients whose request has not been taken
          serving   \* the client whose request is being served, or NoClient

vars == << request, answer, pending, serving >>

Init ==
  /\ \A c \in Clients : answer[c] = {}
  /\ pending = {}
  /\ serving = NoClient

Send(c) ==
  /\ c \notin pending
  /\ c # serving
  /\ request' = [request EXCEPT ![c] = request'[c]]
  /\ request'[c].id > request[c].id
  /\ answer' = [answer EXCEPT ![c] = {}]
  /\ pending' = pending \cup {c}
  /\ UNCHANGED serving

Take(c) ==
  /\ c \in pending
  /\ serving = NoClient
  /\ serving' = c
  /\ pending' = pending \ {c}
  /\ UNCHANGED << request, answer >>

OwnReply(r, reply) ==
  \/ reply.code = r.code /\ reply.data \subseteq {r.id}
  \/ reply.code \in ErrorCodes /\ reply.data = {}

Serve(c) ==
  /\ serving = c
  /\ answer[c] = {}
  /\ \E reply \in answer'[c] : /\ answer' = [answer EXCEPT ![c] = {reply}]
                               /\ OwnReply(request[c], reply)
  /\ serving' = NoClient
  /\ UNCHANGED << request, pending >>

Drop ==
  /\ pending' = {}
  /\ serving' = NoClient
  /\ UNCHANGED << request, answer >>

Next == Drop \/ \E c \in Clients : Send(c) \/ Take(c) \/ Serve(c)

Spec == Init /\ [][Next]_vars

============================================================================
