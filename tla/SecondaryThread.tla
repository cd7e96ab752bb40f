-------------------------- MODULE SecondaryThread --------------------------
(***************************************************************************)
(* The secondary threads (UdpThread, ClusterThread, HistogramThread) as    *)
(* the communication thread sees them: objects it creates, starts in the   *)
(* global thread pool, sends commands over a local REQ/REP pair, cancels  *)
(* and never joins; the pool deletes each one when its run() ends.         *)
(***************************************************************************)
EXTENDS Integers, Sequences, FiniteSets, ServerCodes

CONSTANT MaxThreadCount  \* the size of the global QThreadPool

ASSUME MaxThreadCountAssumption == MaxThreadCount \in Nat \ {0}

VARIABLES
  threads,        \* every secondary thread ever created, in order
  mThread,        \* mUdpThread, mClusterThread, mHistogramThread (0: nullptr)
  mCommandSocket  \* mUdpCommandSocket, ...: the thread it is connected to

threadVars == << threads, mThread, mCommandSocket >>

Null == 0    \* a unique_ptr that holds no socket
Closed == -1 \* a socket without a handle

\* A forwarded request, and a reply to it, wait in sequences of length one.
Forwarded == [id : Nat, code : RequestCodes, shape : Shapes]
Response == [code : RequestCodes \cup ErrorCodes, data : SUBSET Nat]

\* failed is history: the thread has ended its loop itself.
Thread == [ kind : ThreadKinds,
            state : { "queued", "running", "deleted" },
            mShouldCancel : BOOLEAN,
            failed : BOOLEAN,
            req : Seq(Forwarded),
            rsp : Seq(Response) ]

ThreadTypeOK ==
  /\ threads \in Seq(Thread)
  /\ mThread \in [ThreadKinds -> Nat]
  /\ mCommandSocket \in [ThreadKinds -> Int]

ThreadInit ==
  /\ threads = << >>
  /\ mThread = [k \in ThreadKinds |-> 0]
  /\ mCommandSocket = [k \in ThreadKinds |-> Null]

NewThread(k) ==
  [ kind |-> k, state |-> "queued", mShouldCancel |-> FALSE,
    failed |-> FALSE, req |-> << >>, rsp |-> << >> ]

InState(s) == { t \in DOMAIN threads : threads[t].state = s }

\* BgThread::cancel() on the objects in ts.  The pointer to a deleted object
\* reaches nothing that lives.
cancelled(ts) ==
  [ t \in DOMAIN threads |->
      IF t \in ts /\ threads[t].state # "deleted"
        THEN [threads[t] EXCEPT !.mShouldCancel = TRUE]
        ELSE threads[t] ]

Dangling(ts) == \E t \in ts \cap DOMAIN threads : threads[t].state = "deleted"

\* startClusterThread and startHistogramThread, one after the other.
startClusterAndHistogramThreads ==
  /\ threads' = threads \o << NewThread("cluster"), NewThread("histogram") >>
  /\ mThread' = [mThread EXCEPT !["cluster"] = Len(threads) + 1,
                                !["histogram"] = Len(threads) + 2]
  /\ mCommandSocket' = [mCommandSocket EXCEPT
                          !["cluster"] = Len(threads) + 1,
                          !["histogram"] = Len(threads) + 2]

\* Mutant of bindUdpPort: the old thread is not told to stop.
bindUdpPortKeepsOld ==
  /\ threads' = Append(threads, NewThread("udp"))
  /\ mThread' = [mThread EXCEPT !["udp"] = Len(threads) + 1]
  /\ mCommandSocket' = [mCommandSocket EXCEPT !["udp"] = Len(threads) + 1]

\* Mutant of bindUdpPort: the pointer to the old thread is kept.
bindUdpPortKeepsPointer ==
  /\ threads' = Append(cancelled({mThread["udp"]}), NewThread("udp"))
  /\ mThread' = [mThread EXCEPT !["udp"] =
                   IF @ = 0 THEN Len(threads) + 1 ELSE @]
  /\ mCommandSocket' = [mCommandSocket EXCEPT !["udp"] = Len(threads) + 1]

\* The thread of the last SET_UDP_PORT is told to stop and a new one takes
\* its place; the command socket is replaced with it.
bindUdpPort ==
  /\ threads' = Append(cancelled({mThread["udp"]}), NewThread("udp"))
  /\ mThread' = [mThread EXCEPT !["udp"] = Len(threads) + 1]
  /\ mCommandSocket' = [mCommandSocket EXCEPT !["udp"] = Len(threads) + 1]

\* Mutant of cancelThreads: the command sockets are left open.
cancelThreadsLeavesSockets ==
  /\ threads' = cancelled({ mThread[k] : k \in ThreadKinds })
  /\ mThread' = [k \in ThreadKinds |-> 0]
  /\ UNCHANGED mCommandSocket

\* The end of CommsThread::execute().
cancelThreads ==
  /\ threads' = cancelled({ mThread[k] : k \in ThreadKinds })
  /\ mThread' = [k \in ThreadKinds |-> 0]
  /\ mCommandSocket' = [k \in ThreadKinds |->
                          IF mCommandSocket[k] = Null THEN Null ELSE Closed]

\* REQ side: send to and receive from the thread behind the socket of k.
forwardRequest(k, r) ==
  /\ threads' = [threads EXCEPT ![mCommandSocket[k]].req = << r >>]
  /\ UNCHANGED << mThread, mCommandSocket >>

receiveResponse(k) ==
  /\ threads' = [threads EXCEPT ![mCommandSocket[k]].rsp = << >>]
  /\ UNCHANGED << mThread, mCommandSocket >>

(***************************************************************************)
(* The pool and the threads themselves.                                    *)
(***************************************************************************)

\* The pool runs queued objects in order, while it has a thread to spare; one
\* is taken by the communication thread until that is deleted.
startThread(t) ==
  /\ t \in InState("queued")
  /\ \A u \in InState("queued") : t =< u
  /\ Cardinality(InState("running")) + 1 < MaxThreadCount
  /\ threads' = [threads EXCEPT ![t].state = "running"]
  /\ UNCHANGED << mThread, mCommandSocket >>

SizeChecked ==
  { "GET_RAW_DATA_SERVER_PATH", "RESET_TOA_ROLLOVER_COUNTER",
    "GET_CLUSTER_SERVER_PATH", "FLUSH_CLUSTERS",
    "GET_HISTOGRAM_SERVER_PATH", "SET_HISTOGRAM_OUTPUT_PERIOD" }
FilePaths == { "SET_RAW_TPX3_PATH", "SET_CLUSTER_PATH" }

\* Mutant of HandlerErrors: a code that is no error of a handler.
HandlerErrorsWrongCode(r) ==
  IF r.code \in FilePaths THEN { "SERVER_RESET" } ELSE {}

\* The errors the handler of a forwarded request may answer with.  The managers
\* swallow a failed connect(), so the handlers of SET_CLUSTER_INPUT_SERVER and
\* SET_HISTOGRAM_INPUT_SERVER never reach their catch blocks.
HandlerErrors(r) ==
  CASE r.code \in SizeChecked /\ r.shape # "ok" -> { "INVALID_COMMAND_DATA" }
    [] r.code \in FilePaths -> { "CANT_OPEN_FILE" }
    [] OTHER -> {}

HandlerSuccess(r) ==
  IF r.code \in SizeChecked /\ r.shape # "ok" THEN {}
  ELSE { [code |-> r.code,
          data |-> IF r.code = "FLUSH_CLUSTERS" THEN {} ELSE {r.id}] }

Responses(r) ==
  HandlerSuccess(r) \cup { [code |-> e, data |-> {}] : e \in HandlerErrors(r) }

\* pollCommands and the handler it calls.  A thread that has been cancelled
\* may still be inside its loop body.
pollCommands(t) ==
  /\ t \in InState("running")
  /\ threads[t].req # << >>
  /\ Head(threads[t].req).shape # "empty"
  /\ \E rsp \in Responses(Head(threads[t].req)) :
       threads' = [threads EXCEPT ![t].req = << >>, ![t].rsp = << rsp >>]
  /\ UNCHANGED << mThread, mCommandSocket >>

\* setClusterParameters reads three words whatever the size of the data.
ReadsPastData(r) == r.code = "SET_CLUSTER_PARAMETERS" /\ r.shape = "badsize"

HasEmptyCommand(t) ==
  /\ t \in InState("running")
  /\ threads[t].req # << >>
  /\ Head(threads[t].req).shape = "empty"

\* The word count of an empty message wraps.  When reserve() cannot have that
\* many words it throws, and execute() ends its loop: the request is gone and
\* will not be answered.  (When it can, see PollPastCommand.)
pollEmptyCommand(t) ==
  /\ HasEmptyCommand(t)
  /\ threads' = [threads EXCEPT ![t].req = << >>, ![t].mShouldCancel = TRUE,
                                ![t].failed = TRUE]
  /\ UNCHANGED << mThread, mCommandSocket >>

\* The thread cancels itself: its UDP port cannot be bound, or an exception
\* reaches the loop of execute().
failThread(t) ==
  /\ t \in InState("running")
  /\ ~ threads[t].mShouldCancel
  /\ threads' = [threads EXCEPT ![t].mShouldCancel = TRUE, ![t].failed = TRUE]
  /\ UNCHANGED << mThread, mCommandSocket >>

\* run() returns and the pool deletes the object, which closes its sockets.
exitThread(t) ==
  /\ t \in InState("running")
  /\ threads[t].mShouldCancel
  /\ threads' = [threads EXCEPT ![t].state = "deleted"]
  /\ UNCHANGED << mThread, mCommandSocket >>

============================================================================
