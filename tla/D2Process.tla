----------------------------- MODULE D2Process -----------------------------
(***************************************************************************)
(* The main loop of bundy-d2 (src/bin/d2/d2_process.cc), its queue manager *)
(* (d2_queue_mgr.cc) with the UDP listener for name change requests        *)
(* (src/lib/dhcp_ddns/ncr_io.cc, ncr_udp.cc), and the update manager       *)
(* (d2_update_mgr.cc).                                                     *)
(*                                                                         *)
(* One thread runs the completion handlers of asynchronous operations.     *)
(* The reactor may find several operations complete at once: poll() then   *)
(* runs all the handlers, but run_one() runs one and leaves the others for *)
(* the next round, after the loop has looked at its state again.           *)
(*                                                                         *)
(* A transaction (module NameChange) is here one operation that completes. *)
(* Requests are numbered in the order they are sent.  Those of a client in *)
(* Unmatched have no domain, and fall on the floor.                        *)
(***************************************************************************)
EXTENDS Naturals, Sequences, FiniteSets, SequencesExt

CONSTANTS
  Dhcids,          \* the clients
  Unmatched,       \* the clients without a DdnsDomain
  MaxQueueSize,    \* max_queue_size_
  MaxTransactions, \* max_transactions_
  MaxRequests,     \* bound on the requests sent
  MaxFaults,       \* bound on failed receives, invalid requests and failed opens
  Commands         \* the sequences of commands that may come

ASSUME UnmatchedAssumption == Unmatched \subseteq Dhcids
ASSUME NumbersAssumption == /\ MaxQueueSize \in Nat \ {0}
                            /\ MaxTransactions \in Nat \ {0}
                            /\ MaxRequests \in Nat
                            /\ MaxFaults \in Nat

CommandKinds == {"configure", "bad_configure", "normal", "drain_first", "now", "bad_shutdown"}
ASSUME CommandsAssumption == Commands \subseteq Seq(CommandKinds)

VARIABLES
  pc,        \* where the loop is
  ran,       \* poll() has run a handler
  mgr,       \* the queue manager and its listener
  queue,     \* ncr_queue_
  trans,     \* transaction_list_, and which of them have an operation complete
  command,   \* the command whose handler is ready to run
  reconf,    \* reconf_queue_flag_
  shut_down, \* shut_down_flag_
  shutdown_type,
  todo,      \* commands to come
  sent,      \* number of requests sent
  faults,    \* number of faults
  started    \* the last request of each client a transaction was made for

vars == <<pc, ran, mgr, queue, trans, command, reconf, shut_down, shutdown_type,
          todo, sent, faults, started>>

Requests == [id : 1..MaxRequests, dhcid : Dhcids]
NoRequest == [id |-> 0]
MgrStates == {"NOT_INITTED", "INITTED", "RUNNING", "STOPPING",
              "STOPPED_QUEUE_FULL", "STOPPED_RECV_ERROR", "STOPPED"}
(* The receive of the listener: outstanding, or complete with its handler  *)
(* ready to run.  dangling is history: a listener was removed before the   *)
(* handler of its receive had run.                                         *)
Completed == {"SUCCESS", "INVALID", "ERROR", "STOPPED"}
Mgrs == [mgr_state : MgrStates, target_stop_state : MgrStates,
         listener : BOOLEAN, dangling : BOOLEAN, listening : BOOLEAN, io_pending : BOOLEAN,
         receive : {"none", "pending"} \cup Completed,
         ncr : Requests \cup {NoRequest}]

TypeOK ==
  /\ pc \in {"loop", "poll", "run_one", "exit", "undefined"}
  /\ ran \in BOOLEAN
  /\ mgr \in Mgrs
  /\ queue \in Seq(Requests) /\ Len(queue) <= MaxQueueSize
  /\ trans \in [Dhcids -> {"none", "active", "answered", "done"}]
  /\ command \in CommandKinds \cup {"none"}
  /\ reconf \in BOOLEAN /\ shut_down \in BOOLEAN
  /\ shutdown_type \in {"normal", "drain_first", "now"}
  /\ todo \in Seq(CommandKinds)
  /\ sent \in 0..MaxRequests
  /\ faults \in 0..MaxFaults
  /\ started \in [Dhcids -> 0..MaxRequests]
-----------------------------------------------------------------------------
(* The listener and the queue manager: what their methods make of m. *)

receiveNext(m) == [m EXCEPT !.io_pending = TRUE, !.receive = "pending"]

(* NameChangeListener::stopListening(): closing the socket cancels a       *)
(* receive that is outstanding; one that is complete stays so.             *)
closeListener(m) ==
  [m EXCEPT !.listening = FALSE,
            !.receive = IF @ = "pending" THEN "STOPPED" ELSE @]

(* startListening() when the socket can be opened, for the states in which *)
(* the loop calls it.                                                      *)
startListening(m) == [receiveNext(m) EXCEPT !.listening = TRUE, !.mgr_state = "RUNNING"]

updateStopState(m) == [m EXCEPT !.mgr_state = m.target_stop_state]

stopListening(m, target) ==
  IF ~m.listener THEN m
  ELSE LET c == closeListener([m EXCEPT !.target_stop_state = target])
       IN  IF c.io_pending THEN [c EXCEPT !.mgr_state = "STOPPING"]
                           ELSE updateStopState(c)

removeListener(m) ==
  [m EXCEPT !.listener = FALSE, !.listening = FALSE, !.io_pending = FALSE,
            !.mgr_state = "NOT_INITTED",
            !.dangling = @ \/ m.receive # "none", !.receive = "none", !.ncr = NoRequest]
initUDPListener(m) == [m EXCEPT !.listener = TRUE, !.mgr_state = "INITTED"]

(* operator()(): what the queue manager does with the result of a receive. *)
recvHandler(m, result) ==
  CASE result = "SUCCESS" ->
         IF Len(queue) < MaxQueueSize THEN m ELSE stopListening(m, "STOPPED_QUEUE_FULL")
    [] result = "STOPPED" ->
         IF m.mgr_state = "STOPPING" THEN updateStopState(m)
                                     ELSE stopListening(m, "STOPPED_RECV_ERROR")
    [] OTHER -> stopListening(m, "STOPPED_RECV_ERROR")

(* Fault: no further receive after the handler. *)
invokeRecvHandler_once(m, result) ==
  recvHandler([m EXCEPT !.io_pending = FALSE, !.receive = "none", !.ncr = NoRequest], result)

(* invokeRecvHandler(). *)
invokeRecvHandler(m, result) ==
  LET h == recvHandler([m EXCEPT !.io_pending = FALSE, !.receive = "none",
                                 !.ncr = NoRequest], result)
  IN  IF h.listening THEN receiveNext(h) ELSE h
-----------------------------------------------------------------------------
(* The loop. *)

Threshold == (MaxQueueSize * 80) \div 100
Transactions == {d \in Dhcids : trans[d] # "none"}

canShutdown ==
  /\ shut_down
  /\ \/ shutdown_type = "now"
     \/ /\ mgr.mgr_state \notin {"RUNNING", "STOPPING"}
        /\ Transactions = {}
        /\ shutdown_type = "drain_first" => queue = << >>

(* A start that may fail because the socket cannot be opened. *)
TryStart(m) ==
  \/ mgr' = startListening(m) /\ UNCHANGED faults
  \/ /\ faults < MaxFaults
     /\ faults' = faults + 1
     /\ mgr' = closeListener(m)

reconfigureQueueMgr ==
  /\ reconf' = FALSE
  /\ TryStart(initUDPListener(removeListener(mgr)))

(* Fault: does not wait for the stop to be confirmed. *)
checkQueueStatus_hasty ==
  IF reconf
    THEN /\ reconf' = FALSE
         /\ TryStart(initUDPListener(removeListener(stopListening(mgr, "STOPPED"))))
    ELSE UNCHANGED <<mgr, reconf, faults>>

checkQueueStatus ==
  CASE mgr.mgr_state = "RUNNING" ->
         /\ mgr' = IF reconf \/ shut_down THEN stopListening(mgr, "STOPPED") ELSE mgr
         /\ UNCHANGED <<reconf, faults>>
    [] mgr.mgr_state = "STOPPED_QUEUE_FULL" ->
         /\ IF Len(queue) <= Threshold THEN TryStart(mgr) ELSE UNCHANGED <<mgr, faults>>
         /\ UNCHANGED reconf
    [] mgr.mgr_state = "STOPPED_RECV_ERROR" ->
         IF shut_down THEN UNCHANGED <<mgr, reconf, faults>> ELSE reconfigureQueueMgr
    [] mgr.mgr_state = "STOPPING" -> UNCHANGED <<mgr, reconf, faults>>
    [] OTHER -> IF reconf THEN reconfigureQueueMgr ELSE UNCHANGED <<mgr, reconf, faults>>

(* Fault: finished transactions stay in the list. *)
Unfinished_all == trans

(* checkFinishedTransactions() and pickNextJob(): the first request whose  *)
(* client has no transaction.                                              *)
Unfinished == [d \in Dhcids |-> IF trans[d] = "done" THEN "none" ELSE trans[d]]
Busy == {d \in Dhcids : Unfinished[d] # "none"}
Eligible == {i \in DOMAIN queue : queue[i].dhcid \notin Busy}

(* Fault: takes the last request it can. *)
sweep_last ==
  IF Cardinality(Busy) < MaxTransactions /\ Eligible # {}
    THEN \E i \in Eligible :
           /\ \A j \in Eligible : i >= j
           /\ queue' = RemoveAt(queue, i)
           /\ trans' = IF queue[i].dhcid \in Unmatched THEN Unfinished
                         ELSE [Unfinished EXCEPT ![queue[i].dhcid] = "active"]
           /\ started' = [started EXCEPT ![queue[i].dhcid] = queue[i].id]
    ELSE trans' = Unfinished /\ UNCHANGED <<queue, started>>

sweep ==
  IF Cardinality(Busy) < MaxTransactions /\ Eligible # {}
    THEN \E i \in Eligible :
           /\ \A j \in Eligible : i <= j
           /\ queue' = RemoveAt(queue, i)
           /\ trans' = IF queue[i].dhcid \in Unmatched THEN Unfinished
                         ELSE [Unfinished EXCEPT ![queue[i].dhcid] = "active"]
           /\ started' = [started EXCEPT ![queue[i].dhcid] = queue[i].id]
    ELSE trans' = Unfinished /\ UNCHANGED <<queue, started>>

(* One turn of the loop of run(), up to runIO(). *)
Loop ==
  /\ pc = "loop"
  /\ IF canShutdown
       THEN /\ pc' = "exit"
            /\ UNCHANGED <<ran, mgr, queue, trans, reconf, faults, started>>
       ELSE /\ checkQueueStatus
            /\ sweep
            /\ pc' = "poll" /\ ran' = FALSE
  /\ UNCHANGED <<command, shut_down, shutdown_type, todo, sent>>

HandlerReady == \/ mgr.receive \in Completed
                \/ command # "none"
                \/ \E d \in Dhcids : trans[d] = "answered"

(* The reactor finds operations complete: in poll() when there is no       *)
(* handler to run, and in run_one(), which waits for them.                 *)
ReceiveCompletes ==
  /\ mgr.receive = "pending"
  /\ \/ /\ sent < MaxRequests
        /\ sent' = sent + 1
        /\ \E d \in Dhcids : mgr' = [mgr EXCEPT !.receive = "SUCCESS",
                                                !.ncr = [id |-> sent', dhcid |-> d]]
        /\ UNCHANGED faults
     \/ /\ faults < MaxFaults
        /\ faults' = faults + 1
        /\ \E result \in {"INVALID", "ERROR"} : mgr' = [mgr EXCEPT !.receive = result]
        /\ UNCHANGED sent
CommandCompletes ==
  /\ todo # << >>
  /\ command' = Head(todo) /\ todo' = Tail(todo)
AnswersComplete(clients) ==
  /\ \A d \in clients : trans[d] = "active"
  /\ trans' = [d \in Dhcids |-> IF d \in clients THEN "answered" ELSE trans[d]]

React ==
  /\ pc \in {"poll", "run_one"}
  /\ ~HandlerReady
  /\ \/ ReceiveCompletes
     \/ UNCHANGED <<mgr, sent, faults>>
  /\ \/ CommandCompletes
     \/ UNCHANGED <<command, todo>>
  /\ \E clients \in SUBSET Dhcids : AnswersComplete(clients)
  /\ HandlerReady'
  /\ UNCHANGED <<pc, ran, queue, reconf, shut_down, shutdown_type, started>>

(* poll() has run all that was ready. *)
PollEnds ==
  /\ pc = "poll" /\ ~HandlerReady
  /\ pc' = IF ran THEN "loop" ELSE "run_one"
  /\ UNCHANGED <<ran, mgr, queue, trans, command, reconf, shut_down, shutdown_type,
                 todo, sent, faults, started>>

(* After a handler: poll() goes on, run_one() returns. *)
HandlerRuns ==
  /\ pc \in {"poll", "run_one"}
  /\ IF pc = "poll" THEN pc' = "poll" /\ ran' = TRUE ELSE pc' = "loop" /\ UNCHANGED ran

(* Fault: a full queue takes one more. *)
ReceiveCompletionHandler_over ==
  /\ mgr.receive \in Completed
  /\ HandlerRuns
  /\ mgr.receive # "INVALID" \/ mgr.listening
  /\ mgr' = IF mgr.receive = "INVALID" THEN receiveNext(mgr)
                                       ELSE invokeRecvHandler(mgr, mgr.receive)
  /\ queue' = IF mgr.receive = "SUCCESS" THEN Append(queue, mgr.ncr) ELSE queue
  /\ UNCHANGED <<trans, command, reconf, shut_down, shutdown_type, todo, sent, faults, started>>

(* receiveCompletionHandler(). *)
ReceiveCompletionHandler ==
  /\ mgr.receive \in Completed
  /\ HandlerRuns
  /\ mgr.receive # "INVALID" \/ mgr.listening
  /\ mgr' = IF mgr.receive = "INVALID" THEN receiveNext(mgr)
                                       ELSE invokeRecvHandler(mgr, mgr.receive)
  /\ queue' = IF mgr.receive = "SUCCESS" /\ Len(queue) < MaxQueueSize
                THEN Append(queue, mgr.ncr) ELSE queue
  /\ UNCHANGED <<trans, command, reconf, shut_down, shutdown_type, todo, sent, faults, started>>

(* An invalid request makes the handler call receiveNext() whether or not  *)
(* the listener is still listening; without a socket that is undefined.    *)
ReceiveWithoutSocket ==
  /\ mgr.receive = "INVALID" /\ ~mgr.listening
  /\ pc \in {"poll", "run_one"}
  /\ pc' = "undefined"
  /\ UNCHANGED <<ran, mgr, queue, trans, command, reconf, shut_down, shutdown_type,
                 todo, sent, faults, started>>

configure(valid) ==
  /\ reconf' = valid
  /\ UNCHANGED <<shut_down, shutdown_type>>
shutdown(type) ==
  /\ shutdown_type' = IF type = "bad_shutdown" THEN "normal" ELSE type
  /\ shut_down' = (type # "bad_shutdown")
  /\ UNCHANGED reconf
CommandHandler ==
  /\ command # "none"
  /\ HandlerRuns
  /\ IF command \in {"configure", "bad_configure"} THEN configure(command = "configure")
                                                   ELSE shutdown(command)
  /\ command' = "none"
  /\ UNCHANGED <<mgr, queue, trans, todo, sent, faults, started>>

TransactionHandler(d) ==
  /\ trans[d] = "answered"
  /\ HandlerRuns
  /\ trans' = [trans EXCEPT ![d] = "done"]
  /\ UNCHANGED <<mgr, queue, command, reconf, shut_down, shutdown_type, todo, sent,
                 faults, started>>

Init == /\ pc = "loop" /\ ran = FALSE
        /\ mgr = [mgr_state |-> "NOT_INITTED", target_stop_state |-> "NOT_INITTED",
                  listener |-> FALSE, dangling |-> FALSE, listening |-> FALSE, io_pending |-> FALSE,
                  receive |-> "none", ncr |-> NoRequest]
        /\ queue = << >>
        /\ trans = [d \in Dhcids |-> "none"]
        /\ command = "none"
        /\ reconf = FALSE /\ shut_down = FALSE /\ shutdown_type = "normal"
        /\ todo \in Commands
        /\ sent = 0 /\ faults = 0
        /\ started = [d \in Dhcids |-> 0]

Handler == \/ ReceiveCompletionHandler
           \/ ReceiveWithoutSocket
           \/ CommandHandler
           \/ \E d \in Dhcids : TransactionHandler(d)

Next == Loop \/ React \/ PollEnds \/ Handler

Spec == Init /\ [][Next]_vars

(* The thread does not stop, and every transaction gets its answer. *)
TransactionAnswered(d) == React /\ trans'[d] = "answered"
Fairness == /\ WF_vars(Loop) /\ WF_vars(PollEnds) /\ WF_vars(Handler)
            /\ \A d \in Dhcids : SF_vars(TransactionAnswered(d))
FairSpec == Spec /\ Fairness
-----------------------------------------------------------------------------
(* The manager hears requests while it says so: exactly when RUNNING it is *)
(* listening with one receive outstanding or complete, whatever sequence   *)
(* of errors, full queues, invalid requests and commands there was.        *)
RunningMeansReceiving ==
  /\ mgr.mgr_state = "RUNNING" <=> mgr.listening
  /\ mgr.listening => mgr.listener /\ mgr.io_pending /\ mgr.receive # "none"

(* removeListener() never leaves behind a handler that would be called on  *)
(* the listener that is gone: a reconfiguration waits for the stop.        *)
NoDanglingHandler == ~mgr.dangling

(* The requests of a client are carried out in the order they were         *)
(* received, although pickNextJob() passes over those of busy clients.     *)
FifoPerClient == \A i \in DOMAIN queue :
  /\ queue[i].id > started[queue[i].dhcid]
  /\ \A j \in DOMAIN queue : i < j => queue[i].id < queue[j].id

(* The loop waits for an event with requests in the queue and nothing      *)
(* under way.  sweep() takes one request, and when that one falls on the   *)
(* floor nothing will make the loop take the next.                         *)
Stalled == pc = "run_one" /\ queue # << >> /\ Transactions = {}

(* Every request in the queue is eventually picked up, unless the process  *)
(* ends or has stalled.                                                    *)
EventuallyPickedUp ==
  []<>(queue = << >> \/ Stalled \/ pc \in {"exit", "undefined"})

(* A shutdown of type drain_first goes on with the requests in the queue   *)
(* until it is empty.                                                      *)
DrainEmptiesQueue ==
  (shut_down /\ shutdown_type = "drain_first")
    ~> (queue = << >> \/ ~shut_down \/ pc \in {"exit", "undefined"})
=============================================================================
