----------------------------- MODULE NameChange ----------------------------
(***************************************************************************)
(* The name change transactions of bundy-d2 (src/bin/d2/nc_trans.cc,       *)
(* nc_add.cc, nc_remove.cc, state_model.cc, dns_client.cc), the update     *)
(* manager that starts them (d2_update_mgr.cc), and the DNS servers they   *)
(* send their requests to over UDP.                                        *)
(*                                                                         *)
(* bundy-d2 is one thread: runModel() calls state handlers, each an action *)
(* here, until the transaction waits for an answer or is done, and only    *)
(* then does another transaction or the update manager run.  The servers   *)
(* and the network go on meanwhile.  A request or its answer may be lost   *)
(* or come too late; a request whose answer is no longer waited for may    *)
(* still be executed later.  The servers of a domain have the zone in      *)
(* common.                                                                 *)
(***************************************************************************)
EXTENDS DnsUpdate, Sequences, FiniteSets

CONSTANTS
  StaticRecords,   \* the records each name has to begin with
  ForwardNames,    \* names with a DdnsDomain: matchForward() succeeds
  ReverseNames,    \* addresses for which matchReverse() succeeds
  Servers,         \* number of servers of each domain
  MaxTries,        \* MAX_UPDATE_TRIES_PER_SERVER
  MaxTransactions, \* max_transactions_
  Scripts,         \* the requests DHCP servers may make, and whether to bundy-ddns
  MaxLate          \* bound on the requests executed late

ASSUME StaticAssumption ==
  StaticRecords \in [Fqdns -> SUBSET ({"A", "AAAA"} \X Ips)]
ASSUME DomainsAssumption == ForwardNames \subseteq Fqdns /\ ReverseNames \subseteq Ips
ASSUME NumbersAssumption == /\ Servers \in Nat
                            /\ MaxTries \in Nat \ {0}
                            /\ MaxTransactions \in Nat \ {0}
                            /\ MaxLate \in Nat
ASSUME ClientsAssumption == Dhcids \cap {"nobody", "admin"} = {}
ASSUME ScriptsAssumption ==
  \A s \in Scripts : s.session \in BOOLEAN /\ s.requests \in Seq(NameChangeRequests)

VARIABLES
  db,      \* the records of each forward and reverse name
  queue,   \* ncr_queue_ of the queue manager
  trans,   \* transaction_list_, by DHCID
  fetch,   \* the request each transaction waits for the answer of
  late,    \* requests that may be executed after they were given up
  todo,    \* requests DHCP servers will make
  session, \* the DNS servers are bundy-ddns, not others
  overdue  \* number of late executions

vars == <<db, queue, trans, fetch, late, todo, session, overdue>>

States == {"READY_ST", "SELECTING_FWD_SERVER_ST", "SELECTING_REV_SERVER_ST",
           "ADDING_FWD_ADDRS_ST", "REPLACING_FWD_ADDRS_ST",
           "REPLACING_REV_PTRS_ST", "REMOVING_FWD_ADDRS_ST",
           "REMOVING_FWD_RRS_ST", "REMOVING_REV_PTRS_ST",
           "PROCESS_TRANS_OK_ST", "PROCESS_TRANS_FAILED_ST", "END_ST"}
(* The states that send a request and wait for its answer. *)
IoStates == {"ADDING_FWD_ADDRS_ST", "REPLACING_FWD_ADDRS_ST",
             "REPLACING_REV_PTRS_ST", "REMOVING_FWD_ADDRS_ST",
             "REMOVING_FWD_RRS_ST", "REMOVING_REV_PTRS_ST"}
Events == {"NOP_EVT", "START_EVT", "END_EVT", "FAIL_EVT",
           "SELECT_SERVER_EVT", "SERVER_SELECTED_EVT", "SERVER_IO_ERROR_EVT",
           "NO_MORE_SERVERS_EVT", "IO_COMPLETED_EVT", "UPDATE_OK_EVT",
           "UPDATE_FAILED_EVT", "FQDN_IN_USE_EVT"}
(* How an exchange ended: DNSClient::SUCCESS with the rcode of the answer, *)
(* or TIMEOUT, OTHER or INVALID_RESPONSE, which all handlers treat alike.  *)
(* (Nothing in bundy-d2 stops a fetch, so there is no IO_STOPPED.)         *)
Outcomes == Rcodes \cup {"IO_ERROR"}

NoTransaction == [curr_state |-> "NEW_ST"]
(* A transaction.  request is the message that dns_update_request_ holds,  *)
(* named by the state that built it; outcome is that of the exchange that  *)
(* just completed, which only the next handler reads; result is the status *)
(* of the request.                                                         *)
Transactions ==
  [ncr : NameChangeRequests, curr_state : States, next_event : Events,
   on_entry : BOOLEAN, update_attempts : 0..MaxTries,
   request : IoStates \cup {"none"}, next_server_pos : 0..Servers, outcome : Outcomes \cup {"none"},
   forward_change_completed : BOOLEAN, reverse_change_completed : BOOLEAN,
   result : {"ST_PENDING", "ST_COMPLETED", "ST_FAILED"}]

(* A request in the network: what it is, and for whom. *)
Messages == [request : IoStates, ncr : NameChangeRequests]
NoFetch == [phase |-> "none"]
Fetches == {NoFetch}
             \cup [phase : {"sent"}, message : Messages]
             \cup [phase : {"answered"}, message : Messages, rcode : Rcodes]

Contents(message) ==
  CASE message.request = "ADDING_FWD_ADDRS_ST" ->
         buildAddFwdAddressRequest(message.ncr)
    [] message.request = "REPLACING_FWD_ADDRS_ST" ->
         buildReplaceFwdAddressRequest(message.ncr)
    [] message.request = "REPLACING_REV_PTRS_ST" ->
         buildReplaceRevPtrsRequest(message.ncr)
    [] message.request = "REMOVING_FWD_ADDRS_ST" ->
         buildRemoveFwdAddressRequest(message.ncr)
    [] message.request = "REMOVING_FWD_RRS_ST" ->
         buildRemoveFwdRRsRequest(message.ncr)
    [] message.request = "REMOVING_REV_PTRS_ST" ->
         buildRemoveRevPtrsRequest(message.ncr)
-----------------------------------------------------------------------------
(* The state model: what the handlers do to the transaction t. *)

isModelDone(t) == t.curr_state = "END_ST"
isModelRunning(t) == t.curr_state \notin {"NEW_ST", "END_ST"}
isModelWaiting(t) == isModelRunning(t) /\ t.next_event = "NOP_EVT"

transition(t, state, event) ==
  [t EXCEPT !.curr_state = state, !.next_event = event,
            !.on_entry = state # "END_ST" /\ state # t.curr_state,
            !.outcome = "none"]

endModel(t) == transition(t, "END_ST", "END_EVT")

(* The handler throws: the event is wrong for the state. *)
abortModel(t) == [transition(t, "END_ST", "FAIL_EVT") EXCEPT !.result = "ST_FAILED"]

clearDnsUpdateRequest(t) == [t EXCEPT !.update_attempts = 0, !.request = "none"]

doOnEntry(t) ==
  IF t.on_entry THEN [clearDnsUpdateRequest(t) EXCEPT !.on_entry = FALSE] ELSE t

(* Fault: one try too many. *)
retryTransition_more(t, fail_to_state) ==
  IF t.update_attempts <= MaxTries
    THEN transition(t, t.curr_state, "SERVER_SELECTED_EVT")
    ELSE transition(t, fail_to_state, "SERVER_IO_ERROR_EVT")

retryTransition(t, fail_to_state) ==
  IF t.update_attempts < MaxTries
    THEN transition(t, t.curr_state, "SERVER_SELECTED_EVT")
    ELSE transition(t, fail_to_state, "SERVER_IO_ERROR_EVT")

(* The request is built unless there is one from an earlier attempt. *)
sendUpdate(t) ==
  [t EXCEPT !.update_attempts = @ + 1, !.next_event = "NOP_EVT",
            !.request = IF @ = "none" THEN t.curr_state ELSE @]

initServerSelection(t) == [t EXCEPT !.next_server_pos = 0]

ForwardDomain(t) == t.ncr.forward
ReverseDomain(t) == t.ncr.reverse

ReadyHandler(t) ==
  IF t.next_event # "START_EVT" THEN abortModel(t)
  ELSE IF ForwardDomain(t)
    THEN transition(t, "SELECTING_FWD_SERVER_ST", "SELECT_SERVER_EVT")
    ELSE transition(t, "SELECTING_REV_SERVER_ST", "SELECT_SERVER_EVT")

(* Fault: the selection begins again after an error. *)
SelectingServerHandler_again(t, next_state) ==
  LET u == initServerSelection(t)
  IN  IF u.next_server_pos < Servers
        THEN transition([u EXCEPT !.next_server_pos = @ + 1],
                        next_state, "SERVER_SELECTED_EVT")
        ELSE transition(u, "PROCESS_TRANS_FAILED_ST", "NO_MORE_SERVERS_EVT")

(* The two handlers that select a server, then go to the given state. *)
SelectingServerHandler(t, next_state) ==
  LET u == IF t.next_event = "SELECT_SERVER_EVT" THEN initServerSelection(t) ELSE t
  IN  IF t.next_event \notin {"SELECT_SERVER_EVT", "SERVER_IO_ERROR_EVT"}
        THEN abortModel(t)
      ELSE IF u.next_server_pos < Servers
        THEN transition([u EXCEPT !.next_server_pos = @ + 1],
                        next_state, "SERVER_SELECTED_EVT")
        ELSE transition(u, "PROCESS_TRANS_FAILED_ST", "NO_MORE_SERVERS_EVT")

(* The change of the forward name, or of the reverse name, has been made. *)
ForwardDone(t) ==
  LET u == [t EXCEPT !.forward_change_completed = TRUE]
  IN  IF ReverseDomain(t)
        THEN transition(u, "SELECTING_REV_SERVER_ST", "SELECT_SERVER_EVT")
        ELSE transition(u, "PROCESS_TRANS_OK_ST", "UPDATE_OK_EVT")
ReverseDone(t) ==
  transition([t EXCEPT !.reverse_change_completed = TRUE],
             "PROCESS_TRANS_OK_ST", "UPDATE_OK_EVT")
Rejected(t) == transition(t, "PROCESS_TRANS_FAILED_ST", "UPDATE_FAILED_EVT")

(* What the handlers that send a request have in common: they send it on   *)
(* some events, go on as the answer says, or try again.                    *)
IoHandler(t, send_events, answered, fail_to_state) ==
  IF t.next_event \in send_events THEN sendUpdate(t)
  ELSE IF t.next_event # "IO_COMPLETED_EVT" THEN abortModel(t)
  ELSE IF t.outcome # "IO_ERROR" THEN answered
  ELSE retryTransition(t, fail_to_state)

AddingFwdAddrsHandler(t) ==
  LET u == doOnEntry(t)
  IN  IoHandler(u, {"SERVER_SELECTED_EVT"},
        CASE u.outcome = "NOERROR" -> ForwardDone(u)
          [] u.outcome = "YXDOMAIN" ->
               transition(u, "REPLACING_FWD_ADDRS_ST", "FQDN_IN_USE_EVT")
          [] OTHER -> Rejected(u),
        "SELECTING_FWD_SERVER_ST")

ReplacingFwdAddrsHandler(t) ==
  LET u == doOnEntry(t)
  IN  IoHandler(u, {"FQDN_IN_USE_EVT", "SERVER_SELECTED_EVT"},
        CASE u.outcome = "NOERROR" -> ForwardDone(u)
          [] u.outcome = "NXDOMAIN" ->
               transition(u, "ADDING_FWD_ADDRS_ST", "SERVER_SELECTED_EVT")
          [] OTHER -> Rejected(u),
        "SELECTING_FWD_SERVER_ST")

ReplacingRevPtrsHandler(t) ==
  LET u == doOnEntry(t)
  IN  IoHandler(u, {"SERVER_SELECTED_EVT"},
        IF u.outcome = "NOERROR" THEN ReverseDone(u) ELSE Rejected(u),
        "SELECTING_REV_SERVER_ST")

RemovingFwdAddrsHandler(t) ==
  LET u == doOnEntry(t)
  IN  IoHandler(u, {"SERVER_SELECTED_EVT"},
        IF u.outcome \in {"NOERROR", "NXRRSET"}
          THEN transition(u, "REMOVING_FWD_RRS_ST", "UPDATE_OK_EVT")
          ELSE Rejected(u),
        "SELECTING_FWD_SERVER_ST")

RemovingFwdRRsHandler(t) ==
  LET u == doOnEntry(t)
  IN  IoHandler(u, {"UPDATE_OK_EVT", "SERVER_SELECTED_EVT"},
        IF u.outcome \in {"NOERROR", "NXRRSET"} THEN ForwardDone(u) ELSE Rejected(u),
        "PROCESS_TRANS_FAILED_ST")

RemovingRevPtrsHandler(t) ==
  LET u == doOnEntry(t)
  IN  IoHandler(u, {"SERVER_SELECTED_EVT"},
        IF u.outcome \in {"NOERROR", "NXRRSET"} THEN ReverseDone(u) ELSE Rejected(u),
        "SELECTING_REV_SERVER_ST")

ProcessOkHandler(t) ==
  IF t.next_event = "UPDATE_OK_EVT"
    THEN endModel([t EXCEPT !.result = "ST_COMPLETED"])
    ELSE abortModel(t)

(* Fault: the same events for a removal as for an addition. *)
ProcessFailedHandler_alike(t) ==
  IF t.next_event \in {"UPDATE_FAILED_EVT", "NO_MORE_SERVERS_EVT"}
    THEN endModel([t EXCEPT !.result = "ST_FAILED"])
    ELSE abortModel(t)

ProcessFailedHandler(t) ==
  IF t.next_event \in {"UPDATE_FAILED_EVT", "NO_MORE_SERVERS_EVT"}
                        \cup (IF t.ncr.change_type = "CHG_REMOVE"
                                THEN {"SERVER_IO_ERROR_EVT"} ELSE {})
    THEN endModel([t EXCEPT !.result = "ST_FAILED"])
    ELSE abortModel(t)

(* startTransaction() of a new transaction, up to the first handler. *)
NewTransaction(ncr) ==
  [ncr |-> ncr, curr_state |-> "READY_ST", next_event |-> "START_EVT",
   on_entry |-> TRUE, update_attempts |-> 0, request |-> "none",
   next_server_pos |-> 0, outcome |-> "none",
   forward_change_completed |-> FALSE, reverse_change_completed |-> FALSE,
   result |-> "ST_PENDING"]
-----------------------------------------------------------------------------
(* No transaction is in the middle of runModel(). *)
Idle == \A d \in Dhcids : isModelRunning(trans[d]) => isModelWaiting(trans[d])

(* A DHCP server's request reaches the queue. *)
Request ==
  /\ Idle
  /\ todo # << >>
  /\ todo' = Tail(todo)
  /\ queue' = Append(queue, Head(todo))
  /\ UNCHANGED <<db, trans, fetch, late, session, overdue>>

(* checkFinishedTransactions(). *)
Unfinished == [d \in Dhcids |-> IF isModelDone(trans[d]) THEN NoTransaction
                                                         ELSE trans[d]]

(* The changes of a request that domains are configured for; a request     *)
(* falls on the floor when there is none or when a domain is missing.      *)
EnabledChanges(ncr) ==
  [ncr EXCEPT !.forward = @ /\ ForwardNames # {}, !.reverse = @ /\ ReverseNames # {}]
Matched(ncr) == /\ ncr.forward => ncr.fqdn \in ForwardNames
                /\ ncr.reverse => ncr.ip \in ReverseNames
                /\ ncr.forward \/ ncr.reverse
makeTransaction(list, ncr) ==
  IF Matched(EnabledChanges(ncr))
    THEN [list EXCEPT ![ncr.dhcid] = NewTransaction(EnabledChanges(ncr))]
    ELSE list

(* Where pickNextJob() finds a job when list holds the transactions. *)
Eligible(list) == {i \in DOMAIN queue : list[queue[i].dhcid] = NoTransaction}
Busy(list) == {d \in Dhcids : list[d] # NoTransaction}

dequeueAt(q, i) == SubSeq(q, 1, i - 1) \o SubSeq(q, i + 1, Len(q))

(* sweep(): at most one new transaction. *)
Sweep ==
  /\ Idle
  /\ IF Cardinality(Busy(Unfinished)) < MaxTransactions /\ Eligible(Unfinished) # {}
       THEN \E i \in Eligible(Unfinished) :
              /\ \A j \in Eligible(Unfinished) : i <= j
              /\ trans' = makeTransaction(Unfinished, queue[i])
              /\ queue' = dequeueAt(queue, i)
       ELSE trans' = Unfinished /\ UNCHANGED queue
  /\ UNCHANGED <<db, fetch, late, todo, session, overdue>>

(* One turn of the loop of runModel() for the transaction of client d in   *)
(* the given state; the handler leaves it as t.                            *)
Handle(d, state, t) ==
  /\ trans[d].curr_state = state
  /\ ~isModelWaiting(trans[d])
  /\ trans' = [trans EXCEPT ![d] = t]
  /\ fetch' = IF isModelWaiting(t)
                THEN [fetch EXCEPT ![d] =
                        [phase |-> "sent",
                         message |-> [request |-> t.request, ncr |-> t.ncr]]]
                ELSE fetch
  /\ UNCHANGED <<db, queue, late, todo, session, overdue>>

Adding(d) == trans[d].ncr.change_type = "CHG_ADD"

RunModel(d) ==
  \/ Handle(d, "READY_ST", ReadyHandler(trans[d]))
  \/ Handle(d, "SELECTING_FWD_SERVER_ST",
            SelectingServerHandler(trans[d],
              IF Adding(d) THEN "ADDING_FWD_ADDRS_ST" ELSE "REMOVING_FWD_ADDRS_ST"))
  \/ Handle(d, "SELECTING_REV_SERVER_ST",
            SelectingServerHandler(trans[d],
              IF Adding(d) THEN "REPLACING_REV_PTRS_ST" ELSE "REMOVING_REV_PTRS_ST"))
  \/ Handle(d, "ADDING_FWD_ADDRS_ST", AddingFwdAddrsHandler(trans[d]))
  \/ Handle(d, "REPLACING_FWD_ADDRS_ST", ReplacingFwdAddrsHandler(trans[d]))
  \/ Handle(d, "REPLACING_REV_PTRS_ST", ReplacingRevPtrsHandler(trans[d]))
  \/ Handle(d, "REMOVING_FWD_ADDRS_ST", RemovingFwdAddrsHandler(trans[d]))
  \/ Handle(d, "REMOVING_FWD_RRS_ST", RemovingFwdRRsHandler(trans[d]))
  \/ Handle(d, "REMOVING_REV_PTRS_ST", RemovingRevPtrsHandler(trans[d]))
  \/ Handle(d, "PROCESS_TRANS_OK_ST", ProcessOkHandler(trans[d]))
  \/ Handle(d, "PROCESS_TRANS_FAILED_ST", ProcessFailedHandler(trans[d]))

(* The callback of the DNS client, which enters runModel(). *)
IoCompleted(d, outcome) ==
  /\ Idle
  /\ trans' = [trans EXCEPT ![d].outcome = outcome,
                            ![d].next_event = "IO_COMPLETED_EVT"]
  /\ fetch' = [fetch EXCEPT ![d] = NoFetch]

(* The answer arrives in time. *)
Receive(d) ==
  /\ fetch[d].phase = "answered"
  /\ IoCompleted(d, fetch[d].rcode)
  /\ UNCHANGED <<db, queue, late, todo, session, overdue>>

(* The fetch times out, fails, or has an answer that cannot be read.  A    *)
(* request that has not been executed is lost or on its way.               *)
GiveUp(d) ==
  /\ fetch[d].phase # "none"
  /\ IoCompleted(d, "IO_ERROR")
  /\ \/ UNCHANGED late
     \/ /\ fetch[d].phase = "sent" /\ Cardinality(late) + overdue < MaxLate
        /\ late' = late \cup {fetch[d].message}
  /\ UNCHANGED <<db, queue, todo, session, overdue>>

(* The server executes a request. *)
Execute(message) ==
  LET m == Contents(message)
  IN  db' = IF check_prerequisites(db[m.name], m) = "NOERROR"
              THEN [db EXCEPT ![m.name] = do_update(@, m, session)] ELSE db

Serve(d) ==
  /\ fetch[d].phase = "sent"
  /\ LET m == Contents(fetch[d].message)
     IN  fetch' = [fetch EXCEPT ![d] =
                     [phase |-> "answered", message |-> fetch[d].message,
                      rcode |-> check_prerequisites(db[m.name], m)]]
  /\ Execute(fetch[d].message)
  /\ UNCHANGED <<queue, trans, late, todo, session, overdue>>

(* The server does not accept updates from this host. *)
Refuse(d) ==
  /\ fetch[d].phase = "sent"
  /\ fetch' = [fetch EXCEPT ![d] = [phase |-> "answered",
                 message |-> fetch[d].message, rcode |-> "REFUSED"]]
  /\ UNCHANGED <<db, queue, trans, late, todo, session, overdue>>

ServeLate(message) ==
  /\ overdue' = overdue + 1
  /\ late' = late \ {message}
  /\ Execute(message)
  /\ UNCHANGED <<queue, trans, fetch, todo, session>>

Init == /\ db = [o \in Owners |-> IF o \in Fqdns THEN StaticRecords[o] ELSE {}]
        /\ queue = << >>
        /\ trans = [d \in Dhcids |-> NoTransaction]
        /\ fetch = [d \in Dhcids |-> NoFetch]
        /\ late = {}
        /\ \E s \in Scripts : todo = s.requests /\ session = s.session
        /\ overdue = 0

Next == \/ Request
        \/ Sweep
        \/ \E d \in Dhcids : RunModel(d) \/ Receive(d) \/ GiveUp(d) \/ Serve(d) \/ Refuse(d)
        \/ \E message \in late : ServeLate(message)

Spec == Init /\ [][Next]_vars

(* runModel() does not stop in the middle, a fetch always ends, and sweep()*)
(* runs after every event.                                                 *)
Fairness == /\ WF_vars(Sweep)
            /\ \A d \in Dhcids : WF_vars(RunModel(d)) /\ WF_vars(Receive(d) \/ GiveUp(d))
FairSpec == Spec /\ Fairness
-----------------------------------------------------------------------------
TypeOK ==
  /\ db \in [Owners -> SUBSET Records]
  /\ queue \in Seq(NameChangeRequests)
  /\ trans \in [Dhcids -> Transactions \cup {NoTransaction}]
  /\ fetch \in [Dhcids -> Fetches]
  /\ late \subseteq Messages
  /\ todo \in Seq(NameChangeRequests) /\ session \in BOOLEAN
  /\ overdue \in 0..MaxLate

(* The owner of a forward name is the client of its DHCID record; a name   *)
(* with records but no DHCID was set up by hand.                           *)
Owner(n) == IF RRset(db[n], "DHCID") # {}
              THEN (CHOOSE rr \in RRset(db[n], "DHCID") : TRUE)[2]
              ELSE IF db[n] = {} THEN "nobody" ELSE "admin"
AddressesOf(n) == {rr[2] : rr \in RRset(db[n], "A") \cup RRset(db[n], "AAAA")}

(* Transactions implement the registry of names: whatever requests run at  *)
(* the same time, are repeated, or are executed late, a name changes hands *)
(* only through being free, and changes only for its owner.                *)
Registry == INSTANCE NameRegistry
  WITH Clients <- Dhcids, Names <- Fqdns, Addresses <- Ips,
       Nobody <- "nobody", Admin <- "admin",
       owner <- [n \in Fqdns |-> Owner(n)],
       addresses <- [n \in Fqdns |-> AddressesOf(n)]
RegistrySpec == Registry!Spec

(* runModel() never aborts a transaction: no handler is called with an     *)
(* event it does not expect, whatever the servers answer.                  *)
NeverAborts == \A d \in Dhcids :
  isModelDone(trans[d]) => trans[d].next_event # "FAIL_EVT"

(* The name has just this record of its type.  A bundy-ddns drops what an  *)
(* addition only repeats.                                                  *)
StandsAlone(n, rr) == \/ RRset(db[n], rr[1]) = {rr}
                      \/ session /\ RRset(db[n], rr[1]) = {}

(* The name is the client's and stands for the address, or no longer does. *)
ForwardStands(ncr) ==
  IF ncr.change_type = "CHG_ADD"
    THEN DhcidRecord(ncr) \in db[ncr.fqdn] /\ StandsAlone(ncr.fqdn, LeaseAddress(ncr))
    ELSE DhcidRecord(ncr) \notin db[ncr.fqdn] \/ LeaseAddress(ncr) \notin db[ncr.fqdn]

(* The address stands for the name, or no longer does. *)
ReverseStands(ncr) ==
  IF ncr.change_type = "CHG_ADD"
    THEN StandsAlone(ncr.ip, PtrRecord(ncr))
    ELSE PtrRecord(ncr) \notin db[ncr.ip]

(* All the requests for the reverse name of an address are one client's.   *)
(* The transactions of two clients are not ordered: they may end in either *)
(* order, whichever was asked for first.                                   *)
OfOneClient(ip) ==
  \A s \in Scripts : \A i, j \in DOMAIN s.requests :
    LET p == s.requests[i]
        q == s.requests[j]
    IN  p.reverse /\ q.reverse /\ p.ip = ip /\ q.ip = ip => p.dhcid = q.dhcid

(* A transaction that is ST_COMPLETED has done what the request asks for,  *)
(* whatever other transactions did meanwhile.  (Not when an old request    *)
(* was executed late, nor to the address of two clients.)                  *)
CompletedMeansDone == \A d \in Dhcids :
  LET t == trans[d]
  IN  isModelDone(t) /\ t.result = "ST_COMPLETED" /\ overdue = 0 =>
        /\ t.ncr.forward => ForwardStands(t.ncr)
        /\ t.ncr.reverse /\ OfOneClient(t.ncr.ip) => ReverseStands(t.ncr)

(* Every request is picked up and its transaction ends, however many       *)
(* servers do not answer.                                                  *)
EventuallyAllDone ==
  <>[](queue = << >> /\ \A d \in Dhcids : trans[d] = NoTransaction)
=============================================================================
