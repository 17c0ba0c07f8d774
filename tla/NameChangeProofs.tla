-------------------------- MODULE NameChangeProofs --------------------------
(***************************************************************************)
(* Name change transactions for any clients, names, addresses, servers and *)
(* requests: they are well formed and never aborted, and what they do to   *)
(* the forward names is what NameRegistry allows, although requests are    *)
(* repeated, executed late and answered by servers of either kind.         *)
(***************************************************************************)
EXTENDS NameChange, FiniteSetTheorems, TLAPS

(* A leaf that names no prover is one for SMT. *)
USE SMTT(30)

USE NumbersAssumption

(* The events on which the handler of state s sends its request *)
Sends(s) ==
  {"SERVER_SELECTED_EVT"}
    \cup (IF s = "REPLACING_FWD_ADDRS_ST" THEN {"FQDN_IN_USE_EVT"} ELSE {})
    \cup (IF s = "REMOVING_FWD_RRS_ST" THEN {"UPDATE_OK_EVT"} ELSE {})

(* The handler of state s accepts event e, in a transaction for a change   *)
(* of the given type.                                                      *)
Accepts(s, e, change) ==
  /\ s = "READY_ST" => e = "START_EVT"
  /\ s \in {"SELECTING_FWD_SERVER_ST", "SELECTING_REV_SERVER_ST"} =>
       e \in {"SELECT_SERVER_EVT", "SERVER_IO_ERROR_EVT"}
  /\ s \in IoStates => e \in Sends(s) \cup {"NOP_EVT", "IO_COMPLETED_EVT"}
  /\ s \in {"REMOVING_FWD_ADDRS_ST", "REMOVING_FWD_RRS_ST"} => change = "CHG_REMOVE"
  /\ s = "PROCESS_TRANS_OK_ST" => e = "UPDATE_OK_EVT"
  /\ s = "PROCESS_TRANS_FAILED_ST" =>
       \/ e \in {"UPDATE_FAILED_EVT", "NO_MORE_SERVERS_EVT"}
       \/ change = "CHG_REMOVE" /\ e = "SERVER_IO_ERROR_EVT"
  /\ s = "END_ST" => e = "END_EVT"

(* A transaction about to send has a try left, or will begin to count when *)
(* it enters the state.                                                    *)
TransInv(t) ==
  /\ t \in Transactions
  /\ Accepts(t.curr_state, t.next_event, t.ncr.change_type)
  /\ t.curr_state \in IoStates /\ t.next_event \in Sends(t.curr_state) =>
       t.on_entry \/ t.update_attempts < MaxTries

LEMMA Transition ==
  ASSUME NEW t \in Transactions, NEW s \in States, NEW e \in Events
  PROVE  LET u == transition(t, s, e)
         IN  /\ u \in Transactions /\ u.curr_state = s /\ u.next_event = e
             /\ u.on_entry = (s # "END_ST" /\ s # t.curr_state)
             /\ u.ncr = t.ncr /\ u.update_attempts = t.update_attempts
BY Zenon DEF transition, Transactions

(* What a handler that changes the state leaves *)
LEMMA Moved ==
  ASSUME NEW t \in Transactions, NEW s \in States, NEW e \in Events,
         Accepts(s, e, t.ncr.change_type), s # t.curr_state
  PROVE  TransInv(transition(t, s, e))
<1> DEFINE u == transition(t, s, e)
<1>1. /\ u \in Transactions /\ u.curr_state = s /\ u.next_event = e
      /\ u.on_entry = (s # "END_ST" /\ s # t.curr_state) /\ u.ncr = t.ncr
  BY Transition
<1> HIDE DEF u
<1>2. s \in IoStates => u.on_entry
  BY ZenonT(30), <1>1 DEF IoStates
<1> QED
  BY <1>1, <1>2 DEF TransInv, u

LEMMA Retried ==
  ASSUME NEW t \in Transactions, t.curr_state \in IoStates,
         Accepts(t.curr_state, "SERVER_SELECTED_EVT", t.ncr.change_type),
         NEW s \in States \ IoStates,
         Accepts(s, "SERVER_IO_ERROR_EVT", t.ncr.change_type)
  PROVE  TransInv(retryTransition(t, s))
<1>1. CASE t.update_attempts < MaxTries
  <2> DEFINE u == transition(t, t.curr_state, "SERVER_SELECTED_EVT")
  <2>1. /\ u \in Transactions /\ u.curr_state = t.curr_state
        /\ u.next_event = "SERVER_SELECTED_EVT" /\ u.ncr = t.ncr
        /\ u.update_attempts = t.update_attempts
    BY Transition DEF Events, Transactions
  <2>2. retryTransition(t, s) = u
    BY <1>1 DEF retryTransition
  <2> HIDE DEF u
  <2> QED
    BY <1>1, <2>1, <2>2 DEF TransInv
<1>2. CASE ~(t.update_attempts < MaxTries)
  BY <1>2, Moved DEF retryTransition, Events
<1> QED
  BY <1>1, <1>2

LEMMA Entered ==
  ASSUME NEW t, TransInv(t)
  PROVE  LET u == doOnEntry(t)
         IN  /\ u \in Transactions /\ u.curr_state = t.curr_state
             /\ u.next_event = t.next_event /\ u.ncr = t.ncr /\ u.outcome = t.outcome
             /\ t.on_entry \/ t.update_attempts < MaxTries => u.update_attempts < MaxTries
<1> DEFINE v == [t EXCEPT !.update_attempts = 0, !.request = "none"]
           u == [v EXCEPT !.on_entry = FALSE]
<1>1. t \in Transactions /\ 0 \in 0 .. MaxTries /\ 0 < MaxTries
  BY DEF TransInv
<1>2. /\ v \in Transactions /\ v.update_attempts = 0 /\ v.curr_state = t.curr_state
      /\ v.next_event = t.next_event /\ v.ncr = t.ncr /\ v.outcome = t.outcome
  BY Zenon, <1>1 DEF Transactions
<1> HIDE DEF v
<1>3. /\ u \in Transactions /\ u.update_attempts = 0 /\ u.curr_state = t.curr_state
      /\ u.next_event = t.next_event /\ u.ncr = t.ncr /\ u.outcome = t.outcome
  BY ZenonT(30), <1>2 DEF Transactions
<1>4. CASE t.on_entry
  <2>1. doOnEntry(t) = u
    BY <1>4 DEF doOnEntry, clearDnsUpdateRequest, v
  <2> HIDE DEF u
  <2> QED
    BY <1>1, <1>3, <2>1
<1>5. CASE ~t.on_entry
  BY <1>1, <1>5 DEF doOnEntry
<1> QED
  BY <1>4, <1>5

LEMMA Sent ==
  ASSUME NEW t \in Transactions, t.curr_state \in IoStates, t.update_attempts < MaxTries,
         Accepts(t.curr_state, "NOP_EVT", t.ncr.change_type)
  PROVE  TransInv(sendUpdate(t)) /\ sendUpdate(t).request \in IoStates
<1> DEFINE u == sendUpdate(t)
<1>1. /\ u \in Transactions /\ u.curr_state = t.curr_state /\ u.next_event = "NOP_EVT"
      /\ u.ncr = t.ncr /\ u.request \in IoStates
  <2>1. t.update_attempts + 1 \in 0 .. MaxTries
    BY DEF Transactions
  <2>2. "NOP_EVT" \in Events /\ t.curr_state \in IoStates \cup {"none"}
    BY DEF Events
  <2> DEFINE q == IF t.request = "none" THEN t.curr_state ELSE t.request
             n == t.update_attempts + 1
  <2>3. q \in IoStates /\ u = [t EXCEPT !.update_attempts = n, !.next_event = "NOP_EVT",
                                         !.request = q]
    BY DEF sendUpdate, Transactions
  <2> HIDE DEF q, n, u
  <2> QED
    BY ZenonT(30), <2>1, <2>2, <2>3 DEF Transactions, n
<1> HIDE DEF u
<1> QED
  BY <1>1 DEF TransInv, Sends, u

Handled(t) == TransInv(t) /\ (isModelWaiting(t) => t.request \in IoStates)

(* What the handlers of all the states that send a request have in common *)
LEMMA IoHandled ==
  ASSUME NEW t, TransInv(t), t.curr_state \in IoStates, t.next_event # "NOP_EVT",
         NEW answered, TransInv(answered), answered.next_event # "NOP_EVT",
         NEW s \in States \ IoStates,
         Accepts(s, "SERVER_IO_ERROR_EVT", t.ncr.change_type)
  PROVE  Handled(IoHandler(doOnEntry(t), Sends(t.curr_state), answered, s))
<1> DEFINE r == IoHandler(doOnEntry(t), Sends(t.curr_state), answered, s)
<1> SUFFICES TransInv(r) /\ (isModelWaiting(r) => r.request \in IoStates)
  BY DEF Handled
<1> DEFINE u == doOnEntry(t)
<1>1. /\ u \in Transactions /\ u.curr_state = t.curr_state
      /\ u.next_event = t.next_event /\ u.ncr = t.ncr /\ u.outcome = t.outcome
      /\ t.on_entry \/ t.update_attempts < MaxTries => u.update_attempts < MaxTries
  BY Entered
<1> HIDE DEF u
<1>2. /\ Accepts(u.curr_state, "NOP_EVT", u.ncr.change_type)
      /\ Accepts(u.curr_state, "SERVER_SELECTED_EVT", u.ncr.change_type)
      /\ t.next_event \in Sends(t.curr_state) \cup {"IO_COMPLETED_EVT"}
  BY Zenon, <1>1 DEF TransInv, Accepts, IoStates, Sends
<1>3. CASE u.next_event \in Sends(t.curr_state)
  <2>1. u.update_attempts < MaxTries
    BY <1>1, <1>3 DEF TransInv
  <2>2. r = sendUpdate(u)
    BY <1>3 DEF IoHandler, u
  <2> QED
    BY <1>1, <1>2, <2>1, <2>2, Sent
<1>4. CASE u.next_event = "IO_COMPLETED_EVT" /\ u.next_event \notin Sends(t.curr_state)
  <2>1. CASE r = answered
    BY <2>1 DEF isModelWaiting
  <2>2. CASE r = retryTransition(u, s)
    <3>1. TransInv(r)
      BY Zenon, <1>1, <1>2, <2>2, Retried
    <3>2. r.next_event # "NOP_EVT"
      BY <1>1, <2>2, Transition DEF retryTransition, Events, Transactions
    <3> QED
      BY <3>1, <3>2 DEF isModelWaiting
  <2> QED
    BY Zenon, <1>4, <2>1, <2>2 DEF IoHandler, u
<1> QED
  BY <1>1, <1>2, <1>3, <1>4

-----------------------------------------------------------------------------
(* What comes after an answer *)
LEMMA Answered ==
  ASSUME NEW t \in Transactions, t.curr_state \in IoStates
  PROVE  /\ TransInv(ForwardDone(t)) /\ ForwardDone(t).next_event # "NOP_EVT"
         /\ TransInv(ReverseDone(t)) /\ ReverseDone(t).next_event # "NOP_EVT"
         /\ TransInv(Rejected(t)) /\ Rejected(t).next_event # "NOP_EVT"
<1> DEFINE f == [t EXCEPT !.forward_change_completed = TRUE]
           g == [t EXCEPT !.reverse_change_completed = TRUE]
<1>1. /\ f \in Transactions /\ f.curr_state = t.curr_state
      /\ g \in Transactions /\ g.curr_state = t.curr_state
  BY ZenonT(30) DEF Transactions
<1> HIDE DEF f, g
<1>2. /\ {"SELECTING_REV_SERVER_ST", "PROCESS_TRANS_OK_ST", "PROCESS_TRANS_FAILED_ST"}
           \subseteq States \ IoStates
      /\ {"SELECT_SERVER_EVT", "UPDATE_OK_EVT", "UPDATE_FAILED_EVT"}
           \subseteq Events \ {"NOP_EVT"}
  BY DEF States, IoStates, Events
<1>3. \A change :
        /\ Accepts("SELECTING_REV_SERVER_ST", "SELECT_SERVER_EVT", change)
        /\ Accepts("PROCESS_TRANS_OK_ST", "UPDATE_OK_EVT", change)
        /\ Accepts("PROCESS_TRANS_FAILED_ST", "UPDATE_FAILED_EVT", change)
  BY DEF Accepts, IoStates
<1>4. ASSUME NEW v \in Transactions, v.curr_state \in IoStates,
             NEW s \in States \ IoStates, NEW e \in Events \ {"NOP_EVT"},
             Accepts(s, e, v.ncr.change_type)
      PROVE  TransInv(transition(v, s, e)) /\ transition(v, s, e).next_event # "NOP_EVT"
  <2>1. s # v.curr_state
    BY <1>4
  <2> QED
    BY <1>4, <2>1, Moved, Transition
<1>5. /\ LET v == transition(f, "SELECTING_REV_SERVER_ST", "SELECT_SERVER_EVT")
         IN  TransInv(v) /\ v.next_event # "NOP_EVT"
      /\ LET v == transition(f, "PROCESS_TRANS_OK_ST", "UPDATE_OK_EVT")
         IN  TransInv(v) /\ v.next_event # "NOP_EVT"
  BY <1>1, <1>2, <1>3, <1>4
<1>6. /\ LET v == transition(g, "PROCESS_TRANS_OK_ST", "UPDATE_OK_EVT")
         IN  TransInv(v) /\ v.next_event # "NOP_EVT"
      /\ LET v == transition(t, "PROCESS_TRANS_FAILED_ST", "UPDATE_FAILED_EVT")
         IN  TransInv(v) /\ v.next_event # "NOP_EVT"
  BY <1>1, <1>2, <1>3, <1>4
<1>7. /\ ForwardDone(t) \in {transition(f, "SELECTING_REV_SERVER_ST", "SELECT_SERVER_EVT"),
                             transition(f, "PROCESS_TRANS_OK_ST", "UPDATE_OK_EVT")}
      /\ ReverseDone(t) = transition(g, "PROCESS_TRANS_OK_ST", "UPDATE_OK_EVT")
      /\ Rejected(t) = transition(t, "PROCESS_TRANS_FAILED_ST", "UPDATE_FAILED_EVT")
  BY DEF ForwardDone, ReverseDone, Rejected, f, g
<1> QED
  BY <1>5, <1>6, <1>7

(* A move of transaction u to a state that sends *)
LEMMA MovedOn ==
  ASSUME NEW t \in Transactions, NEW s \in IoStates, s # t.curr_state,
         NEW e \in Sends(s), Accepts(s, e, t.ncr.change_type)
  PROVE  TransInv(transition(t, s, e)) /\ transition(t, s, e).next_event # "NOP_EVT"
<1>1. s \in States /\ e \in Events /\ e # "NOP_EVT"
  BY DEF IoStates, States, Sends, Events
<1> QED
  BY <1>1, Moved, Transition

LEMMA ForwardHandlers ==
  ASSUME NEW t, TransInv(t), t.next_event # "NOP_EVT"
  PROVE  /\ t.curr_state = "ADDING_FWD_ADDRS_ST" => Handled(AddingFwdAddrsHandler(t))
         /\ t.curr_state = "REPLACING_FWD_ADDRS_ST" => Handled(ReplacingFwdAddrsHandler(t))
<1> DEFINE u == doOnEntry(t)
<1>1. u \in Transactions /\ u.curr_state = t.curr_state /\ u.ncr = t.ncr
  BY Entered
<1>2. /\ "SELECTING_FWD_SERVER_ST" \in States \ IoStates
      /\ \A change :
           /\ Accepts("SELECTING_FWD_SERVER_ST", "SERVER_IO_ERROR_EVT", change)
           /\ Accepts("REPLACING_FWD_ADDRS_ST", "FQDN_IN_USE_EVT", change)
           /\ Accepts("ADDING_FWD_ADDRS_ST", "SERVER_SELECTED_EVT", change)
  BY DEF Accepts, IoStates, States, Sends
<1>3. CASE t.curr_state = "ADDING_FWD_ADDRS_ST"
  <2> DEFINE a == CASE u.outcome = "NOERROR" -> ForwardDone(u)
                    [] u.outcome = "YXDOMAIN" ->
                         transition(u, "REPLACING_FWD_ADDRS_ST", "FQDN_IN_USE_EVT")
                    [] OTHER -> Rejected(u)
  <2>1. t.curr_state \in IoStates /\ Sends(t.curr_state) = {"SERVER_SELECTED_EVT"}
    BY <1>3 DEF IoStates, Sends
  <2>2. AddingFwdAddrsHandler(t) =
          IoHandler(u, Sends(t.curr_state), a, "SELECTING_FWD_SERVER_ST")
    BY <2>1 DEF AddingFwdAddrsHandler
  <2> HIDE DEF u
  <2>3. LET w == transition(u, "REPLACING_FWD_ADDRS_ST", "FQDN_IN_USE_EVT")
        IN  TransInv(w) /\ w.next_event # "NOP_EVT"
    BY <1>1, <1>2, <1>3, MovedOn DEF IoStates, Sends
  <2>4. TransInv(a) /\ a.next_event # "NOP_EVT"
    BY <1>1, <2>1, <2>3, Answered
  <2> HIDE DEF a
  <2> QED
    BY SMTT(30), <1>2, <2>1, <2>2, <2>4, <1>3, IoHandled DEF u
<1>4. CASE t.curr_state = "REPLACING_FWD_ADDRS_ST"
  <2> DEFINE a == CASE u.outcome = "NOERROR" -> ForwardDone(u)
                    [] u.outcome = "NXDOMAIN" ->
                         transition(u, "ADDING_FWD_ADDRS_ST", "SERVER_SELECTED_EVT")
                    [] OTHER -> Rejected(u)
  <2>1. /\ t.curr_state \in IoStates
        /\ Sends(t.curr_state) = {"FQDN_IN_USE_EVT", "SERVER_SELECTED_EVT"}
    BY <1>4 DEF IoStates, Sends
  <2>2. ReplacingFwdAddrsHandler(t) =
          IoHandler(u, Sends(t.curr_state), a, "SELECTING_FWD_SERVER_ST")
    BY <2>1 DEF ReplacingFwdAddrsHandler
  <2> HIDE DEF u
  <2>3. LET w == transition(u, "ADDING_FWD_ADDRS_ST", "SERVER_SELECTED_EVT")
        IN  TransInv(w) /\ w.next_event # "NOP_EVT"
    BY <1>1, <1>2, <1>4, MovedOn DEF IoStates, Sends
  <2>4. TransInv(a) /\ a.next_event # "NOP_EVT"
    BY <1>1, <2>1, <2>3, Answered
  <2> HIDE DEF a
  <2> QED
    BY <1>2, <2>1, <2>2, <2>4, <1>4, IoHandled DEF u
<1> QED
  BY <1>3, <1>4

LEMMA RemovingHandlers ==
  ASSUME NEW t, TransInv(t), t.next_event # "NOP_EVT"
  PROVE  /\ t.curr_state = "REMOVING_FWD_ADDRS_ST" => Handled(RemovingFwdAddrsHandler(t))
         /\ t.curr_state = "REMOVING_FWD_RRS_ST" => Handled(RemovingFwdRRsHandler(t))
<1> DEFINE u == doOnEntry(t)
           change == t.ncr.change_type
<1>1. u \in Transactions /\ u.curr_state = t.curr_state /\ u.ncr = t.ncr
  BY Entered
<1>2. CASE t.curr_state = "REMOVING_FWD_ADDRS_ST"
  <2> DEFINE a == IF u.outcome \in {"NOERROR", "NXRRSET"}
                    THEN transition(u, "REMOVING_FWD_RRS_ST", "UPDATE_OK_EVT")
                    ELSE Rejected(u)
  <2>1. /\ t.curr_state \in IoStates /\ Sends(t.curr_state) = {"SERVER_SELECTED_EVT"}
        /\ change = "CHG_REMOVE"
    BY <1>2 DEF IoStates, Sends, TransInv, Accepts
  <2>2. RemovingFwdAddrsHandler(t) =
          IoHandler(u, Sends(t.curr_state), a, "SELECTING_FWD_SERVER_ST")
    BY <2>1 DEF RemovingFwdAddrsHandler
  <2> HIDE DEF u
  <2>3. LET w == transition(u, "REMOVING_FWD_RRS_ST", "UPDATE_OK_EVT")
        IN  TransInv(w) /\ w.next_event # "NOP_EVT"
    <3>1. /\ Accepts("REMOVING_FWD_RRS_ST", "UPDATE_OK_EVT", u.ncr.change_type)
          /\ "REMOVING_FWD_RRS_ST" \in IoStates /\ "REMOVING_FWD_RRS_ST" # u.curr_state
          /\ "UPDATE_OK_EVT" \in Sends("REMOVING_FWD_RRS_ST")
      BY <1>1, <1>2, <2>1 DEF Accepts, IoStates, Sends
    <3> QED
      BY <1>1, <3>1, MovedOn
  <2>4. TransInv(a) /\ a.next_event # "NOP_EVT"
    BY <1>1, <2>1, <2>3, Answered
  <2>5. /\ "SELECTING_FWD_SERVER_ST" \in States \ IoStates
        /\ Accepts("SELECTING_FWD_SERVER_ST", "SERVER_IO_ERROR_EVT", change)
    BY DEF Accepts, IoStates, States
  <2> HIDE DEF a
  <2> QED
    BY SMTT(30), <2>1, <2>2, <2>4, <2>5, <1>2, IoHandled DEF u
<1>3. CASE t.curr_state = "REMOVING_FWD_RRS_ST"
  <2> DEFINE a == IF u.outcome \in {"NOERROR", "NXRRSET"} THEN ForwardDone(u) ELSE Rejected(u)
  <2>1. /\ t.curr_state \in IoStates
        /\ Sends(t.curr_state) = {"UPDATE_OK_EVT", "SERVER_SELECTED_EVT"}
        /\ change = "CHG_REMOVE"
    BY <1>3 DEF IoStates, Sends, TransInv, Accepts
  <2>2. RemovingFwdRRsHandler(t) =
          IoHandler(u, Sends(t.curr_state), a, "PROCESS_TRANS_FAILED_ST")
    BY <2>1 DEF RemovingFwdRRsHandler
  <2> HIDE DEF u
  <2>4. TransInv(a) /\ a.next_event # "NOP_EVT"
    BY <1>1, <2>1, Answered
  <2>5. /\ "PROCESS_TRANS_FAILED_ST" \in States \ IoStates
        /\ Accepts("PROCESS_TRANS_FAILED_ST", "SERVER_IO_ERROR_EVT", change)
    BY <2>1 DEF Accepts, IoStates, States
  <2> HIDE DEF a
  <2> QED
    BY Zenon, <2>1, <2>2, <2>4, <2>5, <1>3, IoHandled DEF u
<1> QED
  BY <1>2, <1>3

LEMMA ReverseHandlers ==
  ASSUME NEW t, TransInv(t), t.next_event # "NOP_EVT"
  PROVE  /\ t.curr_state = "REPLACING_REV_PTRS_ST" => Handled(ReplacingRevPtrsHandler(t))
         /\ t.curr_state = "REMOVING_REV_PTRS_ST" => Handled(RemovingRevPtrsHandler(t))
<1> DEFINE u == doOnEntry(t)
           S == {"NOERROR", "NXRRSET"}
           a == IF u.outcome = "NOERROR" THEN ReverseDone(u) ELSE Rejected(u)
           b == IF u.outcome \in S THEN ReverseDone(u) ELSE Rejected(u)
<1> SUFFICES ASSUME t.curr_state \in {"REPLACING_REV_PTRS_ST", "REMOVING_REV_PTRS_ST"}
             PROVE  Handled(ReplacingRevPtrsHandler(t)) /\ Handled(RemovingRevPtrsHandler(t))
  OBVIOUS
<1>1. u \in Transactions /\ u.curr_state = t.curr_state
  BY Entered
<1>2. t.curr_state \in IoStates /\ Sends(t.curr_state) = {"SERVER_SELECTED_EVT"}
  BY DEF IoStates, Sends
<1>3. /\ ReplacingRevPtrsHandler(t) =
           IoHandler(u, Sends(t.curr_state), a, "SELECTING_REV_SERVER_ST")
      /\ RemovingRevPtrsHandler(t) =
           IoHandler(u, Sends(t.curr_state), b, "SELECTING_REV_SERVER_ST")
  BY <1>2 DEF ReplacingRevPtrsHandler, RemovingRevPtrsHandler
<1> HIDE DEF u
<1>4. TransInv(a) /\ a.next_event # "NOP_EVT" /\ TransInv(b) /\ b.next_event # "NOP_EVT"
  BY <1>1, <1>2, Answered
<1>5. /\ "SELECTING_REV_SERVER_ST" \in States \ IoStates
      /\ Accepts("SELECTING_REV_SERVER_ST", "SERVER_IO_ERROR_EVT",
                 t.ncr.change_type)
  BY DEF Accepts, IoStates, States
<1> HIDE DEF a, b
<1> QED
  BY SMTT(30), <1>2, <1>3, <1>4, <1>5, IoHandled DEF u

(* The target of a selection fits the change. *)
Fits(s, change) ==
  /\ s \in IoStates \ {"REMOVING_FWD_RRS_ST"}
  /\ s = "REMOVING_FWD_ADDRS_ST" => change = "CHG_REMOVE"

LEMMA OtherHandlers ==
  ASSUME NEW t, TransInv(t)
  PROVE  /\ t.curr_state = "READY_ST" => Handled(ReadyHandler(t))
         /\ t.curr_state \in {"SELECTING_FWD_SERVER_ST", "SELECTING_REV_SERVER_ST"} =>
              \A s : Fits(s, t.ncr.change_type) => Handled(SelectingServerHandler(t, s))
         /\ t.curr_state = "PROCESS_TRANS_OK_ST" => Handled(ProcessOkHandler(t))
         /\ t.curr_state = "PROCESS_TRANS_FAILED_ST" => Handled(ProcessFailedHandler(t))
<1>1. ASSUME NEW v \in Transactions, NEW s \in States, NEW e \in Events \ {"NOP_EVT"},
             s # v.curr_state, Accepts(s, e, v.ncr.change_type)
      PROVE  Handled(transition(v, s, e))
  BY <1>1, Moved, Transition DEF Handled, isModelWaiting
<1>2. t \in Transactions
  BY DEF TransInv
<1>3. CASE t.curr_state = "READY_ST"
  <2>1. t.next_event = "START_EVT"
    BY <1>3 DEF TransInv, Accepts
  <2>2. ReadyHandler(t) \in
          {transition(t, "SELECTING_FWD_SERVER_ST", "SELECT_SERVER_EVT"),
           transition(t, "SELECTING_REV_SERVER_ST", "SELECT_SERVER_EVT")}
    BY <2>1 DEF ReadyHandler
  <2>3. ASSUME NEW s \in {"SELECTING_FWD_SERVER_ST", "SELECTING_REV_SERVER_ST"}
        PROVE  Handled(transition(t, s, "SELECT_SERVER_EVT"))
    <3>1. /\ s \in States /\ "SELECT_SERVER_EVT" \in Events \ {"NOP_EVT"}
          /\ s # t.curr_state /\ Accepts(s, "SELECT_SERVER_EVT", t.ncr.change_type)
      BY <1>3 DEF States, Events, Accepts, IoStates
    <3> QED
      BY <1>1, <1>2, <3>1
  <2> QED
    BY <1>3, <2>2, <2>3
<1>4. CASE t.curr_state \in {"SELECTING_FWD_SERVER_ST", "SELECTING_REV_SERVER_ST"}
  <2> SUFFICES ASSUME NEW s, Fits(s, t.ncr.change_type)
               PROVE  Handled(SelectingServerHandler(t, s))
    BY <1>4
  <2> DEFINE u == IF t.next_event = "SELECT_SERVER_EVT" THEN initServerSelection(t) ELSE t
             v == [u EXCEPT !.next_server_pos = u.next_server_pos + 1]
  <2>1. t.next_event \in {"SELECT_SERVER_EVT", "SERVER_IO_ERROR_EVT"}
    BY Zenon, <1>4 DEF TransInv, Accepts
  <2>2. /\ u \in Transactions /\ u.curr_state = t.curr_state /\ u.ncr = t.ncr
        /\ u.next_server_pos \in 0 .. Servers
    BY <1>2 DEF Transactions, initServerSelection
  <2>3. SelectingServerHandler(t, s) =
          IF u.next_server_pos < Servers THEN transition(v, s, "SERVER_SELECTED_EVT")
          ELSE transition(u, "PROCESS_TRANS_FAILED_ST", "NO_MORE_SERVERS_EVT")
    BY <2>1 DEF SelectingServerHandler
  <2> HIDE DEF u
  <2>4. CASE u.next_server_pos < Servers
    <3>0. u.next_server_pos + 1 \in 0 .. Servers
      BY <2>2, <2>4
    <3>1. v \in Transactions /\ v.curr_state = t.curr_state /\ v.ncr = t.ncr
      BY <2>2, <3>0 DEF Transactions
    <3>2. /\ s \in States /\ "SERVER_SELECTED_EVT" \in Events \ {"NOP_EVT"}
          /\ s # t.curr_state /\ Accepts(s, "SERVER_SELECTED_EVT", t.ncr.change_type)
      BY <1>4 DEF Fits, IoStates, States, Events, Accepts, Sends
    <3> HIDE DEF v
    <3> QED
      BY SMTT(30), <1>1, <2>3, <2>4, <3>1, <3>2
  <2>5. CASE ~(u.next_server_pos < Servers)
    <3>1. /\ "PROCESS_TRANS_FAILED_ST" \in States
          /\ "NO_MORE_SERVERS_EVT" \in Events \ {"NOP_EVT"}
          /\ "PROCESS_TRANS_FAILED_ST" # u.curr_state
          /\ Accepts("PROCESS_TRANS_FAILED_ST", "NO_MORE_SERVERS_EVT", u.ncr.change_type)
      BY <1>4, <2>2 DEF IoStates, States, Events, Accepts
    <3> QED
      BY <1>1, <2>2, <2>3, <2>5, <3>1
  <2> QED
    BY <2>4, <2>5
<1>5. ASSUME NEW r \in {"ST_COMPLETED", "ST_FAILED"}, t.curr_state # "END_ST"
      PROVE  Handled(endModel([t EXCEPT !.result = r]))
  <2> DEFINE v == [t EXCEPT !.result = r]
  <2>1. v \in Transactions /\ v.curr_state # "END_ST"
    BY <1>2, <1>5 DEF Transactions
  <2>2. /\ "END_ST" \in States /\ "END_EVT" \in Events \ {"NOP_EVT"}
        /\ \A change : Accepts("END_ST", "END_EVT", change)
    BY DEF States, Events, Accepts, IoStates
  <2> HIDE DEF v
  <2>3. Handled(transition(v, "END_ST", "END_EVT"))
    BY <1>1, <2>1, <2>2
  <2> QED
    BY <2>3 DEF endModel, v
<1>6. CASE t.curr_state = "PROCESS_TRANS_OK_ST"
  <2>1. t.next_event = "UPDATE_OK_EVT"
    BY <1>6 DEF TransInv, Accepts
  <2> QED
    BY <1>5, <1>6, <2>1 DEF ProcessOkHandler
<1>7. CASE t.curr_state = "PROCESS_TRANS_FAILED_ST"
  <2>1. \/ t.next_event \in {"UPDATE_FAILED_EVT", "NO_MORE_SERVERS_EVT"}
        \/ t.ncr.change_type = "CHG_REMOVE" /\ t.next_event = "SERVER_IO_ERROR_EVT"
    BY <1>7 DEF TransInv, Accepts
  <2>2. ProcessFailedHandler(t) = endModel([t EXCEPT !.result = "ST_FAILED"])
    BY <2>1 DEF ProcessFailedHandler
  <2> QED
    BY <1>5, <1>7, <2>2
<1> QED
  BY Zenon, <1>3, <1>4, <1>6, <1>7

-----------------------------------------------------------------------------
(* The data of a forward name: addresses that were set up by hand, or one  *)
(* DHCID and at most one address of each family.                           *)
OwnedInv(data) ==
  /\ \A rr, ss \in data : rr[1] = ss[1] => rr = ss
  /\ \A rr \in data : rr[1] # "DHCID" => rr[1] = IF rr[2] \in V4 THEN "A" ELSE "AAAA"
NameInv(data) ==
  /\ data \subseteq ({"A", "AAAA"} \X Ips) \cup ({"DHCID"} \X Dhcids)
  /\ RRset(data, "DHCID") # {} => OwnedInv(data)

OwnerOf(data) == IF RRset(data, "DHCID") # {}
                   THEN (CHOOSE rr \in RRset(data, "DHCID") : TRUE)[2]
                   ELSE IF data = {} THEN "nobody" ELSE "admin"
AddressesIn(data) == {rr[2] : rr \in RRset(data, "A") \cup RRset(data, "AAAA")}

(* What NameRegistry lets happen to one name *)
Allowed(data, new) ==
  \E c \in Dhcids, a \in Ips :
    \/ /\ OwnerOf(data) = "nobody"
       /\ OwnerOf(new) = c /\ AddressesIn(new) = {a}
    \/ /\ OwnerOf(data) = c /\ OwnerOf(new) = c
       /\ \/ \E keep \in SUBSET AddressesIn(data) : AddressesIn(new) = keep \cup {a}
          \/ AddressesIn(new) = AddressesIn(data) \ {a}
    \/ /\ OwnerOf(data) = c /\ AddressesIn(data) = {}
       /\ OwnerOf(new) = "nobody" /\ AddressesIn(new) = {}

LEMMA Owned ==
  ASSUME NEW data, NEW c, RRset(data, "DHCID") = {<<"DHCID", c>>}
  PROVE  OwnerOf(data) = c
<1> DEFINE S == RRset(data, "DHCID")
           p == CHOOSE rr \in S : TRUE
<1>1. \E rr \in S : TRUE
  BY ZenonT(30)
<1> HIDE DEF S
<1>2. p \in S
  BY <1>1
<1> HIDE DEF p
<1>3. p = <<"DHCID", c>>
  BY <1>2 DEF S
<1>4. OwnerOf(data) = p[2]
  BY <1>1 DEF OwnerOf, S, p
<1> QED
  BY <1>3, <1>4

LEMMA LeaseRecords ==
  ASSUME NEW ncr \in NameChangeRequests
  PROVE  /\ LeaseAddress(ncr) = IF ncr.ip \in V4 THEN <<"A", ncr.ip>> ELSE <<"AAAA", ncr.ip>>
         /\ DhcidRecord(ncr) = <<"DHCID", ncr.dhcid>>
         /\ ncr.ip \in Ips /\ ncr.dhcid \in Dhcids /\ ncr.fqdn \in Fqdns
BY DEF LeaseAddress, DhcidRecord, getAddressRRType, NameChangeRequests

(* A request to add a name, on which only a free name changes *)
LEMMA AddAllowed ==
  ASSUME NEW data, NameInv(data), NEW ncr \in NameChangeRequests, NEW by \in BOOLEAN,
         check_prerequisites(data, buildAddFwdAddressRequest(ncr)) = "NOERROR"
  PROVE  LET new == do_update(data, buildAddFwdAddressRequest(ncr), by)
         IN  NameInv(new) /\ Allowed(data, new)
<1> DEFINE m == buildAddFwdAddressRequest(ncr)
           new == do_update(data, m, by)
           d == <<"DHCID", ncr.dhcid>>
           l == IF ncr.ip \in V4 THEN <<"A", ncr.ip>> ELSE <<"AAAA", ncr.ip>>
<1>1. /\ m.not_in_use /\ m.add = {LeaseAddress(ncr), DhcidRecord(ncr)}
  BY DEF buildAddFwdAddressRequest, prepNewRequest
<1> HIDE DEF m
<1>2. data = {}
  BY Zenon, <1>1 DEF check_prerequisites, m
<1>3. new = {l, d}
  BY Zenon, <1>1, <1>2, LeaseRecords DEF do_update, Deleted
<1> HIDE DEF new
<1>4. /\ l[1] = (IF ncr.ip \in V4 THEN "A" ELSE "AAAA") /\ l[2] = ncr.ip
      /\ d[1] = "DHCID" /\ d[2] = ncr.dhcid
      /\ l \in {"A", "AAAA"} \X Ips /\ d \in {"DHCID"} \X Dhcids
  BY LeaseRecords
<1> HIDE DEF l, d
<1>5. NameInv(new)
  BY <1>3, <1>4 DEF NameInv, OwnedInv
<1>6. RRset(new, "DHCID") = {d}
  BY <1>3, <1>4 DEF RRset
<1>7. OwnerOf(new) = ncr.dhcid
  BY ZenonT(30), <1>6, Owned DEF d
<1>8. AddressesIn(new) = {ncr.ip}
  BY <1>3, <1>4 DEF AddressesIn, RRset
<1>9. OwnerOf(data) = "nobody"
  BY <1>2 DEF OwnerOf, RRset
<1> QED
  BY Zenon, <1>5, <1>7, <1>8, <1>9, LeaseRecords DEF Allowed, new, m

(* A name of client c whose addresses change, but not its DHCID *)
LEMMA StillOwned ==
  ASSUME NEW data, NameInv(data), NEW c, RRset(data, "DHCID") = {<<"DHCID", c>>},
         NEW new, \A rr : rr[1] = "DHCID" => (rr \in new <=> rr \in data)
  PROVE  /\ OwnedInv(data) /\ <<"DHCID", c>> \in data
         /\ OwnerOf(data) = c /\ OwnerOf(new) = c
<1>1. RRset(new, "DHCID") = {<<"DHCID", c>>}
  BY DEF RRset
<1>2. OwnerOf(data) = c /\ OwnerOf(new) = c
  BY ZenonT(30), <1>1, Owned
<1> QED
  BY <1>2 DEF NameInv, RRset

LEMMA ReplaceAllowed ==
  ASSUME NEW data, NameInv(data), NEW ncr \in NameChangeRequests, NEW by \in BOOLEAN,
         check_prerequisites(data, buildReplaceFwdAddressRequest(ncr)) = "NOERROR"
  PROVE  LET new == do_update(data, buildReplaceFwdAddressRequest(ncr), by)
         IN  NameInv(new) /\ Allowed(data, new)
<1> DEFINE m == buildReplaceFwdAddressRequest(ncr)
           new == do_update(data, m, by)
           type == IF ncr.ip \in V4 THEN "A" ELSE "AAAA"
           l == <<type, ncr.ip>>
           keep == {rr \in data : rr[1] # type}
<1>1. /\ m.match = {DhcidRecord(ncr)} /\ m.add = {LeaseAddress(ncr)}
      /\ m.delete_rrsets = {getAddressRRType(ncr)} /\ m.delete_rrs = {}
  BY DEF buildReplaceFwdAddressRequest, prepNewRequest
<1> HIDE DEF m
<1>2. LeaseAddress(ncr) = l /\ DhcidRecord(ncr)[1] = "DHCID" /\ getAddressRRType(ncr) = type
  BY LeaseRecords DEF getAddressRRType
<1>3. RRset(data, "DHCID") = {<<"DHCID", ncr.dhcid>>}
  BY SMTT(30), <1>1, <1>2, LeaseRecords DEF check_prerequisites, m
<1>4. new = keep \cup (IF by THEN {l} \ data ELSE {l})
  BY Zenon, <1>1, <1>2 DEF do_update, Deleted
<1>5. type \in {"A", "AAAA"} /\ l[1] = type /\ l[2] = ncr.ip /\ l \in {"A", "AAAA"} \X Ips
  BY LeaseRecords
<1> HIDE DEF new, l
<1>6. \A rr : rr[1] = "DHCID" => (rr \in new <=> rr \in data)
  BY <1>4, <1>5
<1>7. /\ OwnedInv(data) /\ OwnerOf(data) = ncr.dhcid /\ OwnerOf(new) = ncr.dhcid
  BY Zenon, <1>3, <1>6, StillOwned
<1>8. NameInv(new)
  <2>1. new \subseteq ({"A", "AAAA"} \X Ips) \cup ({"DHCID"} \X Dhcids)
    BY <1>4, <1>5 DEF NameInv
  <2>2. OwnedInv(new)
    BY <1>4, <1>5, <1>7 DEF OwnedInv
  <2> QED
    BY <2>1, <2>2 DEF NameInv
<1>9. CASE l \in new
  <2> DEFINE k == AddressesIn(keep)
  <2>1. keep \subseteq data /\ new = keep \cup {l}
    BY <1>4, <1>9
  <2>2. k \in SUBSET AddressesIn(data)
    BY Zenon, <2>1 DEF AddressesIn, RRset
  <2>3. AddressesIn(new) = k \cup {ncr.ip}
    BY Zenon, <1>5, <2>1 DEF AddressesIn, RRset
  <2> HIDE DEF k
  <2> QED
    BY SMTT(30), <1>7, <1>8, <2>2, <2>3, LeaseRecords DEF Allowed, new, m
<1>10. CASE l \notin new
  <2>1. l \in data /\ new = keep
    BY <1>4, <1>5, <1>10
  <2>2. \A rr \in data : rr[1] = type => rr = l
    BY <1>5, <1>7, <2>1 DEF OwnedInv
  <2>3. new = data \ {l}
    BY <1>5, <2>1, <2>2
  <2>4. \A rr \in data : rr[1] # "DHCID" /\ rr[2] = ncr.ip => rr = l
    BY <1>7, <2>2 DEF OwnedInv
  <2>5. AddressesIn(new) = AddressesIn(data) \ {ncr.ip}
    BY <1>5, <2>3, <2>4 DEF AddressesIn, RRset
  <2> QED
    BY Zenon, <1>7, <1>8, <2>5, LeaseRecords DEF Allowed, new, m
<1> QED
  BY <1>9, <1>10

LEMMA RemoveAddressAllowed ==
  ASSUME NEW data, NameInv(data), NEW ncr \in NameChangeRequests, NEW by \in BOOLEAN,
         check_prerequisites(data, buildRemoveFwdAddressRequest(ncr)) = "NOERROR"
  PROVE  LET new == do_update(data, buildRemoveFwdAddressRequest(ncr), by)
         IN  NameInv(new) /\ Allowed(data, new)
<1> DEFINE m == buildRemoveFwdAddressRequest(ncr)
           new == do_update(data, m, by)
           type == IF ncr.ip \in V4 THEN "A" ELSE "AAAA"
           l == <<type, ncr.ip>>
<1>1. /\ m.match = {DhcidRecord(ncr)} /\ m.add = {}
      /\ m.delete_rrsets = {} /\ m.delete_rrs = {LeaseAddress(ncr)}
  BY DEF buildRemoveFwdAddressRequest, prepNewRequest
<1> HIDE DEF m
<1>2. LeaseAddress(ncr) = l /\ DhcidRecord(ncr)[1] = "DHCID"
  BY LeaseRecords
<1>3. RRset(data, "DHCID") = {<<"DHCID", ncr.dhcid>>}
  BY Zenon, <1>1, <1>2, LeaseRecords DEF check_prerequisites, m
<1>4. new = data \ {l}
  BY Zenon, <1>1, <1>2 DEF do_update, Deleted
<1>5. type \in {"A", "AAAA"} /\ l[1] = type /\ l[2] = ncr.ip
  BY LeaseRecords
<1> HIDE DEF new, l
<1>6. \A rr : rr[1] = "DHCID" => (rr \in new <=> rr \in data)
  BY <1>4, <1>5
<1>7. /\ OwnedInv(data) /\ OwnerOf(data) = ncr.dhcid /\ OwnerOf(new) = ncr.dhcid
  BY Zenon, <1>3, <1>6, StillOwned
<1>8. NameInv(new)
  BY <1>4, <1>7 DEF NameInv, OwnedInv
<1>9. \A rr \in data : rr[1] \in {"A", "AAAA"} /\ rr[2] = ncr.ip => rr = l
  <2> SUFFICES ASSUME NEW rr \in data, rr[1] \in {"A", "AAAA"}, rr[2] = ncr.ip
               PROVE  rr = l
    OBVIOUS
  <2>1. rr[1] = type
    BY <1>7 DEF OwnedInv
  <2>2. rr = <<rr[1], rr[2]>>
    BY DEF NameInv
  <2> QED
    BY <2>1, <2>2 DEF l
<1>10. AddressesIn(new) = AddressesIn(data) \ {ncr.ip}
  BY Zenon, <1>4, <1>5, <1>9 DEF AddressesIn, RRset
<1> QED
  BY Zenon, <1>7, <1>8, <1>10, LeaseRecords DEF Allowed, new, m

LEMMA RemoveNameAllowed ==
  ASSUME NEW data, NameInv(data), NEW ncr \in NameChangeRequests, NEW by \in BOOLEAN,
         check_prerequisites(data, buildRemoveFwdRRsRequest(ncr)) = "NOERROR"
  PROVE  LET new == do_update(data, buildRemoveFwdRRsRequest(ncr), by)
         IN  NameInv(new) /\ Allowed(data, new)
<1> DEFINE m == buildRemoveFwdRRsRequest(ncr)
           new == do_update(data, m, by)
<1>1. /\ m.match = {DhcidRecord(ncr)} /\ m.absent = {"A", "AAAA"} /\ m.add = {}
      /\ m.delete_rrsets = Types /\ m.delete_rrs = {}
  BY DEF buildRemoveFwdRRsRequest, prepNewRequest
<1> HIDE DEF m
<1>2. /\ RRset(data, "DHCID") = {<<"DHCID", ncr.dhcid>>}
      /\ RRset(data, "A") = {} /\ RRset(data, "AAAA") = {}
  BY Zenon, <1>1, LeaseRecords DEF check_prerequisites, m
<1>3. \A rr \in data : rr[1] \in Types
  BY DEF NameInv, Types
<1>4. new = {}
  BY Zenon, <1>1, <1>3 DEF do_update, Deleted
<1>5. OwnerOf(data) = ncr.dhcid /\ AddressesIn(data) = {}
  BY ZenonT(30), <1>2, Owned DEF AddressesIn
<1>6. OwnerOf({}) = "nobody" /\ AddressesIn({}) = {} /\ NameInv({})
  BY Zenon DEF OwnerOf, AddressesIn, RRset, NameInv
<1> HIDE DEF new
<1>7. NameInv(new) /\ Allowed(data, new)
  BY Zenon, <1>4, <1>5, <1>6, LeaseRecords DEF Allowed
<1> QED
  BY <1>7 DEF new, m

-----------------------------------------------------------------------------
DataInv == /\ db \in [Owners -> SUBSET Records]
           /\ \A n \in Fqdns : NameInv(db[n])

(* One name changes as NameRegistry allows, or none does. *)
DataStep ==
  \/ \A n \in Fqdns : db'[n] = db[n]
  \/ \E n \in Fqdns : /\ Allowed(db[n], db'[n])
                      /\ \A k \in Fqdns \ {n} : db'[k] = db[k]

(* What a message is about, and that it brings in only records *)
LEMMA ContentsOK ==
  ASSUME NEW message \in Messages
  PROVE  LET m == Contents(message)
         IN  /\ m.add \subseteq Records
             /\ m.name \in Ips \/
                  /\ m.name = message.ncr.fqdn
                  /\ m \in {buildAddFwdAddressRequest(message.ncr),
                            buildReplaceFwdAddressRequest(message.ncr),
                            buildRemoveFwdAddressRequest(message.ncr),
                            buildRemoveFwdRRsRequest(message.ncr)}
<1> DEFINE ncr == message.ncr
<1>0. ncr \in NameChangeRequests /\ message.request \in IoStates
  BY DEF Messages
<1>1. /\ LeaseAddress(ncr) \in Records /\ DhcidRecord(ncr) \in Records
      /\ PtrRecord(ncr) \in Records /\ ncr.ip \in Ips
  BY Zenon, <1>0 DEF LeaseAddress, DhcidRecord, PtrRecord, getAddressRRType, NameChangeRequests,
              Records, Types, Rdata
<1> HIDE DEF ncr
<1>2. LET m == buildAddFwdAddressRequest(ncr)
      IN  m.add \subseteq Records /\ m.name = ncr.fqdn
  BY <1>1 DEF buildAddFwdAddressRequest, prepNewRequest
<1>3. LET m == buildReplaceFwdAddressRequest(ncr)
      IN  m.add \subseteq Records /\ m.name = ncr.fqdn
  BY <1>1 DEF buildReplaceFwdAddressRequest, prepNewRequest
<1>4. LET m == buildRemoveFwdAddressRequest(ncr)
      IN  m.add \subseteq Records /\ m.name = ncr.fqdn
  BY <1>1 DEF buildRemoveFwdAddressRequest, prepNewRequest
<1>5. LET m == buildRemoveFwdRRsRequest(ncr)
      IN  m.add \subseteq Records /\ m.name = ncr.fqdn
  BY <1>1 DEF buildRemoveFwdRRsRequest, prepNewRequest
<1>6. LET m == buildReplaceRevPtrsRequest(ncr)
      IN  m.add \subseteq Records /\ m.name \in Ips
  BY <1>1 DEF buildReplaceRevPtrsRequest, prepNewRequest
<1>7. LET m == buildRemoveRevPtrsRequest(ncr)
      IN  m.add \subseteq Records /\ m.name \in Ips
  BY <1>1 DEF buildRemoveRevPtrsRequest, prepNewRequest
<1>8. Contents(message) \in {buildAddFwdAddressRequest(ncr),
                             buildReplaceFwdAddressRequest(ncr),
                             buildRemoveFwdAddressRequest(ncr),
                             buildRemoveFwdRRsRequest(ncr),
                             buildReplaceRevPtrsRequest(ncr), buildRemoveRevPtrsRequest(ncr)}
  BY <1>0 DEF Contents, IoStates, ncr
<1> QED
  BY Zenon, <1>2, <1>3, <1>4, <1>5, <1>6, <1>7, <1>8 DEF ncr

LEMMA Executed ==
  ASSUME DataInv, session \in BOOLEAN, NEW message \in Messages, Execute(message)
  PROVE  DataInv' /\ DataStep
<1> DEFINE m == Contents(message)
           ncr == message.ncr
           new == do_update(db[m.name], m, session)
<1>1. /\ m.add \subseteq Records
      /\ m.name \in Ips \/ /\ m.name = ncr.fqdn
                           /\ m \in {buildAddFwdAddressRequest(ncr),
                                     buildReplaceFwdAddressRequest(ncr),
                                     buildRemoveFwdAddressRequest(ncr),
                                     buildRemoveFwdRRsRequest(ncr)}
  BY Zenon, ContentsOK
<1>2. ncr \in NameChangeRequests /\ ncr.fqdn \in Fqdns
  BY DEF Messages, NameChangeRequests
<1>3. db' = IF check_prerequisites(db[m.name], m) = "NOERROR"
              THEN [db EXCEPT ![m.name] = new] ELSE db
  BY DEF Execute
<1> HIDE DEF m, ncr
<1>4. m.name \in Owners /\ db \in [Owners -> SUBSET Records]
  BY Zenon, <1>1, <1>2 DEF Owners, DataInv
<1>5. CASE db' = db
  BY <1>5 DEF DataInv, DataStep
<1>6. CASE /\ check_prerequisites(db[m.name], m) = "NOERROR"
           /\ db' = [db EXCEPT ![m.name] = new]
  <2>1. new \subseteq Records
    BY Zenon, <1>1, <1>4 DEF do_update
  <2>2. m.name \in Fqdns => NameInv(new) /\ Allowed(db[m.name], new)
    <3> SUFFICES ASSUME m.name \in Fqdns
                 PROVE  NameInv(new) /\ Allowed(db[m.name], new)
      BY Zenon
    <3> DEFINE data == db[m.name]
    <3>1. m \in {buildAddFwdAddressRequest(ncr), buildReplaceFwdAddressRequest(ncr),
                 buildRemoveFwdAddressRequest(ncr), buildRemoveFwdRRsRequest(ncr)}
      BY Zenon, <1>1, NamesAssumption
    <3>2. NameInv(data) /\ check_prerequisites(data, m) = "NOERROR"
      BY Zenon, <1>6 DEF DataInv
    <3> HIDE DEF data
    <3>3. NameInv(do_update(data, m, session)) /\ Allowed(data, do_update(data, m, session))
      BY Zenon, <1>2, <3>1, <3>2, AddAllowed, ReplaceAllowed, RemoveAddressAllowed, RemoveNameAllowed
    <3> QED
      BY Zenon, <3>3 DEF data
  <2> HIDE DEF new
  <2>3. /\ db' \in [Owners -> SUBSET Records] /\ db'[m.name] = new
        /\ \A k \in Owners \ {m.name} : db'[k] = db[k]
    BY <1>4, <1>6, <2>1
  <2>4. Fqdns \subseteq Owners
    BY DEF Owners
  <2>5. DataInv'
    BY Zenon, <2>2, <2>3, <2>4 DEF DataInv
  <2>6. DataStep
    BY SMTT(30), <2>2, <2>3, <2>4 DEF DataStep
  <2> QED
    BY <2>5, <2>6
<1> QED
  BY Zenon, <1>3, <1>5, <1>6

-----------------------------------------------------------------------------
(* A transaction waits for an answer. *)
Waits(t) == t \in Transactions /\ t.curr_state \in IoStates /\ t.next_event = "NOP_EVT"

ListInv == /\ trans \in [Dhcids -> Transactions \cup {NoTransaction}]
           /\ \A d \in Dhcids : trans[d] # NoTransaction => TransInv(trans[d])
FetchInv == /\ fetch \in [Dhcids -> Fetches]
            /\ \A d \in Dhcids : fetch[d].phase # "none" => Waits(trans[d])
LateInv == /\ late \subseteq Messages /\ IsFiniteSet(late)
           /\ overdue \in Nat /\ Cardinality(late) + overdue <= MaxLate
QueueInv == /\ queue \in Seq(NameChangeRequests) /\ todo \in Seq(NameChangeRequests)
            /\ session \in BOOLEAN

IInv == DataInv /\ ListInv /\ FetchInv /\ LateInv /\ QueueInv

LEMMA NotATransaction ==
  /\ NoTransaction \notin Transactions /\ NoTransaction.curr_state \notin States
  /\ ~isModelDone(NoTransaction) /\ ~isModelRunning(NoTransaction)
BY DEF NoTransaction, Transactions, States, isModelDone, isModelRunning

LEMMA WaitingIsWaits ==
  ASSUME NEW t, TransInv(t)
  PROVE  isModelWaiting(t) <=> Waits(t)
<1>1. t \in Transactions /\ t.curr_state \in States
  BY Zenon DEF TransInv, Transactions
<1>2. t.next_event = "NOP_EVT" => t.curr_state \in IoStates
  BY Zenon, <1>1 DEF TransInv, Accepts, States, IoStates
<1>3. t.curr_state \in IoStates => t.curr_state \notin {"NEW_ST", "END_ST"}
  BY Zenon DEF IoStates
<1> QED
  BY <1>1, <1>2, <1>3 DEF Waits, isModelWaiting, isModelRunning

(* runModel() for one state *)
LEMMA HandleInv ==
  ASSUME IInv, NEW d \in Dhcids, NEW s \in States, NEW t, Handle(d, s, t),
         TransInv(trans[d]) /\ trans[d].curr_state = s /\ trans[d].next_event # "NOP_EVT"
           => Handled(t)
  PROVE  IInv'
<1>1. /\ trans[d].curr_state = s /\ ~isModelWaiting(trans[d])
      /\ trans' = [trans EXCEPT ![d] = t]
      /\ UNCHANGED <<db, queue, late, todo, session, overdue>>
  BY Zenon DEF Handle
<1>2. trans[d] # NoTransaction /\ TransInv(trans[d])
  BY Zenon, <1>1, NotATransaction DEF IInv, ListInv
<1>3. ~Waits(trans[d])
  BY SMTT(30), <1>1, <1>2, WaitingIsWaits
<1>4. s # "END_ST" => trans[d].next_event # "NOP_EVT"
  BY SMTT(30), <1>1, <1>2 DEF isModelWaiting, isModelRunning, States
<1>5. s = "END_ST" => trans[d].next_event # "NOP_EVT"
  BY Zenon, <1>1, <1>2 DEF TransInv, Accepts
<1>6. Handled(t)
  BY SMTT(30), <1>1, <1>2, <1>4, <1>5
<1>7. t \in Transactions /\ TransInv(t)
  BY Zenon, <1>6 DEF Handled, TransInv
<1>8. ListInv'
  BY Zenon, <1>1, <1>7 DEF IInv, ListInv
<1>9. FetchInv'
  <2>1. fetch[d].phase = "none" /\ fetch \in [Dhcids -> Fetches]
    BY Zenon, <1>3 DEF IInv, FetchInv
  <2>2. trans'[d] = t /\ \A e \in Dhcids \ {d} : trans'[e] = trans[e]
    BY SMTT(30), <1>1 DEF IInv, ListInv
  <2>3. CASE isModelWaiting(t)
    <3> DEFINE m == [request |-> t.request, ncr |-> t.ncr]
               f == [phase |-> "sent", message |-> m]
    <3>1. m \in Messages
      BY SMTT(30), <1>6, <1>7, <2>3 DEF Handled, Messages, Transactions
    <3> HIDE DEF m
    <3>2. f \in Fetches
      BY Zenon, <3>1 DEF Fetches
    <3>3. fetch' = [fetch EXCEPT ![d] = f]
      BY Zenon, <2>3 DEF Handle, m
    <3> HIDE DEF f
    <3>4. /\ fetch' \in [Dhcids -> Fetches]
          /\ \A e \in Dhcids \ {d} : fetch'[e] = fetch[e]
      BY Zenon, <2>1, <3>2, <3>3
    <3>5. Waits(t)
      BY SMTT(30), <1>7, <2>3, WaitingIsWaits
    <3> QED
      BY SMTT(30), <2>2, <3>4, <3>5 DEF IInv, FetchInv
  <2>4. CASE ~isModelWaiting(t)
    <3>1. fetch' = fetch
      BY Zenon, <2>4 DEF Handle
    <3> QED
      BY SMTT(30), <2>1, <2>2, <3>1 DEF IInv, FetchInv
  <2> QED
    BY Zenon, <2>3, <2>4
<1> QED
  BY Zenon, <1>1, <1>8, <1>9 DEF IInv, DataInv, LateInv, QueueInv

LEMMA RunModelInv ==
  ASSUME IInv, NEW d \in Dhcids, RunModel(d)
  PROVE  IInv'
<1> DEFINE t == trans[d]
           fwd == IF Adding(d) THEN "ADDING_FWD_ADDRS_ST" ELSE "REMOVING_FWD_ADDRS_ST"
           rev == IF Adding(d) THEN "REPLACING_REV_PTRS_ST" ELSE "REMOVING_REV_PTRS_ST"
<1>1. TransInv(t) => Fits(fwd, t.ncr.change_type) /\ Fits(rev, t.ncr.change_type)
  BY Zenon DEF Fits, IoStates, Adding, TransInv, Transactions, NameChangeRequests
<1> HIDE DEF t, fwd, rev
<1>2. "READY_ST" \in States /\ "SELECTING_FWD_SERVER_ST" \in States
      /\ "SELECTING_REV_SERVER_ST" \in States /\ IoStates \subseteq States
      /\ "PROCESS_TRANS_OK_ST" \in States /\ "PROCESS_TRANS_FAILED_ST" \in States
      /\ "ADDING_FWD_ADDRS_ST" \in States /\ "REPLACING_FWD_ADDRS_ST" \in States
      /\ "REPLACING_REV_PTRS_ST" \in States /\ "REMOVING_FWD_ADDRS_ST" \in States
      /\ "REMOVING_FWD_RRS_ST" \in States /\ "REMOVING_REV_PTRS_ST" \in States
  BY Zenon DEF States, IoStates
<1>3. CASE Handle(d, "READY_ST", ReadyHandler(t))
  BY SMTT(30), <1>2, <1>3, HandleInv, OtherHandlers DEF t
<1>4. CASE Handle(d, "SELECTING_FWD_SERVER_ST", SelectingServerHandler(t, fwd))
  <2>1. TransInv(t) /\ t.curr_state = "SELECTING_FWD_SERVER_ST" =>
          Handled(SelectingServerHandler(t, fwd))
    BY Zenon, <1>1, OtherHandlers
  <2> QED
    BY SMTT(30), <1>2, <1>4, <2>1, HandleInv DEF t
<1>5. CASE Handle(d, "SELECTING_REV_SERVER_ST", SelectingServerHandler(t, rev))
  <2>1. TransInv(t) /\ t.curr_state = "SELECTING_REV_SERVER_ST" =>
          Handled(SelectingServerHandler(t, rev))
    BY SMTT(30), <1>1, OtherHandlers
  <2> QED
    BY SMTT(30), <1>2, <1>5, <2>1, HandleInv DEF t
<1>6. CASE Handle(d, "ADDING_FWD_ADDRS_ST", AddingFwdAddrsHandler(t))
  BY SMTT(30), <1>2, <1>6, HandleInv, ForwardHandlers DEF t
<1>7. CASE Handle(d, "REPLACING_FWD_ADDRS_ST", ReplacingFwdAddrsHandler(t))
  BY Zenon, <1>2, <1>7, HandleInv, ForwardHandlers DEF t
<1>8. CASE Handle(d, "REPLACING_REV_PTRS_ST", ReplacingRevPtrsHandler(t))
  BY Zenon, <1>2, <1>8, HandleInv, ReverseHandlers DEF t
<1>9. CASE Handle(d, "REMOVING_FWD_ADDRS_ST", RemovingFwdAddrsHandler(t))
  BY SMTT(30), <1>2, <1>9, HandleInv, RemovingHandlers DEF t
<1>10. CASE Handle(d, "REMOVING_FWD_RRS_ST", RemovingFwdRRsHandler(t))
  BY Zenon, <1>2, <1>10, HandleInv, RemovingHandlers DEF t
<1>11. CASE Handle(d, "REMOVING_REV_PTRS_ST", RemovingRevPtrsHandler(t))
  BY Zenon, <1>2, <1>11, HandleInv, ReverseHandlers DEF t
<1>12. CASE Handle(d, "PROCESS_TRANS_OK_ST", ProcessOkHandler(t))
  BY Zenon, <1>2, <1>12, HandleInv, OtherHandlers DEF t
<1>13. CASE Handle(d, "PROCESS_TRANS_FAILED_ST", ProcessFailedHandler(t))
  BY SMTT(30), <1>2, <1>13, HandleInv, OtherHandlers DEF t
<1> QED
  BY SMTT(30), <1>3, <1>4, <1>5, <1>6, <1>7, <1>8, <1>9, <1>10, <1>11, <1>12, <1>13
    DEF RunModel, t, fwd, rev

LEMMA CompletedInv ==
  ASSUME IInv, NEW d \in Dhcids, fetch[d].phase # "none", NEW outcome \in Outcomes,
         IoCompleted(d, outcome)
  PROVE  ListInv' /\ FetchInv'
<1> DEFINE t == [trans[d] EXCEPT !.outcome = outcome, !.next_event = "IO_COMPLETED_EVT"]
<1>1. Waits(trans[d]) /\ trans[d] # NoTransaction /\ TransInv(trans[d])
  BY Zenon, NotATransaction DEF IInv, FetchInv, ListInv, Waits
<1>2. /\ t \in Transactions /\ t.curr_state = trans[d].curr_state /\ t.ncr = trans[d].ncr
      /\ t.next_event = "IO_COMPLETED_EVT"
  BY Zenon, <1>1 DEF Waits, Transactions, Events
<1>3. trans' = [trans EXCEPT ![d] = t] /\ fetch' = [fetch EXCEPT ![d] = NoFetch]
  BY ZenonT(30) DEF IoCompleted, IInv, ListInv
<1> HIDE DEF t
<1>4. TransInv(t)
  BY Zenon, <1>1, <1>2 DEF TransInv, Waits, Accepts, IoStates, Sends
<1>5. ListInv'
  BY SMTT(30), <1>2, <1>3, <1>4 DEF IInv, ListInv
<1>6. NoFetch \in Fetches /\ NoFetch.phase = "none"
  BY Zenon DEF Fetches, NoFetch
<1>7. FetchInv'
  BY Zenon, <1>3, <1>6 DEF IInv, FetchInv, ListInv
<1> QED
  BY Zenon, <1>5, <1>7

LEMMA ReceiveInv ==
  ASSUME IInv, NEW d \in Dhcids, Receive(d)
  PROVE  IInv'
<1>1. fetch[d].phase # "none" /\ fetch[d].rcode \in Outcomes
  BY DEF Receive, IInv, FetchInv, Fetches, NoFetch, Outcomes
<1>2. ListInv' /\ FetchInv'
  BY SMTT(30), <1>1, CompletedInv DEF Receive
<1> QED
  BY Zenon, <1>2 DEF Receive, IInv, DataInv, LateInv, QueueInv

LEMMA GiveUpInv ==
  ASSUME IInv, NEW d \in Dhcids, GiveUp(d)
  PROVE  IInv'
<1>1. ListInv' /\ FetchInv'
  BY Zenon, CompletedInv DEF GiveUp, Outcomes
<1>2. LateInv'
  <2>1. CASE late' = late
    BY Zenon, <2>1 DEF GiveUp, IInv, LateInv
  <2>2. CASE /\ fetch[d].phase = "sent" /\ Cardinality(late) + overdue < MaxLate
             /\ late' = late \cup {fetch[d].message}
    <3> DEFINE m == fetch[d].message
    <3>1. m \in Messages
      BY <2>2 DEF IInv, FetchInv, Fetches, NoFetch
    <3>2. late \subseteq Messages /\ IsFiniteSet(late) /\ overdue \in Nat
      BY Zenon DEF IInv, LateInv
    <3> HIDE DEF m
    <3>3. /\ IsFiniteSet(late \cup {m}) /\ Cardinality(late) \in Nat
          /\ Cardinality(late \cup {m}) \in {Cardinality(late), Cardinality(late) + 1}
      BY SMTT(30), <3>2, FS_AddElement, FS_CardinalityType
    <3>4. late' = late \cup {m} /\ overdue' = overdue
      BY Zenon, <2>2 DEF GiveUp, m
    <3> QED
      BY SMTT(30), <2>2, <3>1, <3>2, <3>3, <3>4 DEF LateInv
  <2> QED
    BY Zenon, <2>1, <2>2 DEF GiveUp
<1> QED
  BY Zenon, <1>1, <1>2 DEF GiveUp, IInv, DataInv, QueueInv

(* The answer of a server is recorded. *)
LEMMA AnsweredInv ==
  ASSUME IInv, NEW d \in Dhcids, fetch[d].phase = "sent", NEW code \in Rcodes,
         fetch' = [fetch EXCEPT ![d] = [phase |-> "answered", message |-> fetch[d].message,
                                        rcode |-> code]],
         trans' = trans
  PROVE  FetchInv' /\ fetch[d].message \in Messages
<1> DEFINE f == [phase |-> "answered", message |-> fetch[d].message, rcode |-> code]
<1>1. fetch[d].message \in Messages /\ Waits(trans[d])
  BY DEF IInv, FetchInv, Fetches, NoFetch
<1>2. f \in Fetches
  BY Zenon, <1>1 DEF Fetches
<1> HIDE DEF f
<1>3. fetch' = [fetch EXCEPT ![d] = f]
  BY Zenon DEF f
<1> QED
  BY SMTT(30), <1>1, <1>2, <1>3 DEF IInv, FetchInv

LEMMA ServeInv ==
  ASSUME IInv, NEW d \in Dhcids, Serve(d)
  PROVE  IInv' /\ DataStep
<1> DEFINE m == Contents(fetch[d].message)
           code == check_prerequisites(db[m.name], m)
<1>1. code \in Rcodes
  BY Zenon DEF check_prerequisites, Rcodes
<1> HIDE DEF code
<1>2. FetchInv' /\ fetch[d].message \in Messages
  BY Zenon, <1>1, AnsweredInv DEF Serve, code
<1>3. DataInv' /\ DataStep
  BY Zenon, <1>2, Executed DEF Serve, IInv, QueueInv
<1> QED
  BY Zenon, <1>2, <1>3 DEF Serve, IInv, ListInv, LateInv, QueueInv

LEMMA RefuseInv ==
  ASSUME IInv, NEW d \in Dhcids, Refuse(d)
  PROVE  IInv'
<1>1. "REFUSED" \in Rcodes
  BY DEF Rcodes
<1>2. FetchInv'
  BY ZenonT(30), <1>1, AnsweredInv DEF Refuse
<1> QED
  BY Zenon, <1>2 DEF Refuse, IInv, DataInv, ListInv, LateInv, QueueInv

LEMMA ServeLateInv ==
  ASSUME IInv, NEW message \in late, ServeLate(message)
  PROVE  IInv' /\ DataStep
<1>1. DataInv' /\ DataStep
  BY Zenon, Executed DEF ServeLate, IInv, QueueInv, LateInv
<1>2. /\ late \subseteq Messages /\ IsFiniteSet(late) /\ overdue \in Nat
      /\ Cardinality(late) + overdue <= MaxLate
  BY Zenon DEF IInv, LateInv
<1>3. /\ IsFiniteSet(late \ {message}) /\ Cardinality(late) \in Nat
      /\ Cardinality(late \ {message}) = Cardinality(late) - 1
      /\ Cardinality(late \ {message}) \in Nat
  BY SMTT(30), <1>2, FS_RemoveElement, FS_CardinalityType
<1>4. late' = late \ {message} /\ overdue' = overdue + 1
  BY DEF ServeLate
<1>5. LateInv'
  BY SMTT(30), <1>2, <1>3, <1>4 DEF LateInv
<1> QED
  BY Zenon, <1>1, <1>5 DEF ServeLate, IInv, ListInv, FetchInv, QueueInv

LEMMA RequestInv ==
  ASSUME IInv, Request
  PROVE  IInv'
<1>1. /\ Head(todo) \in NameChangeRequests /\ Tail(todo) \in Seq(NameChangeRequests)
  BY DEF Request, IInv, QueueInv
<1>2. Append(queue, Head(todo)) \in Seq(NameChangeRequests)
  BY <1>1 DEF IInv, QueueInv
<1> QED
  BY Zenon, <1>1, <1>2 DEF Request, IInv, DataInv, ListInv, FetchInv, LateInv, QueueInv

LEMMA NewTransInv ==
  ASSUME NEW ncr \in NameChangeRequests
  PROVE  LET e == EnabledChanges(ncr)
         IN  NewTransaction(e) \in Transactions /\ TransInv(NewTransaction(e))
<1> DEFINE e == EnabledChanges(ncr)
           t == NewTransaction(e)
<1>1. e \in NameChangeRequests
  BY Zenon DEF EnabledChanges, NameChangeRequests
<1> HIDE DEF e
<1>2. /\ t \in Transactions /\ t.curr_state = "READY_ST" /\ t.next_event = "START_EVT"
  BY <1>1 DEF NewTransaction, Transactions, States, Events
<1> HIDE DEF t
<1>3. TransInv(t)
  BY Zenon, <1>2 DEF TransInv, Accepts, IoStates
<1> QED
  BY Zenon, <1>2, <1>3 DEF t, e

LEMMA RemovedType ==
  ASSUME NEW S, NEW s \in Seq(S), NEW i \in DOMAIN s
  PROVE  dequeueAt(s, i) \in Seq(S)
<1>1. Len(s) \in Nat /\ i \in 1 .. Len(s) /\ \A k \in 1 .. Len(s) : s[k] \in S
  OBVIOUS
<1>2. SubSeq(s, 1, i - 1) \in Seq(S) /\ SubSeq(s, i + 1, Len(s)) \in Seq(S)
  BY <1>1
<1> QED
  BY <1>2 DEF dequeueAt

LEMMA SweepInv ==
  ASSUME IInv, Sweep
  PROVE  IInv'
<1>1. /\ Unfinished \in [Dhcids -> Transactions \cup {NoTransaction}]
      /\ \A d \in Dhcids : \/ Unfinished[d] = trans[d]
                           \/ Unfinished[d] = NoTransaction /\ isModelDone(trans[d])
  <2> DEFINE T == Transactions \cup {NoTransaction}
  <2>1. trans \in [Dhcids -> T] /\ NoTransaction \in T
    BY DEF IInv, ListInv
  <2>2. \A d \in Dhcids : \/ Unfinished[d] = trans[d]
                          \/ Unfinished[d] = NoTransaction /\ isModelDone(trans[d])
    BY Zenon DEF Unfinished
  <2>3. Unfinished = [d \in Dhcids |-> Unfinished[d]]
    BY Zenon DEF Unfinished
  <2> HIDE DEF T
  <2>4. Unfinished \in [Dhcids -> T]
    BY Zenon, <2>1, <2>2, <2>3
  <2> QED
    BY Zenon, <2>2, <2>4 DEF T
<1>2. \A d \in Dhcids : Waits(trans[d]) => trans[d] # NoTransaction /\ ~isModelDone(trans[d])
  BY Zenon, NotATransaction DEF Waits, isModelDone, IoStates
<1>3. CASE trans' = Unfinished /\ UNCHANGED queue
  <2>1. ListInv'
    BY Zenon, <1>1, <1>3 DEF IInv, ListInv
  <2>2. FetchInv'
    BY Zenon, <1>1, <1>2, <1>3 DEF Sweep, IInv, FetchInv
  <2> QED
    BY Zenon, <1>3, <2>1, <2>2 DEF Sweep, IInv, DataInv, LateInv, QueueInv
<1>4. ASSUME NEW i \in Eligible(Unfinished), trans' = makeTransaction(Unfinished, queue[i]),
             queue' = dequeueAt(queue, i)
      PROVE  IInv'
  <2> DEFINE ncr == queue[i]
             t == NewTransaction(EnabledChanges(ncr))
  <2>1. /\ i \in DOMAIN queue /\ Unfinished[ncr.dhcid] = NoTransaction
        /\ queue \in Seq(NameChangeRequests)
    BY Zenon, <1>4 DEF Eligible, IInv, QueueInv
  <2>2. ncr \in NameChangeRequests /\ ncr.dhcid \in Dhcids
    <3>1. i \in 1 .. Len(queue)
      BY <2>1
    <3>2. queue[i] \in NameChangeRequests
      BY <2>1, <3>1
    <3> QED
      BY Zenon, <3>2 DEF NameChangeRequests
  <2>3. queue' \in Seq(NameChangeRequests)
    BY Zenon, <1>4, <2>1, RemovedType
  <2>4. t \in Transactions /\ TransInv(t)
    BY Zenon, <2>2, NewTransInv
  <2>5. trans' = Unfinished \/ trans' = [Unfinished EXCEPT ![ncr.dhcid] = t]
    BY Zenon, <1>4 DEF makeTransaction
  <2> HIDE DEF t, ncr
  <2>6. ListInv'
    BY SMTT(30), <1>1, <2>2, <2>4, <2>5 DEF IInv, ListInv
  <2>7. \A d \in Dhcids : Waits(trans[d]) => trans'[d] = trans[d]
    BY Zenon, <1>1, <1>2, <2>1, <2>2, <2>5 DEF ncr
  <2>8. FetchInv'
    BY Zenon, <2>7 DEF Sweep, IInv, FetchInv
  <2> QED
    BY Zenon, <2>3, <2>6, <2>8 DEF Sweep, IInv, DataInv, LateInv, QueueInv
<1> QED
  BY Zenon, <1>3, <1>4 DEF Sweep

-----------------------------------------------------------------------------
LEMMA InitInv == Init => IInv
<1> SUFFICES ASSUME Init PROVE IInv
  OBVIOUS
<1>1. DataInv
  <2>1. \A n \in Fqdns : StaticRecords[n] \subseteq {"A", "AAAA"} \X Ips
    BY StaticAssumption
  <2>2. {"A", "AAAA"} \X Ips \subseteq Records
    BY DEF Records, Types, Rdata
  <2>3. db \in [Owners -> SUBSET Records]
    BY Zenon, <2>1, <2>2 DEF Init
  <2>4. \A n \in Fqdns : db[n] \subseteq {"A", "AAAA"} \X Ips
    BY Zenon, <2>1 DEF Init, Owners
  <2>5. \A n \in Fqdns : RRset(db[n], "DHCID") = {}
    BY Zenon, <2>4 DEF RRset
  <2> QED
    BY Zenon, <2>3, <2>4, <2>5 DEF DataInv, NameInv
<1>2. ListInv
  BY Zenon DEF Init, ListInv
<1>3. FetchInv
  BY Zenon DEF Init, FetchInv, NoFetch, Fetches
<1>4. LateInv
  BY FS_EmptySet DEF Init, LateInv
<1>5. QueueInv
  BY ScriptsAssumption DEF Init, QueueInv
<1> QED
  BY <1>1, <1>2, <1>3, <1>4, <1>5 DEF IInv

LEMMA StepInv == IInv /\ [Next]_vars => IInv' /\ (DataStep \/ UNCHANGED db)
<1> SUFFICES ASSUME IInv, [Next]_vars PROVE IInv' /\ (DataStep \/ UNCHANGED db)
  OBVIOUS
<1>1. CASE UNCHANGED vars
  BY Zenon, <1>1 DEF vars, IInv, DataInv, ListInv, FetchInv, LateInv, QueueInv
<1>2. CASE Request
  BY Zenon, <1>2, RequestInv DEF Request
<1>3. CASE Sweep
  BY SMTT(30), <1>3, SweepInv DEF Sweep
<1>4. ASSUME NEW d \in Dhcids, RunModel(d) PROVE IInv' /\ UNCHANGED db
  BY ZenonT(30), <1>4, RunModelInv DEF RunModel, Handle
<1>5. ASSUME NEW d \in Dhcids, Receive(d) PROVE IInv' /\ UNCHANGED db
  BY Zenon, <1>5, ReceiveInv DEF Receive
<1>6. ASSUME NEW d \in Dhcids, GiveUp(d) PROVE IInv' /\ UNCHANGED db
  BY Zenon, <1>6, GiveUpInv DEF GiveUp
<1>7. ASSUME NEW d \in Dhcids, Serve(d) PROVE IInv' /\ DataStep
  BY Zenon, <1>7, ServeInv
<1>8. ASSUME NEW d \in Dhcids, Refuse(d) PROVE IInv' /\ UNCHANGED db
  BY ZenonT(30), <1>8, RefuseInv DEF Refuse
<1>9. ASSUME NEW message \in late, ServeLate(message) PROVE IInv' /\ DataStep
  BY Zenon, <1>9, ServeLateInv
<1> QED
  BY SMTT(30), <1>1, <1>2, <1>3, <1>4, <1>5, <1>6, <1>7, <1>8, <1>9 DEF Next

LEMMA Invariance == Spec => []IInv
BY InitInv, StepInv, PTL DEF Spec

(* Every transaction, fetch and message is well formed: the tries never    *)
(* exceed MAX_UPDATE_TRIES_PER_SERVER and the server position never the    *)
(* number of servers.                                                      *)
THEOREM TypeCorrect == Spec => []TypeOK
<1>1. IInv => overdue \in 0 .. MaxLate
  BY FS_CardinalityType DEF IInv, LateInv
<1>2. IInv => TypeOK
  BY SMTT(30), <1>1 DEF IInv, DataInv, ListInv, FetchInv, LateInv, QueueInv, TypeOK
<1> QED
  BY <1>2, Invariance, PTL

(* No handler of NameAddTransaction or NameRemoveTransaction ever meets an *)
(* event it does not expect, whatever the servers answer or do not.        *)
THEOREM TransactionsNeverAbort == Spec => []NeverAborts
<1>1. ASSUME IInv, NEW d \in Dhcids, isModelDone(trans[d])
      PROVE  trans[d].next_event # "FAIL_EVT"
  <2>1. TransInv(trans[d]) /\ trans[d].curr_state = "END_ST"
    BY Zenon, <1>1, NotATransaction DEF IInv, ListInv, isModelDone
  <2> QED
    BY Zenon, <2>1 DEF TransInv, Accepts
<1>2. IInv => NeverAborts
  BY Zenon, <1>1 DEF NeverAborts
<1> QED
  BY <1>2, Invariance, PTL

(* Transactions implement NameRegistry: whatever requests run at the same  *)
(* time, are repeated, refused, lost or executed late, only a free name is *)
(* claimed, only its owner changes it, and a name without a DHCID record   *)
(* set up by hand is never touched.                                        *)
THEOREM Implements == Spec => RegistrySpec
<1> DEFINE owner == [n \in Fqdns |-> Owner(n)]
           addresses == [n \in Fqdns |-> AddressesOf(n)]
<1>1. /\ owner = [n \in Fqdns |-> OwnerOf(db[n])]
      /\ owner' = [n \in Fqdns |-> OwnerOf(db'[n])]
      /\ addresses = [n \in Fqdns |-> AddressesIn(db[n])]
      /\ addresses' = [n \in Fqdns |-> AddressesIn(db'[n])]
  BY Zenon DEF Owner, AddressesOf, OwnerOf, AddressesIn
<1>2. Init => Registry!Init
  <2> SUFFICES ASSUME Init PROVE Registry!Init
    OBVIOUS
  <2>1. \A n \in Fqdns : db[n] = StaticRecords[n] /\ StaticRecords[n] \in SUBSET ({"A", "AAAA"} \X Ips)
    BY Zenon, StaticAssumption DEF Init, Owners
  <2>2. \A n \in Fqdns : RRset(db[n], "DHCID") = {}
    BY <2>1 DEF RRset
  <2>3. \A n \in Fqdns : Owner(n) \in {"nobody", "admin"} /\ (Owner(n) = "nobody" => db[n] = {})
    BY Zenon, <2>2 DEF Owner
  <2>4. \A n \in Fqdns : AddressesOf(n) \subseteq Ips
    BY <2>1 DEF AddressesOf, RRset
  <2>5. \A n \in Fqdns : db[n] = {} => AddressesOf(n) = {}
    BY SMTT(30) DEF AddressesOf, RRset
  <2> QED
    BY Zenon, <2>3, <2>4, <2>5 DEF Registry!Init
<1>3. ASSUME IInv, DataStep \/ UNCHANGED db
      PROVE  [Registry!Next]_(Registry!vars)
  <2> SUFFICES ASSUME ~(owner' = owner /\ addresses' = addresses)
               PROVE  Registry!Next
    BY Zenon DEF Registry!vars
  <2>1. PICK n \in Fqdns : /\ Allowed(db[n], db'[n])
                           /\ \A k \in Fqdns \ {n} : db'[k] = db[k]
    <3>1. ASSUME \A k \in Fqdns : db'[k] = db[k]
          PROVE  owner' = owner /\ addresses' = addresses
      <4> HIDE DEF owner, addresses
      <4> QED
        BY Zenon, <1>1, <3>1
    <3> QED
      BY Zenon, <1>3, <3>1 DEF DataStep
  <2>2. /\ owner' = [owner EXCEPT ![n] = OwnerOf(db'[n])]
        /\ addresses' = [addresses EXCEPT ![n] = AddressesIn(db'[n])]
    <3> HIDE DEF owner, addresses
    <3>1. \A k \in Fqdns : k # n => /\ OwnerOf(db'[k]) = OwnerOf(db[k])
                                    /\ AddressesIn(db'[k]) = AddressesIn(db[k])
      BY Zenon, <2>1
    <3>2. owner' = [owner EXCEPT ![n] = OwnerOf(db'[n])]
      BY SMTT(30), <1>1, <3>1
    <3>3. addresses' = [addresses EXCEPT ![n] = AddressesIn(db'[n])]
      BY Zenon, <1>1, <3>1
    <3> QED
      BY Zenon, <3>2, <3>3
  <2>3. AddressesIn(db[n]) \subseteq Ips
    BY Zenon, <1>3 DEF IInv, DataInv, NameInv, AddressesIn, RRset
  <2>4. PICK c \in Dhcids, a \in Ips :
          \/ /\ OwnerOf(db[n]) = "nobody"
             /\ OwnerOf(db'[n]) = c /\ AddressesIn(db'[n]) = {a}
          \/ /\ OwnerOf(db[n]) = c /\ OwnerOf(db'[n]) = c
             /\ \/ \E keep \in SUBSET AddressesIn(db[n]) : AddressesIn(db'[n]) = keep \cup {a}
                \/ AddressesIn(db'[n]) = AddressesIn(db[n]) \ {a}
          \/ /\ OwnerOf(db[n]) = c /\ AddressesIn(db[n]) = {}
             /\ OwnerOf(db'[n]) = "nobody" /\ AddressesIn(db'[n]) = {}
    BY <2>1, Zenon DEF Allowed
  <2>5. owner[n] = OwnerOf(db[n]) /\ addresses[n] = AddressesIn(db[n])
    BY Zenon, <1>1
  <2>6. DOMAIN owner = Fqdns /\ DOMAIN addresses = Fqdns
        /\ owner = [k \in Fqdns |-> owner[k]] /\ addresses = [k \in Fqdns |-> addresses[k]]
    BY Zenon
  <2>7. CASE OwnerOf(db[n]) = "nobody" /\ OwnerOf(db'[n]) = c /\ AddressesIn(db'[n]) = {a}
    <3>1. Registry!Claim(c, n, a)
      BY SMTT(30), <2>2, <2>5, <2>7 DEF Registry!Claim
    <3> QED
      BY Zenon, <3>1 DEF Registry!Next
  <2>8. ASSUME OwnerOf(db[n]) = c, OwnerOf(db'[n]) = c PROVE owner' = owner
    BY ZenonT(30), <2>2, <2>5, <2>6, <2>8
  <2>9. CASE /\ OwnerOf(db[n]) = c /\ OwnerOf(db'[n]) = c
             /\ \E keep \in SUBSET AddressesIn(db[n]) : AddressesIn(db'[n]) = keep \cup {a}
    <3>1. PICK keep \in SUBSET AddressesIn(db[n]) : AddressesIn(db'[n]) = keep \cup {a}
      BY SMTT(30), <2>9
    <3>2. Registry!Replace(c, n, a, keep)
      BY ZenonT(30), <2>2, <2>5, <2>8, <2>9, <3>1 DEF Registry!Replace
    <3> QED
      BY Zenon, <2>3, <3>1, <3>2 DEF Registry!Next
  <2>10. CASE /\ OwnerOf(db[n]) = c /\ OwnerOf(db'[n]) = c
              /\ AddressesIn(db'[n]) = AddressesIn(db[n]) \ {a}
    <3>1. Registry!Withdraw(c, n, a)
      BY Zenon, <2>2, <2>5, <2>8, <2>10 DEF Registry!Withdraw
    <3> QED
      BY Zenon, <3>1 DEF Registry!Next
  <2>11. CASE /\ OwnerOf(db[n]) = c /\ AddressesIn(db[n]) = {}
              /\ OwnerOf(db'[n]) = "nobody" /\ AddressesIn(db'[n]) = {}
    <3>1. addresses' = addresses
      BY ZenonT(30), <2>2, <2>5, <2>6, <2>11
    <3>2. Registry!Release(c, n)
      BY Zenon, <2>2, <2>5, <2>11, <3>1 DEF Registry!Release
    <3> QED
      BY SMTT(30), <3>2 DEF Registry!Next
  <2> QED
    BY Zenon, <2>4, <2>7, <2>9, <2>10, <2>11
<1>4. IInv /\ [Next]_vars => [Registry!Next]_(Registry!vars)
  BY <1>3, StepInv
<1> QED
  BY <1>2, <1>4, Invariance, PTL DEF Spec, RegistrySpec, Registry!Spec

-----------------------------------------------------------------------------
(* What a change has to leave in the data at its name, which ForwardStands *)
(* and ReverseStands say of the zone.                                      *)
Alone(data, rr, by) == RRset(data, rr[1]) = {rr} \/ (by /\ RRset(data, rr[1]) = {})
FwdIn(data, ncr, by) ==
  IF ncr.change_type = "CHG_ADD"
    THEN DhcidRecord(ncr) \in data /\ Alone(data, LeaseAddress(ncr), by)
    ELSE DhcidRecord(ncr) \notin data \/ LeaseAddress(ncr) \notin data
RevIn(data, ncr, by) ==
  IF ncr.change_type = "CHG_ADD" THEN Alone(data, PtrRecord(ncr), by)
                                 ELSE PtrRecord(ncr) \notin data

(* The same in a world w, which is the zone and the kind of its servers *)
World == <<db, session>>
Fwd(w, ncr) == FwdIn(w[1][ncr.fqdn], ncr, w[2])
Rev(w, ncr) == ncr.reverse /\ OfOneClient(ncr.ip) => RevIn(w[1][ncr.ip], ncr, w[2])

AddStates == {"ADDING_FWD_ADDRS_ST", "REPLACING_FWD_ADDRS_ST", "REPLACING_REV_PTRS_ST"}
RemoveStates == {"REMOVING_FWD_ADDRS_ST", "REMOVING_FWD_RRS_ST", "REMOVING_REV_PTRS_ST"}
RevStates == {"SELECTING_REV_SERVER_ST", "REPLACING_REV_PTRS_ST", "REMOVING_REV_PTRS_ST"}

(* What has to be true of a transaction that enters state s *)
MayEnter(t, s, w) ==
  /\ s \in RevStates => t.ncr.reverse
  /\ s \in RevStates \cup {"PROCESS_TRANS_OK_ST"} =>
       (t.ncr.forward => t.forward_change_completed)
  /\ s = "PROCESS_TRANS_OK_ST" => (t.ncr.reverse => t.reverse_change_completed)
  /\ s \in AddStates => t.ncr.change_type = "CHG_ADD"
  /\ s \in RemoveStates => t.ncr.change_type = "CHG_REMOVE"
  /\ s = "REMOVING_FWD_RRS_ST" => Fwd(w, t.ncr)

(* What the answer code to the request of state s says *)
FwdSettled(s, code) ==
  \/ s \in {"ADDING_FWD_ADDRS_ST", "REPLACING_FWD_ADDRS_ST"} /\ code = "NOERROR"
  \/ s = "REMOVING_FWD_ADDRS_ST" /\ code \in {"NOERROR", "NXRRSET"}
RevSettled(s, code) ==
  \/ s = "REPLACING_REV_PTRS_ST" /\ code = "NOERROR"
  \/ s = "REMOVING_REV_PTRS_ST" /\ code \in {"NOERROR", "NXRRSET"}
Settles(s, code, ncr, w) ==
  /\ FwdSettled(s, code) => Fwd(w, ncr)
  /\ RevSettled(s, code) => Rev(w, ncr)

(* The flags of a transaction tell the truth, in whatever state it is. *)
Truthful(t, w) ==
  /\ t.ncr.forward \/ t.ncr.reverse
  /\ t.forward_change_completed => Fwd(w, t.ncr)
  /\ t.reverse_change_completed => Rev(w, t.ncr)
  /\ t.result = "ST_COMPLETED" => /\ t.ncr.forward => t.forward_change_completed
                                  /\ t.ncr.reverse => t.reverse_change_completed

Sound(t, w) ==
  /\ Truthful(t, w)
  /\ MayEnter(t, t.curr_state, w)
  /\ t.curr_state \in IoStates => t.on_entry \/ t.request \in {"none", t.curr_state}
  /\ Settles(t.curr_state, t.outcome, t.ncr, w)

(* The request of transaction t *)
MessageOf(t) == [request |-> t.curr_state, ncr |-> t.ncr]

(* A request for the reverse name comes from script s. *)
AskedIn(s, ncr) ==
  ncr.reverse => \E i \in DOMAIN s.requests : /\ s.requests[i].reverse
                                              /\ s.requests[i].ip = ncr.ip
                                              /\ s.requests[i].dhcid = ncr.dhcid

SoundInv == \A d \in Dhcids : trans[d] # NoTransaction =>
              trans[d].ncr.dhcid = d /\ Sound(trans[d], World)
WireInv == \A d \in Dhcids : fetch[d].phase # "none" =>
             /\ fetch[d].message = MessageOf(trans[d])
             /\ fetch[d].phase = "answered" =>
                  Settles(trans[d].curr_state, fetch[d].rcode, trans[d].ncr, World)
OnePtr(data) == \A rr, ss \in data : rr[1] = "PTR" /\ ss[1] = "PTR" => rr = ss
PtrInv == \A ip \in Ips : OnePtr(db[ip])
AskedInv == \E s \in Scripts :
              /\ \A i \in DOMAIN todo : AskedIn(s, todo[i])
              /\ \A i \in DOMAIN queue : AskedIn(s, queue[i])
              /\ \A d \in Dhcids : trans[d] # NoTransaction => AskedIn(s, trans[d].ncr)

(* Until a request is executed late, all of this holds. *)
PromptInv == SoundInv /\ WireInv /\ PtrInv /\ AskedInv
DoneInv == overdue = 0 => PromptInv

(* The data that a server leaves after message m *)
After(data, m, by) ==
  IF check_prerequisites(data, m) = "NOERROR" THEN do_update(data, m, by) ELSE data

LEMMA RecordTypes ==
  ASSUME NEW ncr \in NameChangeRequests
  PROVE  /\ LeaseAddress(ncr)[1] = getAddressRRType(ncr)
         /\ getAddressRRType(ncr) \in {"A", "AAAA"}
         /\ DhcidRecord(ncr)[1] = "DHCID" /\ DhcidRecord(ncr)[2] = ncr.dhcid
         /\ PtrRecord(ncr)[1] = "PTR"
BY DEF LeaseAddress, DhcidRecord, PtrRecord, getAddressRRType

(* A client's own requests for its forward name: the answer tells what the *)
(* zone holds, and none of them undoes what was done.                      *)
LEMMA AddMakes ==
  ASSUME NEW data, NEW ncr \in NameChangeRequests, NEW by \in BOOLEAN,
         ncr.change_type = "CHG_ADD"
  PROVE  LET m == buildAddFwdAddressRequest(ncr)
             new == After(data, m, by)
         IN  /\ check_prerequisites(data, m) = "NOERROR" => FwdIn(new, ncr, by)
             /\ FwdIn(data, ncr, by) => FwdIn(new, ncr, by)
<1> DEFINE m == buildAddFwdAddressRequest(ncr)
           new == After(data, m, by)
           l == LeaseAddress(ncr)
           r == DhcidRecord(ncr)
<1>1. m.not_in_use /\ m.add = {l, r}
  BY DEF buildAddFwdAddressRequest, prepNewRequest
<1>2. l[1] # r[1]
  BY RecordTypes
<1> HIDE DEF m, l, r
<1>3. ASSUME check_prerequisites(data, m) = "NOERROR" PROVE FwdIn(new, ncr, by)
  <2>1. data = {}
    BY <1>1, <1>3 DEF check_prerequisites
  <2>2. new = {l, r}
    BY <1>1, <1>3, <2>1 DEF After, do_update, Deleted
  <2>3. r \in new /\ RRset(new, l[1]) = {l}
    BY <1>2, <2>2 DEF RRset
  <2> QED
    BY <2>3 DEF FwdIn, Alone, l, r
<1>4. check_prerequisites(data, m) # "NOERROR" => new = data
  BY DEF After
<1> QED
  BY <1>3, <1>4 DEF m

LEMMA ReplaceMakes ==
  ASSUME NEW data, NEW ncr \in NameChangeRequests, NEW by \in BOOLEAN,
         ncr.change_type = "CHG_ADD"
  PROVE  LET m == buildReplaceFwdAddressRequest(ncr)
             new == After(data, m, by)
         IN  /\ check_prerequisites(data, m) = "NOERROR" => FwdIn(new, ncr, by)
             /\ FwdIn(data, ncr, by) => FwdIn(new, ncr, by)
<1> DEFINE m == buildReplaceFwdAddressRequest(ncr)
           new == After(data, m, by)
           l == LeaseAddress(ncr)
           r == DhcidRecord(ncr)
<1>1. /\ m.match = {r} /\ m.add = {l} /\ m.delete_rrsets = {l[1]} /\ m.delete_rrs = {}
  BY RecordTypes DEF buildReplaceFwdAddressRequest, prepNewRequest
<1>2. l[1] # r[1]
  BY RecordTypes
<1> HIDE DEF m, l, r
<1>3. ASSUME check_prerequisites(data, m) = "NOERROR" PROVE FwdIn(new, ncr, by)
  <2>1. RRset(data, r[1]) = {r}
    BY <1>1, <1>3 DEF check_prerequisites
  <2>2. new = {rr \in data : rr[1] # l[1]} \cup (IF by THEN {l} \ data ELSE {l})
    BY <1>1, <1>3 DEF After, do_update, Deleted
  <2>3. r \in new
    BY <1>2, <2>1, <2>2 DEF RRset
  <2>4. RRset(new, l[1]) = {l} \/ (by /\ RRset(new, l[1]) = {})
    BY <2>2 DEF RRset
  <2> QED
    BY <2>3, <2>4 DEF FwdIn, Alone, l, r
<1>4. check_prerequisites(data, m) # "NOERROR" => new = data
  BY DEF After
<1> QED
  BY <1>3, <1>4 DEF m

LEMMA RemoveAddressMakes ==
  ASSUME NEW data, NameInv(data), NEW ncr \in NameChangeRequests, NEW by \in BOOLEAN,
         ncr.change_type = "CHG_REMOVE"
  PROVE  LET m == buildRemoveFwdAddressRequest(ncr)
             new == After(data, m, by)
         IN  /\ check_prerequisites(data, m) \in {"NOERROR", "NXRRSET"} => FwdIn(new, ncr, by)
             /\ FwdIn(data, ncr, by) => FwdIn(new, ncr, by)
<1> DEFINE m == buildRemoveFwdAddressRequest(ncr)
           new == After(data, m, by)
           l == LeaseAddress(ncr)
           r == DhcidRecord(ncr)
<1>1. /\ m.match = {r} /\ m.add = {} /\ m.delete_rrs = {l} /\ m.absent = {}
      /\ ~m.not_in_use /\ ~m.in_use
  BY DEF buildRemoveFwdAddressRequest, prepNewRequest
<1>2. r[1] = "DHCID"
  BY RecordTypes
<1> HIDE DEF m, l, r
<1>3. ASSUME check_prerequisites(data, m) = "NOERROR" PROVE FwdIn(new, ncr, by)
  <2>1. l \notin new
    BY <1>1, <1>3 DEF After, do_update, Deleted
  <2> QED
    BY <2>1 DEF FwdIn, l
<1>4. ASSUME check_prerequisites(data, m) # "NOERROR" PROVE r \notin data /\ new = data
  <2>1. RRset(data, r[1]) # {r}
    BY <1>1, <1>4 DEF check_prerequisites
  <2>2. r \in data => RRset(data, r[1]) = {r}
    BY <1>2 DEF NameInv, OwnedInv, RRset
  <2> QED
    BY <1>4, <2>1, <2>2 DEF After
<1>5. check_prerequisites(data, m) # "NOERROR" => FwdIn(new, ncr, by)
  BY <1>4 DEF FwdIn, r
<1> QED
  BY <1>3, <1>5 DEF m

LEMMA RemoveNameKeeps ==
  ASSUME NEW data, NEW ncr \in NameChangeRequests, NEW by \in BOOLEAN,
         ncr.change_type = "CHG_REMOVE"
  PROVE  LET new == After(data, buildRemoveFwdRRsRequest(ncr), by)
         IN  FwdIn(data, ncr, by) => FwdIn(new, ncr, by)
<1> DEFINE m == buildRemoveFwdRRsRequest(ncr)
           new == After(data, m, by)
<1>1. m.add = {}
  BY DEF buildRemoveFwdRRsRequest, prepNewRequest
<1> HIDE DEF m
<1>2. new \subseteq data
  BY <1>1 DEF After, do_update, Deleted
<1> QED
  BY <1>2 DEF FwdIn, m

(* Another client's request leaves what was done for this one. *)
LEMMA OthersKeep ==
  ASSUME NEW data, NEW ncr \in NameChangeRequests, NEW by \in BOOLEAN,
         NEW other \in NameChangeRequests, other.dhcid # ncr.dhcid,
         NEW m \in {buildAddFwdAddressRequest(other), buildReplaceFwdAddressRequest(other),
                    buildRemoveFwdAddressRequest(other), buildRemoveFwdRRsRequest(other)}
  PROVE  FwdIn(data, ncr, by) => FwdIn(After(data, m, by), ncr, by)
<1> DEFINE new == After(data, m, by)
           r == DhcidRecord(ncr)
           o == DhcidRecord(other)
           l == LeaseAddress(other)
<1>1. m.add \subseteq {l, o} /\ (m.not_in_use \/ m.match = {o})
  <2>1. CASE m = buildAddFwdAddressRequest(other)
    BY <2>1 DEF buildAddFwdAddressRequest, prepNewRequest
  <2>2. CASE m = buildReplaceFwdAddressRequest(other)
    BY <2>2 DEF buildReplaceFwdAddressRequest, prepNewRequest
  <2>3. CASE m = buildRemoveFwdAddressRequest(other)
    BY <2>3 DEF buildRemoveFwdAddressRequest, prepNewRequest
  <2>4. CASE m = buildRemoveFwdRRsRequest(other)
    BY <2>4 DEF buildRemoveFwdRRsRequest, prepNewRequest
  <2> QED
    BY <2>1, <2>2, <2>3, <2>4
<1>2. r # o /\ r # l /\ r[1] = o[1]
  BY RecordTypes
<1> HIDE DEF r, o, l
<1>3. ASSUME check_prerequisites(data, m) = "NOERROR" PROVE r \notin data /\ r \notin new
  <2>1. data = {} \/ RRset(data, o[1]) = {o}
    BY <1>1, <1>3 DEF check_prerequisites
  <2>2. r \notin data
    BY <1>2, <2>1 DEF RRset
  <2>3. new \subseteq data \cup m.add
    BY <1>3 DEF After, do_update
  <2> QED
    BY <1>1, <1>2, <2>2, <2>3
<1>4. check_prerequisites(data, m) # "NOERROR" => new = data
  BY DEF After
<1> HIDE DEF new
<1>5. r \notin data /\ r \notin new => (FwdIn(data, ncr, by) => FwdIn(new, ncr, by))
  BY DEF FwdIn, r
<1> QED
  BY <1>3, <1>4, <1>5 DEF new

(* A client's own requests for its reverse name *)
LEMMA ReplacePtrMakes ==
  ASSUME NEW data, NEW ncr \in NameChangeRequests, NEW by \in BOOLEAN
  PROVE  LET new == After(data, buildReplaceRevPtrsRequest(ncr), by)
         IN  /\ OnePtr(new)
             /\ ncr.change_type = "CHG_ADD" => RevIn(new, ncr, by)
<1> DEFINE m == buildReplaceRevPtrsRequest(ncr)
           new == After(data, m, by)
           p == PtrRecord(ncr)
           r == DhcidRecord(ncr)
<1>1. /\ m.match = {} /\ m.add = {p, r} /\ m.delete_rrsets = {"PTR", "DHCID"}
      /\ m.delete_rrs = {} /\ m.absent = {} /\ ~m.not_in_use /\ ~m.in_use
  BY DEF buildReplaceRevPtrsRequest, prepNewRequest
<1>2. p[1] = "PTR" /\ r[1] = "DHCID"
  BY RecordTypes
<1> HIDE DEF m, p, r
<1>3. new = {rr \in data : rr[1] \notin {"PTR", "DHCID"}}
              \cup (IF by THEN {p, r} \ data ELSE {p, r})
  BY <1>1 DEF After, check_prerequisites, do_update, Deleted
<1> HIDE DEF new
<1>4. OnePtr(new)
  BY <1>2, <1>3 DEF OnePtr
<1>5. RRset(new, p[1]) = {p} \/ (by /\ RRset(new, p[1]) = {})
  BY <1>2, <1>3 DEF RRset
<1>6. ncr.change_type = "CHG_ADD" => RevIn(new, ncr, by)
  BY <1>5 DEF RevIn, Alone, p
<1> QED
  BY <1>4, <1>6 DEF new, m

LEMMA RemovePtrMakes ==
  ASSUME NEW data, data \subseteq Records, OnePtr(data),
         NEW ncr \in NameChangeRequests, NEW by \in BOOLEAN
  PROVE  LET new == After(data, buildRemoveRevPtrsRequest(ncr), by)
         IN  /\ OnePtr(new)
             /\ ncr.change_type = "CHG_REMOVE" => RevIn(new, ncr, by)
<1> DEFINE m == buildRemoveRevPtrsRequest(ncr)
           new == After(data, m, by)
           p == PtrRecord(ncr)
<1>1. /\ m.match = {p} /\ m.add = {} /\ m.delete_rrsets = Types
      /\ m.delete_rrs = {} /\ m.absent = {} /\ ~m.not_in_use /\ ~m.in_use
  BY DEF buildRemoveRevPtrsRequest, prepNewRequest
<1>2. p[1] = "PTR"
  BY RecordTypes
<1> HIDE DEF m, p
<1>3. CASE RRset(data, p[1]) = {p}
  <2>1. new = {}
    BY <1>1, <1>3 DEF After, check_prerequisites, do_update, Deleted, Records
  <2> QED
    BY <2>1 DEF OnePtr, RevIn, m
<1>4. CASE RRset(data, p[1]) # {p}
  <2>1. new = data
    BY <1>1, <1>4 DEF After, check_prerequisites
  <2>2. p \notin data
    BY <1>2, <1>4 DEF OnePtr, RRset
  <2> QED
    BY <2>1, <2>2 DEF RevIn, m, p
<1> QED
  BY <1>3, <1>4

-----------------------------------------------------------------------------
(* What a handler leaves of a transaction for request ncr *)
Follows(u, ncr, w) ==
  /\ u.ncr = ncr /\ Sound(u, w)
  /\ isModelWaiting(u) => u.request = u.curr_state

(* Two states of a transaction with the same claims *)
SameClaims(t, u) ==
  /\ u.ncr = t.ncr /\ u.result = t.result
  /\ u.forward_change_completed = t.forward_change_completed
  /\ u.reverse_change_completed = t.reverse_change_completed

LEMMA TransitionClaims ==
  ASSUME NEW t \in Transactions, NEW s \in States, NEW e \in Events
  PROVE  LET u == transition(t, s, e)
         IN  /\ SameClaims(t, u) /\ u.outcome = "none" /\ u.request = t.request
             /\ u.curr_state = s /\ u.next_event = e
             /\ u.on_entry = (s # "END_ST" /\ s # t.curr_state)
BY Zenon DEF transition, Transactions, SameClaims

LEMMA ClaimsCarry ==
  ASSUME NEW t, NEW u, SameClaims(t, u), NEW w
  PROVE  /\ Truthful(t, w) => Truthful(u, w)
         /\ \A s : MayEnter(t, s, w) => MayEnter(u, s, w)
BY DEF SameClaims, Truthful, MayEnter

LEMMA NothingSettled ==
  ASSUME NEW s, NEW code \in {"none", "IO_ERROR"}, NEW ncr, NEW w
  PROVE  Settles(s, code, ncr, w)
BY DEF Settles, FwdSettled, RevSettled

(* A transaction enters state s. *)
LEMMA Enters ==
  ASSUME NEW t \in Transactions, NEW s \in States, s # t.curr_state,
         NEW e \in Events \ {"NOP_EVT"}, NEW w, Truthful(t, w), MayEnter(t, s, w)
  PROVE  Follows(transition(t, s, e), t.ncr, w)
<1> DEFINE u == transition(t, s, e)
<1>1. /\ SameClaims(t, u) /\ u.outcome = "none" /\ u.curr_state = s /\ u.next_event = e
      /\ u.on_entry = (s # "END_ST" /\ s # t.curr_state)
  BY TransitionClaims
<1> HIDE DEF u
<1>2. Truthful(u, w) /\ MayEnter(u, u.curr_state, w)
  BY <1>1, ClaimsCarry
<1>3. s \in IoStates => u.on_entry
  BY ZenonT(30), <1>1 DEF IoStates
<1>4. Settles(u.curr_state, u.outcome, u.ncr, w)
  BY <1>1, NothingSettled
<1>5. Sound(u, w)
  BY <1>1, <1>2, <1>3, <1>4 DEF Sound
<1>6. ~isModelWaiting(u) /\ u.ncr = t.ncr
  BY <1>1 DEF isModelWaiting, SameClaims
<1> QED
  BY <1>5, <1>6 DEF Follows, u

(* The state's work is begun, or goes on. *)
LEMMA EnteredSound ==
  ASSUME NEW t, TransInv(t), NEW w, Sound(t, w)
  PROVE  LET u == doOnEntry(t)
         IN  /\ u \in Transactions /\ SameClaims(t, u) /\ u.curr_state = t.curr_state
             /\ u.next_event = t.next_event /\ u.outcome = t.outcome
             /\ Truthful(u, w) /\ MayEnter(u, u.curr_state, w)
             /\ Settles(u.curr_state, u.outcome, u.ncr, w)
             /\ u.curr_state \in IoStates => u.request \in {"none", u.curr_state}
<1> DEFINE u == doOnEntry(t)
<1>1. t \in Transactions
  BY DEF TransInv
<1>2. /\ u \in Transactions /\ u.curr_state = t.curr_state
      /\ u.next_event = t.next_event /\ u.outcome = t.outcome
  BY Entered
<1>3. SameClaims(t, u) /\ (t.on_entry => u.request = "none") /\ (~t.on_entry => u = t)
  <2>1. CASE t.on_entry
    BY Zenon, <1>1, <2>1 DEF doOnEntry, clearDnsUpdateRequest, Transactions, SameClaims
  <2>2. CASE ~t.on_entry
    BY Zenon, <2>2 DEF doOnEntry, SameClaims
  <2> QED
    BY <2>1, <2>2
<1> HIDE DEF u
<1>4. Truthful(u, w) /\ MayEnter(u, u.curr_state, w)
  BY <1>2, <1>3, ClaimsCarry DEF Sound
<1>5. Settles(u.curr_state, u.outcome, u.ncr, w)
  BY <1>2, <1>3 DEF Sound, SameClaims
<1>6. u.curr_state \in IoStates => u.request \in {"none", u.curr_state}
  BY <1>2, <1>3 DEF Sound
<1> QED
  BY <1>2, <1>3, <1>4, <1>5, <1>6 DEF u

(* What the handlers of the states that send a request have in common *)
LEMMA IoFollows ==
  ASSUME NEW t, TransInv(t), NEW w, Sound(t, w), t.curr_state \in IoStates,
         t.next_event \in Sends(t.curr_state) \cup {"IO_COMPLETED_EVT"},
         NEW answered, Follows(answered, t.ncr, w),
         NEW s \in States \ IoStates, MayEnter(t, s, w)
  PROVE  Follows(IoHandler(doOnEntry(t), Sends(t.curr_state), answered, s), t.ncr, w)
<1> DEFINE u == doOnEntry(t)
           r == IoHandler(u, Sends(t.curr_state), answered, s)
<1>1. /\ u \in Transactions /\ SameClaims(t, u) /\ u.curr_state = t.curr_state
      /\ u.next_event = t.next_event
      /\ Truthful(u, w) /\ MayEnter(u, u.curr_state, w)
      /\ Settles(u.curr_state, u.outcome, u.ncr, w)
      /\ u.request \in {"none", u.curr_state}
  BY Zenon, EnteredSound
<1>2. MayEnter(u, s, w) /\ u.ncr = t.ncr
  BY <1>1, ClaimsCarry DEF SameClaims
<1>3. /\ u.next_event \in Sends(t.curr_state) => r = sendUpdate(u)
      /\ u.next_event \notin Sends(t.curr_state) => r \in {answered, retryTransition(u, s)}
  BY Zenon, <1>1 DEF IoHandler
<1> HIDE DEF u
<1>4. Follows(sendUpdate(u), t.ncr, w)
  <2> DEFINE v == sendUpdate(u)
  <2>1. /\ SameClaims(u, v) /\ v.curr_state = u.curr_state /\ v.outcome = u.outcome
        /\ v.request = IF u.request = "none" THEN u.curr_state ELSE u.request
    BY <1>1 DEF sendUpdate, SameClaims, Transactions
  <2> HIDE DEF v
  <2>2. v.request = v.curr_state
    BY <1>1, <2>1
  <2>3. Truthful(v, w) /\ MayEnter(v, v.curr_state, w)
    BY Zenon, <1>1, <2>1, ClaimsCarry
  <2>4. v.ncr = t.ncr /\ Settles(v.curr_state, v.outcome, v.ncr, w)
    BY Zenon, <1>1, <1>2, <2>1 DEF SameClaims
  <2> QED
    BY Zenon, <2>2, <2>3, <2>4 DEF Follows, Sound, v
<1>5. Follows(retryTransition(u, s), t.ncr, w)
  <2>1. CASE u.update_attempts < MaxTries
    <3> DEFINE v == transition(u, u.curr_state, "SERVER_SELECTED_EVT")
    <3>1. u.curr_state \in States /\ "SERVER_SELECTED_EVT" \in Events
      BY <1>1 DEF Transactions, Events
    <3>2. /\ SameClaims(u, v) /\ v.outcome = "none" /\ v.request = u.request
          /\ v.curr_state = u.curr_state /\ v.next_event = "SERVER_SELECTED_EVT"
      BY <1>1, <3>1, TransitionClaims
    <3> HIDE DEF v
    <3>3. Truthful(v, w) /\ MayEnter(v, v.curr_state, w)
      BY <1>1, <3>2, ClaimsCarry
    <3>4. Settles(v.curr_state, v.outcome, v.ncr, w)
      BY Zenon, <3>2, NothingSettled
    <3>5. v.ncr = t.ncr /\ v.request \in {"none", v.curr_state} /\ ~isModelWaiting(v)
      BY Zenon, <1>1, <1>2, <3>2 DEF SameClaims, isModelWaiting
    <3>6. Follows(v, t.ncr, w)
      BY Zenon, <3>3, <3>4, <3>5 DEF Follows, Sound
    <3> QED
      BY <2>1, <3>6 DEF retryTransition, v
  <2>2. CASE ~(u.update_attempts < MaxTries)
    <3>1. s # u.curr_state /\ "SERVER_IO_ERROR_EVT" \in Events \ {"NOP_EVT"}
      BY <1>1 DEF Events
    <3>2. Follows(transition(u, s, "SERVER_IO_ERROR_EVT"), u.ncr, w)
      BY <1>1, <1>2, <3>1, Enters
    <3> QED
      BY <1>2, <2>2, <3>2 DEF retryTransition
  <2> QED
    BY <2>1, <2>2
<1> QED
  BY <1>3, <1>4, <1>5 DEF u

(* What comes after an answer, which is the truth about the zone *)
LEMMA AnswerFollows ==
  ASSUME NEW t \in Transactions, t.curr_state \in IoStates, NEW w, Truthful(t, w)
  PROVE  /\ Fwd(w, t.ncr) => Follows(ForwardDone(t), t.ncr, w)
         /\ (t.curr_state \in RevStates /\ MayEnter(t, t.curr_state, w) /\ Rev(w, t.ncr))
              => Follows(ReverseDone(t), t.ncr, w)
         /\ Follows(Rejected(t), t.ncr, w)
<1>1. /\ {"SELECTING_REV_SERVER_ST", "PROCESS_TRANS_OK_ST", "PROCESS_TRANS_FAILED_ST"}
           \subseteq States \ IoStates
      /\ {"SELECT_SERVER_EVT", "UPDATE_OK_EVT", "UPDATE_FAILED_EVT"}
           \subseteq Events \ {"NOP_EVT"}
  BY DEF States, IoStates, Events
<1>2. ASSUME Fwd(w, t.ncr) PROVE Follows(ForwardDone(t), t.ncr, w)
  <2> DEFINE f == [t EXCEPT !.forward_change_completed = TRUE]
  <2>1. /\ f \in Transactions /\ f.curr_state = t.curr_state /\ f.ncr = t.ncr
        /\ f.forward_change_completed = TRUE /\ f.result = t.result
        /\ f.reverse_change_completed = t.reverse_change_completed
    BY ZenonT(30) DEF Transactions
  <2>2. ForwardDone(t) = IF t.ncr.reverse
          THEN transition(f, "SELECTING_REV_SERVER_ST", "SELECT_SERVER_EVT")
          ELSE transition(f, "PROCESS_TRANS_OK_ST", "UPDATE_OK_EVT")
    BY DEF ForwardDone, ReverseDomain
  <2> HIDE DEF f
  <2>3. Truthful(f, w)
    BY <1>2, <2>1 DEF Truthful
  <2>4. CASE t.ncr.reverse
    <3>1. MayEnter(f, "SELECTING_REV_SERVER_ST", w)
      BY <2>1, <2>4 DEF MayEnter, RevStates, AddStates, RemoveStates
    <3>2. Follows(transition(f, "SELECTING_REV_SERVER_ST", "SELECT_SERVER_EVT"), f.ncr, w)
      BY <1>1, <2>1, <2>3, <3>1, Enters
    <3> QED
      BY <2>1, <2>2, <2>4, <3>2
  <2>5. CASE ~t.ncr.reverse
    <3>1. MayEnter(f, "PROCESS_TRANS_OK_ST", w)
      BY <2>1, <2>5 DEF MayEnter, RevStates, AddStates, RemoveStates
    <3>2. Follows(transition(f, "PROCESS_TRANS_OK_ST", "UPDATE_OK_EVT"), f.ncr, w)
      BY <1>1, <2>1, <2>3, <3>1, Enters
    <3> QED
      BY <2>1, <2>2, <2>5, <3>2
  <2> QED
    BY <2>4, <2>5
<1>3. ASSUME t.curr_state \in RevStates, MayEnter(t, t.curr_state, w), Rev(w, t.ncr)
      PROVE  Follows(ReverseDone(t), t.ncr, w)
  <2> DEFINE g == [t EXCEPT !.reverse_change_completed = TRUE]
  <2>1. /\ g \in Transactions /\ g.curr_state = t.curr_state /\ g.ncr = t.ncr
        /\ g.reverse_change_completed = TRUE /\ g.result = t.result
        /\ g.forward_change_completed = t.forward_change_completed
    BY ZenonT(30) DEF Transactions
  <2>2. ReverseDone(t) = transition(g, "PROCESS_TRANS_OK_ST", "UPDATE_OK_EVT")
    BY DEF ReverseDone
  <2> HIDE DEF g
  <2>3. Truthful(g, w)
    BY <1>3, <2>1 DEF Truthful
  <2>4. MayEnter(g, "PROCESS_TRANS_OK_ST", w)
    BY Zenon, <1>3, <2>1 DEF MayEnter, RevStates, AddStates, RemoveStates
  <2> QED
    BY <1>1, <2>1, <2>2, <2>3, <2>4, Enters
<1>4. Follows(Rejected(t), t.ncr, w)
  <2>1. MayEnter(t, "PROCESS_TRANS_FAILED_ST", w)
    BY DEF MayEnter, RevStates, AddStates, RemoveStates
  <2> QED
    BY <1>1, <2>1, Enters DEF Rejected
<1> QED
  BY <1>2, <1>3, <1>4

(* A transaction about to run its handler *)
Ready(t, w) == TransInv(t) /\ Sound(t, w) /\ t.next_event # "NOP_EVT"

LEMMA ReadyEvents ==
  ASSUME NEW t, NEW w, Ready(t, w), t.curr_state \in IoStates
  PROVE  /\ TransInv(t) /\ Sound(t, w)
         /\ t.next_event \in Sends(t.curr_state) \cup {"IO_COMPLETED_EVT"}
BY Zenon DEF Ready, TransInv, Accepts

LEMMA FreeStates ==
  ASSUME NEW t, NEW w
  PROVE  /\ {"SELECTING_FWD_SERVER_ST", "SELECTING_REV_SERVER_ST", "PROCESS_TRANS_FAILED_ST"}
              \subseteq States \ IoStates
         /\ MayEnter(t, "SELECTING_FWD_SERVER_ST", w)
         /\ MayEnter(t, "PROCESS_TRANS_FAILED_ST", w)
BY DEF MayEnter, RevStates, AddStates, RemoveStates, States, IoStates

LEMMA AddingFollows ==
  ASSUME NEW t, NEW w, Ready(t, w), t.curr_state = "ADDING_FWD_ADDRS_ST"
  PROVE  Follows(AddingFwdAddrsHandler(t), t.ncr, w)
<1> DEFINE u == doOnEntry(t)
           a == CASE u.outcome = "NOERROR" -> ForwardDone(u)
                  [] u.outcome = "YXDOMAIN" ->
                       transition(u, "REPLACING_FWD_ADDRS_ST", "FQDN_IN_USE_EVT")
                  [] OTHER -> Rejected(u)
<1>1. t.curr_state \in IoStates /\ Sends(t.curr_state) = {"SERVER_SELECTED_EVT"}
  BY DEF IoStates, Sends
<1>2. /\ TransInv(t) /\ Sound(t, w)
      /\ t.next_event \in Sends(t.curr_state) \cup {"IO_COMPLETED_EVT"}
  BY <1>1, ReadyEvents
<1>3. /\ u \in Transactions /\ u.ncr = t.ncr /\ u.curr_state = t.curr_state
      /\ Truthful(u, w) /\ MayEnter(u, u.curr_state, w)
      /\ Settles(u.curr_state, u.outcome, u.ncr, w)
  BY Zenon, <1>2, EnteredSound DEF SameClaims
<1>4. AddingFwdAddrsHandler(t) =
        IoHandler(u, Sends(t.curr_state), a, "SELECTING_FWD_SERVER_ST")
  BY <1>1 DEF AddingFwdAddrsHandler
<1> HIDE DEF u
<1>5. u.outcome = "NOERROR" => Follows(ForwardDone(u), t.ncr, w)
  <2>1. u.outcome = "NOERROR" => Fwd(w, u.ncr)
    BY Zenon, <1>3 DEF Settles, FwdSettled
  <2> QED
    BY Zenon, <1>1, <1>3, <2>1, AnswerFollows
<1>6. Follows(transition(u, "REPLACING_FWD_ADDRS_ST", "FQDN_IN_USE_EVT"), t.ncr, w)
  <2>1. /\ "REPLACING_FWD_ADDRS_ST" \in States /\ "FQDN_IN_USE_EVT" \in Events \ {"NOP_EVT"}
        /\ "REPLACING_FWD_ADDRS_ST" # u.curr_state
        /\ MayEnter(u, "REPLACING_FWD_ADDRS_ST", w)
    BY Zenon, <1>3 DEF States, Events, MayEnter, AddStates, RemoveStates, RevStates
  <2> QED
    BY Zenon, <1>3, <2>1, Enters
<1>7. Follows(Rejected(u), t.ncr, w)
  BY Zenon, <1>1, <1>3, AnswerFollows
<1>8. Follows(a, t.ncr, w)
  BY <1>5, <1>6, <1>7
<1> HIDE DEF a
<1>9. /\ "SELECTING_FWD_SERVER_ST" \in States \ IoStates
      /\ MayEnter(t, "SELECTING_FWD_SERVER_ST", w)
  BY FreeStates
<1>10. Follows(IoHandler(u, Sends(t.curr_state), a, "SELECTING_FWD_SERVER_ST"), t.ncr, w)
  BY <1>1, <1>2, <1>8, <1>9, IoFollows DEF u
<1> QED
  BY <1>4, <1>10

LEMMA ReplacingFollows ==
  ASSUME NEW t, NEW w, Ready(t, w), t.curr_state = "REPLACING_FWD_ADDRS_ST"
  PROVE  Follows(ReplacingFwdAddrsHandler(t), t.ncr, w)
<1> DEFINE u == doOnEntry(t)
           a == CASE u.outcome = "NOERROR" -> ForwardDone(u)
                  [] u.outcome = "NXDOMAIN" ->
                       transition(u, "ADDING_FWD_ADDRS_ST", "SERVER_SELECTED_EVT")
                  [] OTHER -> Rejected(u)
<1>1. /\ t.curr_state \in IoStates
      /\ Sends(t.curr_state) = {"FQDN_IN_USE_EVT", "SERVER_SELECTED_EVT"}
  BY DEF IoStates, Sends
<1>2. /\ TransInv(t) /\ Sound(t, w)
      /\ t.next_event \in Sends(t.curr_state) \cup {"IO_COMPLETED_EVT"}
  BY <1>1, ReadyEvents
<1>3. /\ u \in Transactions /\ u.ncr = t.ncr /\ u.curr_state = t.curr_state
      /\ Truthful(u, w) /\ MayEnter(u, u.curr_state, w)
      /\ Settles(u.curr_state, u.outcome, u.ncr, w)
  BY Zenon, <1>2, EnteredSound DEF SameClaims
<1>4. ReplacingFwdAddrsHandler(t) =
        IoHandler(u, Sends(t.curr_state), a, "SELECTING_FWD_SERVER_ST")
  BY <1>1 DEF ReplacingFwdAddrsHandler
<1> HIDE DEF u
<1>5. u.outcome = "NOERROR" => Follows(ForwardDone(u), t.ncr, w)
  <2>1. u.outcome = "NOERROR" => Fwd(w, u.ncr)
    BY Zenon, <1>3 DEF Settles, FwdSettled
  <2> QED
    BY Zenon, <1>1, <1>3, <2>1, AnswerFollows
<1>6. Follows(transition(u, "ADDING_FWD_ADDRS_ST", "SERVER_SELECTED_EVT"), t.ncr, w)
  <2>1. /\ "ADDING_FWD_ADDRS_ST" \in States /\ "SERVER_SELECTED_EVT" \in Events \ {"NOP_EVT"}
        /\ "ADDING_FWD_ADDRS_ST" # u.curr_state
        /\ MayEnter(u, "ADDING_FWD_ADDRS_ST", w)
    BY Zenon, <1>3 DEF States, Events, MayEnter, AddStates, RemoveStates, RevStates
  <2> QED
    BY Zenon, <1>3, <2>1, Enters
<1>7. Follows(Rejected(u), t.ncr, w)
  BY Zenon, <1>1, <1>3, AnswerFollows
<1>8. Follows(a, t.ncr, w)
  BY <1>5, <1>6, <1>7
<1> HIDE DEF a
<1>9. /\ "SELECTING_FWD_SERVER_ST" \in States \ IoStates
      /\ MayEnter(t, "SELECTING_FWD_SERVER_ST", w)
  BY FreeStates
<1>10. Follows(IoHandler(u, Sends(t.curr_state), a, "SELECTING_FWD_SERVER_ST"), t.ncr, w)
  BY <1>1, <1>2, <1>8, <1>9, IoFollows DEF u
<1> QED
  BY <1>4, <1>10

LEMMA RemovingFollows ==
  ASSUME NEW t, NEW w, Ready(t, w)
  PROVE  /\ t.curr_state = "REMOVING_FWD_ADDRS_ST" =>
              Follows(RemovingFwdAddrsHandler(t), t.ncr, w)
         /\ t.curr_state = "REMOVING_FWD_RRS_ST" =>
              Follows(RemovingFwdRRsHandler(t), t.ncr, w)
<1> DEFINE u == doOnEntry(t)
<1>1. t.curr_state \in IoStates =>
        /\ TransInv(t) /\ Sound(t, w)
        /\ t.next_event \in Sends(t.curr_state) \cup {"IO_COMPLETED_EVT"}
  BY ReadyEvents
<1>2. /\ u \in Transactions /\ u.ncr = t.ncr /\ u.curr_state = t.curr_state
      /\ Truthful(u, w) /\ MayEnter(u, u.curr_state, w)
      /\ Settles(u.curr_state, u.outcome, u.ncr, w)
  BY Zenon, EnteredSound DEF SameClaims, Ready
<1>3. CASE t.curr_state = "REMOVING_FWD_ADDRS_ST"
  <2> DEFINE a == IF u.outcome \in {"NOERROR", "NXRRSET"}
                    THEN transition(u, "REMOVING_FWD_RRS_ST", "UPDATE_OK_EVT")
                    ELSE Rejected(u)
  <2>1. t.curr_state \in IoStates /\ Sends(t.curr_state) = {"SERVER_SELECTED_EVT"}
    BY <1>3 DEF IoStates, Sends
  <2>2. RemovingFwdAddrsHandler(t) =
          IoHandler(u, Sends(t.curr_state), a, "SELECTING_FWD_SERVER_ST")
    BY <2>1 DEF RemovingFwdAddrsHandler
  <2> HIDE DEF u
  <2>3. ASSUME u.outcome \in {"NOERROR", "NXRRSET"}
        PROVE  Follows(transition(u, "REMOVING_FWD_RRS_ST", "UPDATE_OK_EVT"), t.ncr, w)
    <3>1. Fwd(w, u.ncr)
      BY Zenon, <1>2, <1>3, <2>3 DEF Settles, FwdSettled
    <3>2. /\ "REMOVING_FWD_RRS_ST" \in States /\ "UPDATE_OK_EVT" \in Events \ {"NOP_EVT"}
          /\ "REMOVING_FWD_RRS_ST" # u.curr_state
          /\ MayEnter(u, "REMOVING_FWD_RRS_ST", w)
      BY Zenon, <1>2, <1>3, <3>1 DEF States, Events, MayEnter, AddStates, RemoveStates, RevStates
    <3> QED
      BY Zenon, <1>2, <3>2, Enters
  <2>4. Follows(Rejected(u), t.ncr, w)
    BY Zenon, <1>2, <2>1, AnswerFollows
  <2>5. Follows(a, t.ncr, w)
    BY <2>3, <2>4
  <2> HIDE DEF a
  <2>6. /\ "SELECTING_FWD_SERVER_ST" \in States \ IoStates
        /\ MayEnter(t, "SELECTING_FWD_SERVER_ST", w)
    BY FreeStates
  <2>7. Follows(IoHandler(u, Sends(t.curr_state), a, "SELECTING_FWD_SERVER_ST"), t.ncr, w)
    BY Zenon, <1>1, <2>1, <2>5, <2>6, IoFollows DEF u
  <2> QED
    BY <1>3, <2>2, <2>7
<1>4. CASE t.curr_state = "REMOVING_FWD_RRS_ST"
  <2> DEFINE a == IF u.outcome \in {"NOERROR", "NXRRSET"} THEN ForwardDone(u) ELSE Rejected(u)
  <2>1. /\ t.curr_state \in IoStates
        /\ Sends(t.curr_state) = {"UPDATE_OK_EVT", "SERVER_SELECTED_EVT"}
    BY <1>4 DEF IoStates, Sends
  <2>2. RemovingFwdRRsHandler(t) =
          IoHandler(u, Sends(t.curr_state), a, "PROCESS_TRANS_FAILED_ST")
    BY <2>1 DEF RemovingFwdRRsHandler
  <2> HIDE DEF u
  <2>3. Fwd(w, u.ncr)
    BY Zenon, <1>2, <1>4 DEF MayEnter
  <2>4. Follows(ForwardDone(u), t.ncr, w) /\ Follows(Rejected(u), t.ncr, w)
    BY Zenon, <1>2, <2>1, <2>3, AnswerFollows
  <2>5. Follows(a, t.ncr, w)
    BY <2>4
  <2> HIDE DEF a
  <2>6. /\ "PROCESS_TRANS_FAILED_ST" \in States \ IoStates
        /\ MayEnter(t, "PROCESS_TRANS_FAILED_ST", w)
    BY FreeStates
  <2>7. Follows(IoHandler(u, Sends(t.curr_state), a, "PROCESS_TRANS_FAILED_ST"), t.ncr, w)
    BY Zenon, <1>1, <2>1, <2>5, <2>6, IoFollows DEF u
  <2> QED
    BY Zenon, <1>4, <2>2, <2>7
<1> QED
  BY <1>3, <1>4

LEMMA ReverseFollows ==
  ASSUME NEW t, NEW w, Ready(t, w)
  PROVE  /\ t.curr_state = "REPLACING_REV_PTRS_ST" =>
              Follows(ReplacingRevPtrsHandler(t), t.ncr, w)
         /\ t.curr_state = "REMOVING_REV_PTRS_ST" =>
              Follows(RemovingRevPtrsHandler(t), t.ncr, w)
<1> DEFINE u == doOnEntry(t)
           S == {"NOERROR", "NXRRSET"}
           a == IF u.outcome = "NOERROR" THEN ReverseDone(u) ELSE Rejected(u)
           b == IF u.outcome \in S THEN ReverseDone(u) ELSE Rejected(u)
<1> SUFFICES ASSUME t.curr_state \in {"REPLACING_REV_PTRS_ST", "REMOVING_REV_PTRS_ST"}
             PROVE  /\ t.curr_state = "REPLACING_REV_PTRS_ST" =>
                         Follows(ReplacingRevPtrsHandler(t), t.ncr, w)
                    /\ t.curr_state = "REMOVING_REV_PTRS_ST" =>
                         Follows(RemovingRevPtrsHandler(t), t.ncr, w)
  OBVIOUS
<1>1. /\ t.curr_state \in IoStates /\ Sends(t.curr_state) = {"SERVER_SELECTED_EVT"}
      /\ t.curr_state \in RevStates
  BY DEF IoStates, Sends, RevStates
<1>2. /\ TransInv(t) /\ Sound(t, w)
      /\ t.next_event \in Sends(t.curr_state) \cup {"IO_COMPLETED_EVT"}
  BY Zenon, <1>1, ReadyEvents
<1>3. /\ u \in Transactions /\ u.ncr = t.ncr /\ u.curr_state = t.curr_state
      /\ Truthful(u, w) /\ MayEnter(u, u.curr_state, w)
      /\ Settles(u.curr_state, u.outcome, u.ncr, w)
  BY Zenon, <1>2, EnteredSound DEF SameClaims
<1>4. /\ ReplacingRevPtrsHandler(t) =
           IoHandler(u, Sends(t.curr_state), a, "SELECTING_REV_SERVER_ST")
      /\ RemovingRevPtrsHandler(t) =
           IoHandler(u, Sends(t.curr_state), b, "SELECTING_REV_SERVER_ST")
  BY <1>1 DEF ReplacingRevPtrsHandler, RemovingRevPtrsHandler
<1> HIDE DEF u
<1>5. /\ Follows(Rejected(u), t.ncr, w)
      /\ Rev(w, u.ncr) => Follows(ReverseDone(u), t.ncr, w)
  BY Zenon, <1>1, <1>3, AnswerFollows
<1>6. /\ t.curr_state = "REPLACING_REV_PTRS_ST" => Follows(a, t.ncr, w)
      /\ t.curr_state = "REMOVING_REV_PTRS_ST" => Follows(b, t.ncr, w)
  BY Zenon, <1>3, <1>5 DEF Settles, RevSettled
<1> HIDE DEF a, b
<1>7. /\ "SELECTING_REV_SERVER_ST" \in States \ IoStates
      /\ MayEnter(t, "SELECTING_REV_SERVER_ST", w)
  BY Zenon, <1>1, <1>2, FreeStates DEF Sound, MayEnter, RevStates, AddStates, RemoveStates
<1>8. \A x : Follows(x, t.ncr, w) =>
        Follows(IoHandler(u, Sends(t.curr_state), x, "SELECTING_REV_SERVER_ST"), t.ncr, w)
  BY Zenon, <1>1, <1>2, <1>7, IoFollows DEF u
<1> QED
  BY <1>4, <1>6, <1>8

LEMMA OthersFollow ==
  ASSUME NEW t, NEW w, Ready(t, w)
  PROVE  /\ t.curr_state = "READY_ST" => Follows(ReadyHandler(t), t.ncr, w)
         /\ t.curr_state \in {"SELECTING_FWD_SERVER_ST", "SELECTING_REV_SERVER_ST"} =>
              \A s \in IoStates : MayEnter(t, s, w) =>
                Follows(SelectingServerHandler(t, s), t.ncr, w)
         /\ t.curr_state = "PROCESS_TRANS_OK_ST" => Follows(ProcessOkHandler(t), t.ncr, w)
         /\ t.curr_state = "PROCESS_TRANS_FAILED_ST" => Follows(ProcessFailedHandler(t), t.ncr, w)
<1>1. /\ t \in Transactions /\ Truthful(t, w) /\ MayEnter(t, t.curr_state, w)
      /\ Accepts(t.curr_state, t.next_event, t.ncr.change_type)
  BY DEF Ready, TransInv, Sound
<1>2. CASE t.curr_state = "READY_ST"
  <2> DEFINE s == IF t.ncr.forward THEN "SELECTING_FWD_SERVER_ST" ELSE "SELECTING_REV_SERVER_ST"
  <2>1. ReadyHandler(t) = transition(t, s, "SELECT_SERVER_EVT")
    BY Zenon, <1>1, <1>2 DEF ReadyHandler, ForwardDomain, Accepts
  <2>2. /\ s \in States /\ s # t.curr_state /\ "SELECT_SERVER_EVT" \in Events \ {"NOP_EVT"}
        /\ MayEnter(t, s, w)
    BY Zenon, <1>1, <1>2 DEF States, Events, Truthful, MayEnter, RevStates, AddStates, RemoveStates
  <2> HIDE DEF s
  <2> QED
    BY Zenon, <1>1, <1>2, <2>1, <2>2, Enters
<1>3. CASE t.curr_state \in {"SELECTING_FWD_SERVER_ST", "SELECTING_REV_SERVER_ST"}
  <2> SUFFICES ASSUME NEW s \in IoStates, MayEnter(t, s, w)
               PROVE  Follows(SelectingServerHandler(t, s), t.ncr, w)
    BY <1>3
  <2> DEFINE u == IF t.next_event = "SELECT_SERVER_EVT" THEN initServerSelection(t) ELSE t
             v == [u EXCEPT !.next_server_pos = u.next_server_pos + 1]
  <2>1. t.next_event \in {"SELECT_SERVER_EVT", "SERVER_IO_ERROR_EVT"}
    BY Zenon, <1>1, <1>3 DEF Accepts
  <2>2. /\ u \in Transactions /\ u.curr_state = t.curr_state /\ SameClaims(t, u)
        /\ u.next_server_pos \in 0 .. Servers
    BY <1>1 DEF Transactions, initServerSelection, SameClaims
  <2>3. SelectingServerHandler(t, s) =
          IF u.next_server_pos < Servers THEN transition(v, s, "SERVER_SELECTED_EVT")
          ELSE transition(u, "PROCESS_TRANS_FAILED_ST", "NO_MORE_SERVERS_EVT")
    BY <2>1 DEF SelectingServerHandler
  <2> HIDE DEF u
  <2>4. u.ncr = t.ncr /\ Truthful(u, w) /\ MayEnter(u, s, w)
    BY Zenon, <1>1, <2>2, ClaimsCarry DEF SameClaims
  <2>5. CASE u.next_server_pos < Servers
    <3>1. u.next_server_pos + 1 \in 0 .. Servers
      BY <2>2, <2>5
    <3>2. v \in Transactions /\ v.curr_state = t.curr_state /\ SameClaims(u, v)
      BY Zenon, <2>2, <3>1 DEF Transactions, SameClaims
    <3> HIDE DEF v
    <3>3. v.ncr = t.ncr /\ Truthful(v, w) /\ MayEnter(v, s, w)
      BY Zenon, <2>4, <3>2, ClaimsCarry DEF SameClaims
    <3>4. s \in States /\ s # v.curr_state /\ "SERVER_SELECTED_EVT" \in Events \ {"NOP_EVT"}
      BY <1>3, <3>2 DEF IoStates, States, Events
    <3>5. Follows(transition(v, s, "SERVER_SELECTED_EVT"), v.ncr, w)
      BY <3>2, <3>3, <3>4, Enters
    <3> QED
      BY <2>3, <2>5, <3>3, <3>5
  <2>6. CASE ~(u.next_server_pos < Servers)
    <3>1. /\ "PROCESS_TRANS_FAILED_ST" \in States /\ "PROCESS_TRANS_FAILED_ST" # u.curr_state
          /\ "NO_MORE_SERVERS_EVT" \in Events \ {"NOP_EVT"}
      BY <1>3, <2>2 DEF States, Events
    <3>2. Follows(transition(u, "PROCESS_TRANS_FAILED_ST", "NO_MORE_SERVERS_EVT"), u.ncr, w)
      BY Zenon, <2>2, <2>4, <3>1, Enters, FreeStates
    <3> QED
      BY <2>3, <2>4, <2>6, <3>2
  <2> QED
    BY <2>5, <2>6
<1>4. ASSUME NEW r \in {"ST_COMPLETED", "ST_FAILED"}, t.curr_state # "END_ST",
             r = "ST_COMPLETED" => /\ t.ncr.forward => t.forward_change_completed
                                   /\ t.ncr.reverse => t.reverse_change_completed
      PROVE  Follows(endModel([t EXCEPT !.result = r]), t.ncr, w)
  <2> DEFINE v == [t EXCEPT !.result = r]
  <2>1. /\ v \in Transactions /\ v.curr_state # "END_ST" /\ v.ncr = t.ncr /\ v.result = r
        /\ v.forward_change_completed = t.forward_change_completed
        /\ v.reverse_change_completed = t.reverse_change_completed
    BY <1>1, <1>4 DEF Transactions
  <2> HIDE DEF v
  <2>2. Truthful(v, w)
    BY Zenon, <1>1, <1>4, <2>1 DEF Truthful
  <2>3. /\ "END_ST" \in States /\ "END_EVT" \in Events \ {"NOP_EVT"}
        /\ MayEnter(v, "END_ST", w)
    BY Zenon DEF States, Events, MayEnter, RevStates, AddStates, RemoveStates
  <2>4. Follows(transition(v, "END_ST", "END_EVT"), v.ncr, w)
    BY Zenon, <2>1, <2>2, <2>3, Enters
  <2> QED
    BY <2>1, <2>4 DEF endModel, v
<1>5. CASE t.curr_state = "PROCESS_TRANS_OK_ST"
  <2>1. /\ t.ncr.forward => t.forward_change_completed
        /\ t.ncr.reverse => t.reverse_change_completed
    BY Zenon, <1>1, <1>5 DEF MayEnter
  <2>2. ProcessOkHandler(t) = endModel([t EXCEPT !.result = "ST_COMPLETED"])
    BY Zenon, <1>1, <1>5 DEF ProcessOkHandler, Accepts
  <2> QED
    BY <1>4, <1>5, <2>1, <2>2
<1>6. CASE t.curr_state = "PROCESS_TRANS_FAILED_ST"
  <2>1. ProcessFailedHandler(t) = endModel([t EXCEPT !.result = "ST_FAILED"])
    BY <1>1, <1>6 DEF ProcessFailedHandler, Accepts
  <2> QED
    BY <1>4, <1>6, <2>1
<1> QED
  BY Zenon, <1>2, <1>3, <1>5, <1>6

-----------------------------------------------------------------------------
(* Nothing happened to the zone or to the requests. *)
LEMMA HandleDone ==
  ASSUME IInv, PromptInv, NEW d \in Dhcids, NEW s \in States, NEW t, Handle(d, s, t),
         Ready(trans[d], World) /\ trans[d].curr_state = s
           => Follows(t, trans[d].ncr, World)
  PROVE  PromptInv'
<1>1. /\ trans[d].curr_state = s /\ ~isModelWaiting(trans[d])
      /\ trans' = [trans EXCEPT ![d] = t]
      /\ UNCHANGED <<db, queue, late, todo, session, overdue>>
  BY Zenon DEF Handle
<1>2. trans[d] # NoTransaction /\ TransInv(trans[d])
  BY Zenon, <1>1, NotATransaction DEF IInv, ListInv
<1>3. ~Waits(trans[d])
  BY SMTT(30), <1>1, <1>2, WaitingIsWaits
<1>4. trans[d].next_event # "NOP_EVT"
  <2>1. s # "END_ST" => trans[d].next_event # "NOP_EVT"
    BY SMTT(30), <1>1, <1>2 DEF isModelWaiting, isModelRunning, States
  <2>2. s = "END_ST" => trans[d].next_event # "NOP_EVT"
    BY Zenon, <1>1, <1>2 DEF TransInv, Accepts
  <2> QED
    BY Zenon, <2>1, <2>2
<1>5. trans[d].ncr.dhcid = d /\ Sound(trans[d], World)
  BY Zenon, <1>2 DEF PromptInv, SoundInv
<1>6. Follows(t, trans[d].ncr, World)
  BY Zenon, <1>1, <1>2, <1>4, <1>5 DEF Ready
<1>7. t.ncr = trans[d].ncr /\ Sound(t, World) /\ (isModelWaiting(t) => t.request = t.curr_state)
  BY Zenon, <1>6 DEF Follows
<1>8. trans'[d] = t /\ \A e \in Dhcids \ {d} : trans'[e] = trans[e]
  BY Zenon, <1>1 DEF IInv, ListInv
<1>9. World' = World
  BY <1>1 DEF World
<1>10. SoundInv'
  BY Zenon, <1>5, <1>7, <1>8, <1>9 DEF PromptInv, SoundInv
<1>11. WireInv'
  <2>1. fetch[d].phase = "none" /\ fetch \in [Dhcids -> Fetches]
    BY <1>3 DEF IInv, FetchInv
  <2>2. CASE isModelWaiting(t)
    <3> DEFINE m == [request |-> t.request, ncr |-> t.ncr]
               f == [phase |-> "sent", message |-> m]
    <3>1. m = MessageOf(t)
      BY Zenon, <1>7, <2>2 DEF MessageOf
    <3>2. fetch' = [fetch EXCEPT ![d] = f]
      BY Zenon, <2>2 DEF Handle
    <3>3. f.phase # "answered" /\ f.message = m
      BY Zenon
    <3> HIDE DEF m, f
    <3>4. fetch'[d] = f /\ \A e \in Dhcids \ {d} : fetch'[e] = fetch[e]
      BY Zenon, <2>1, <3>2
    <3> QED
      BY Zenon, <1>8, <1>9, <3>1, <3>3, <3>4 DEF PromptInv, WireInv
  <2>3. CASE ~isModelWaiting(t)
    <3>1. fetch' = fetch
      BY Zenon, <2>3 DEF Handle
    <3> QED
      BY Zenon, <1>8, <1>9, <2>1, <3>1 DEF PromptInv, WireInv
  <2> QED
    BY <2>2, <2>3
<1>12. AskedInv'
  <2>1. PICK p \in Scripts :
          /\ \A i \in DOMAIN todo : AskedIn(p, todo[i])
          /\ \A i \in DOMAIN queue : AskedIn(p, queue[i])
          /\ \A e \in Dhcids : trans[e] # NoTransaction => AskedIn(p, trans[e].ncr)
    BY Zenon DEF PromptInv, AskedInv
  <2>2. \A e \in Dhcids : trans'[e] # NoTransaction => AskedIn(p, trans'[e].ncr)
    BY Zenon, <1>2, <1>7, <1>8, <2>1
  <2>3. todo' = todo /\ queue' = queue
    BY <1>1
  <2> QED
    BY Zenon, <2>1, <2>2, <2>3 DEF AskedInv
<1>13. PtrInv'
  BY Zenon, <1>1 DEF PromptInv, PtrInv
<1> QED
  BY <1>10, <1>11, <1>12, <1>13 DEF PromptInv

LEMMA RunModelDone ==
  ASSUME IInv, PromptInv, NEW d \in Dhcids, RunModel(d)
  PROVE  PromptInv'
<1> DEFINE t == trans[d]
           w == World
           fwd == IF Adding(d) THEN "ADDING_FWD_ADDRS_ST" ELSE "REMOVING_FWD_ADDRS_ST"
           rev == IF Adding(d) THEN "REPLACING_REV_PTRS_ST" ELSE "REMOVING_REV_PTRS_ST"
<1>1. ASSUME Ready(t, w)
      PROVE  /\ fwd \in IoStates /\ rev \in IoStates
             /\ t.curr_state = "SELECTING_FWD_SERVER_ST" => MayEnter(t, fwd, w)
             /\ t.curr_state = "SELECTING_REV_SERVER_ST" => MayEnter(t, rev, w)
  <2>1. t.ncr.change_type \in {"CHG_ADD", "CHG_REMOVE"} /\ MayEnter(t, t.curr_state, w)
    BY Zenon, <1>1 DEF Ready, Sound, TransInv, Transactions, NameChangeRequests
  <2> HIDE DEF w
  <2> QED
    BY Zenon, <2>1 DEF MayEnter, RevStates, AddStates, RemoveStates, IoStates, Adding
<1>2. "READY_ST" \in States /\ "SELECTING_FWD_SERVER_ST" \in States
      /\ "SELECTING_REV_SERVER_ST" \in States
      /\ "PROCESS_TRANS_OK_ST" \in States /\ "PROCESS_TRANS_FAILED_ST" \in States
      /\ "ADDING_FWD_ADDRS_ST" \in States /\ "REPLACING_FWD_ADDRS_ST" \in States
      /\ "REPLACING_REV_PTRS_ST" \in States /\ "REMOVING_FWD_ADDRS_ST" \in States
      /\ "REMOVING_FWD_RRS_ST" \in States /\ "REMOVING_REV_PTRS_ST" \in States
  BY Zenon DEF States
<1> HIDE DEF t, w, fwd, rev
<1>3. ASSUME NEW s \in States, NEW u, Handle(d, s, u),
             Ready(t, w) /\ t.curr_state = s => Follows(u, t.ncr, w)
      PROVE  PromptInv'
  BY Zenon, <1>3, HandleDone DEF t, w
<1>4. CASE Handle(d, "READY_ST", ReadyHandler(t))
  BY Zenon, <1>2, <1>3, <1>4, OthersFollow
<1>5. CASE Handle(d, "SELECTING_FWD_SERVER_ST", SelectingServerHandler(t, fwd))
  <2>1. Ready(t, w) /\ t.curr_state = "SELECTING_FWD_SERVER_ST" =>
          Follows(SelectingServerHandler(t, fwd), t.ncr, w)
    BY Zenon, <1>1, OthersFollow
  <2> QED
    BY Zenon, <1>2, <1>3, <1>5, <2>1
<1>6. CASE Handle(d, "SELECTING_REV_SERVER_ST", SelectingServerHandler(t, rev))
  <2>1. Ready(t, w) /\ t.curr_state = "SELECTING_REV_SERVER_ST" =>
          Follows(SelectingServerHandler(t, rev), t.ncr, w)
    BY Zenon, <1>1, OthersFollow
  <2> QED
    BY Zenon, <1>2, <1>3, <1>6, <2>1
<1>7. CASE Handle(d, "ADDING_FWD_ADDRS_ST", AddingFwdAddrsHandler(t))
  BY <1>2, <1>3, <1>7, AddingFollows
<1>8. CASE Handle(d, "REPLACING_FWD_ADDRS_ST", ReplacingFwdAddrsHandler(t))
  BY Zenon, <1>2, <1>3, <1>8, ReplacingFollows
<1>9. CASE Handle(d, "REPLACING_REV_PTRS_ST", ReplacingRevPtrsHandler(t))
  BY Zenon, <1>2, <1>3, <1>9, ReverseFollows
<1>10. CASE Handle(d, "REMOVING_FWD_ADDRS_ST", RemovingFwdAddrsHandler(t))
  BY Zenon, <1>2, <1>3, <1>10, RemovingFollows
<1>11. CASE Handle(d, "REMOVING_FWD_RRS_ST", RemovingFwdRRsHandler(t))
  BY Zenon, <1>2, <1>3, <1>11, RemovingFollows
<1>12. CASE Handle(d, "REMOVING_REV_PTRS_ST", RemovingRevPtrsHandler(t))
  BY Zenon, <1>2, <1>3, <1>12, ReverseFollows
<1>13. CASE Handle(d, "PROCESS_TRANS_OK_ST", ProcessOkHandler(t))
  BY Zenon, <1>2, <1>3, <1>13, OthersFollow
<1>14. CASE Handle(d, "PROCESS_TRANS_FAILED_ST", ProcessFailedHandler(t))
  BY Zenon, <1>2, <1>3, <1>14, OthersFollow
<1> QED
  BY SMTT(30), <1>4, <1>5, <1>6, <1>7, <1>8, <1>9, <1>10, <1>11, <1>12, <1>13, <1>14
    DEF RunModel, t, fwd, rev

(* An exchange ends: the outcome is what the server found, or an error. *)
LEMMA IoCompletedDone ==
  ASSUME IInv, PromptInv, NEW d \in Dhcids, fetch[d].phase # "none", NEW outcome \in Outcomes,
         IoCompleted(d, outcome), UNCHANGED <<db, queue, todo, session, overdue>>,
         Settles(trans[d].curr_state, outcome, trans[d].ncr, World)
  PROVE  PromptInv'
<1> DEFINE t == [trans[d] EXCEPT !.outcome = outcome, !.next_event = "IO_COMPLETED_EVT"]
<1>1. /\ trans[d] \in Transactions /\ trans[d] # NoTransaction
  BY Zenon, NotATransaction DEF IInv, FetchInv, Waits
<1>2. trans[d].ncr.dhcid = d /\ Sound(trans[d], World)
  BY Zenon, <1>1 DEF PromptInv, SoundInv
<1>3. /\ SameClaims(trans[d], t) /\ t.curr_state = trans[d].curr_state /\ t.outcome = outcome
      /\ t.on_entry = trans[d].on_entry /\ t.request = trans[d].request
  BY Zenon, <1>1 DEF Transactions, SameClaims
<1>4. trans' = [trans EXCEPT ![d] = t] /\ fetch' = [fetch EXCEPT ![d] = NoFetch]
  BY ZenonT(30) DEF IoCompleted, IInv, ListInv
<1> HIDE DEF t
<1>5. t.ncr = trans[d].ncr
  BY Zenon, <1>3 DEF SameClaims
<1>6. Truthful(t, World) /\ MayEnter(t, t.curr_state, World)
  BY Zenon, <1>2, <1>3, ClaimsCarry DEF Sound
<1>7. Sound(t, World)
  BY Zenon, <1>2, <1>3, <1>5, <1>6 DEF Sound
<1>8. /\ trans'[d] = t /\ fetch'[d] = NoFetch
      /\ \A e \in Dhcids \ {d} : trans'[e] = trans[e] /\ fetch'[e] = fetch[e]
  BY Zenon, <1>4 DEF IInv, ListInv, FetchInv
<1>9. World' = World
  BY Zenon DEF World
<1>10. SoundInv'
  BY Zenon, <1>2, <1>5, <1>7, <1>8, <1>9 DEF PromptInv, SoundInv
<1>11. WireInv'
  <2>1. NoFetch.phase = "none"
    BY Zenon DEF NoFetch
  <2> QED
    BY Zenon, <1>8, <1>9, <2>1 DEF PromptInv, WireInv
<1>12. AskedInv'
  <2>1. PICK p \in Scripts :
          /\ \A i \in DOMAIN todo : AskedIn(p, todo[i])
          /\ \A i \in DOMAIN queue : AskedIn(p, queue[i])
          /\ \A e \in Dhcids : trans[e] # NoTransaction => AskedIn(p, trans[e].ncr)
    BY Zenon DEF PromptInv, AskedInv
  <2>2. \A e \in Dhcids : trans'[e] # NoTransaction => AskedIn(p, trans'[e].ncr)
    BY Zenon, <1>1, <1>5, <1>8, <2>1
  <2>3. todo' = todo /\ queue' = queue
    BY Zenon
  <2> QED
    BY Zenon, <2>1, <2>2, <2>3 DEF AskedInv
<1>13. PtrInv'
  BY Zenon DEF PromptInv, PtrInv
<1> QED
  BY Zenon, <1>10, <1>11, <1>12, <1>13 DEF PromptInv

LEMMA ReceiveDone ==
  ASSUME IInv, PromptInv, NEW d \in Dhcids, Receive(d)
  PROVE  PromptInv'
<1>1. fetch[d].phase = "answered" /\ fetch[d].phase # "none" /\ fetch[d].rcode \in Outcomes
  BY DEF Receive, IInv, FetchInv, Fetches, NoFetch, Outcomes
<1>2. Settles(trans[d].curr_state, fetch[d].rcode, trans[d].ncr, World)
  BY Zenon, <1>1 DEF PromptInv, WireInv
<1> QED
  BY Zenon, <1>1, <1>2, IoCompletedDone DEF Receive

LEMMA GiveUpDone ==
  ASSUME IInv, PromptInv, NEW d \in Dhcids, GiveUp(d)
  PROVE  PromptInv'
<1>1. "IO_ERROR" \in Outcomes
  BY DEF Outcomes
<1>2. Settles(trans[d].curr_state, "IO_ERROR", trans[d].ncr, World)
  BY NothingSettled
<1> QED
  BY Zenon, <1>1, <1>2, IoCompletedDone DEF GiveUp

-----------------------------------------------------------------------------
(* What was done stays done from world w to world v. *)
Keeps(ncr, w, v) == (Fwd(w, ncr) => Fwd(v, ncr)) /\ (Rev(w, ncr) => Rev(v, ncr))

LEMMA SoundCarries ==
  ASSUME NEW t, NEW w, NEW v, Keeps(t.ncr, w, v)
  PROVE  /\ Sound(t, w) => Sound(t, v)
         /\ \A s, code : Settles(s, code, t.ncr, w) => Settles(s, code, t.ncr, v)
<1>1. \A s, code : Settles(s, code, t.ncr, w) => Settles(s, code, t.ncr, v)
  BY DEF Keeps, Settles
<1>2. Truthful(t, w) => Truthful(t, v)
  BY Zenon DEF Keeps, Truthful
<1>3. \A s : MayEnter(t, s, w) => MayEnter(t, s, v)
  BY Zenon DEF Keeps, MayEnter
<1> QED
  BY Zenon, <1>1, <1>2, <1>3 DEF Sound

RevRequests == {"REPLACING_REV_PTRS_ST", "REMOVING_REV_PTRS_ST"}

LEMMA Kinds ==
  ASSUME NEW message \in Messages
  PROVE  LET m == Contents(message)
             ncr == message.ncr
             s == message.request
         IN  /\ ncr \in NameChangeRequests /\ ncr.fqdn \in Fqdns /\ ncr.ip \in Ips
             /\ s \in IoStates
             /\ s = "ADDING_FWD_ADDRS_ST" => m = buildAddFwdAddressRequest(ncr)
             /\ s = "REPLACING_FWD_ADDRS_ST" => m = buildReplaceFwdAddressRequest(ncr)
             /\ s = "REMOVING_FWD_ADDRS_ST" => m = buildRemoveFwdAddressRequest(ncr)
             /\ s = "REMOVING_FWD_RRS_ST" => m = buildRemoveFwdRRsRequest(ncr)
             /\ s = "REPLACING_REV_PTRS_ST" => m = buildReplaceRevPtrsRequest(ncr)
             /\ s = "REMOVING_REV_PTRS_ST" => m = buildRemoveRevPtrsRequest(ncr)
             /\ s \in RevRequests => m.name = ncr.ip
             /\ s \notin RevRequests => m.name = ncr.fqdn
<1> DEFINE m == Contents(message)
           ncr == message.ncr
           s == message.request
<1>1. /\ ncr \in NameChangeRequests /\ ncr.fqdn \in Fqdns /\ ncr.ip \in Ips /\ s \in IoStates
  BY DEF Messages, NameChangeRequests
<1>2. /\ s = "ADDING_FWD_ADDRS_ST" => m = buildAddFwdAddressRequest(ncr)
      /\ s = "REPLACING_FWD_ADDRS_ST" => m = buildReplaceFwdAddressRequest(ncr)
      /\ s = "REMOVING_FWD_ADDRS_ST" => m = buildRemoveFwdAddressRequest(ncr)
      /\ s = "REMOVING_FWD_RRS_ST" => m = buildRemoveFwdRRsRequest(ncr)
      /\ s = "REPLACING_REV_PTRS_ST" => m = buildReplaceRevPtrsRequest(ncr)
      /\ s = "REMOVING_REV_PTRS_ST" => m = buildRemoveRevPtrsRequest(ncr)
  BY Zenon DEF Contents
<1> HIDE DEF m, ncr, s
<1>3. /\ buildAddFwdAddressRequest(ncr).name = ncr.fqdn
      /\ buildReplaceFwdAddressRequest(ncr).name = ncr.fqdn
      /\ buildRemoveFwdAddressRequest(ncr).name = ncr.fqdn
      /\ buildRemoveFwdRRsRequest(ncr).name = ncr.fqdn
      /\ buildReplaceRevPtrsRequest(ncr).name = ncr.ip
      /\ buildRemoveRevPtrsRequest(ncr).name = ncr.ip
  BY DEF buildAddFwdAddressRequest, buildReplaceFwdAddressRequest, buildRemoveFwdAddressRequest,
         buildRemoveFwdRRsRequest, buildReplaceRevPtrsRequest, buildRemoveRevPtrsRequest,
         prepNewRequest
<1>4. /\ s \in RevRequests => m.name = ncr.ip
      /\ s \notin RevRequests => m.name = ncr.fqdn
  BY Zenon, <1>1, <1>2, <1>3 DEF RevRequests, IoStates
<1> QED
  BY Zenon, <1>1, <1>2, <1>4 DEF m, ncr, s

(* An execution changes the data at one name, and its data only. *)
LEMMA ExecutedAt ==
  ASSUME IInv, NEW message \in Messages, Execute(message)
  PROVE  LET n == Contents(message).name
         IN  /\ n \in Owners
             /\ db'[n] = After(db[n], Contents(message), session)
             /\ \A k \in Owners \ {n} : db'[k] = db[k]
<1> DEFINE m == Contents(message)
           n == m.name
<1>1. n \in Owners
  BY Zenon, Kinds DEF Owners
<1>2. db \in [Owners -> SUBSET Records]
  BY DEF IInv, DataInv
<1>3. db' = IF check_prerequisites(db[n], m) = "NOERROR"
              THEN [db EXCEPT ![n] = do_update(db[n], m, session)] ELSE db
  BY Zenon DEF Execute
<1> HIDE DEF m, n
<1>4. /\ db'[n] = After(db[n], m, session)
      /\ \A k \in Owners \ {n} : db'[k] = db[k]
  BY Zenon, <1>1, <1>2, <1>3 DEF After
<1> QED
  BY Zenon, <1>1, <1>4 DEF n, m

(* The transaction's own request *)
LEMMA OwnExecuted ==
  ASSUME IInv, PtrInv, NEW message \in Messages, Execute(message), session' = session,
         message.request \in AddStates => message.ncr.change_type = "CHG_ADD",
         message.request \in RemoveStates => message.ncr.change_type = "CHG_REMOVE"
  PROVE  LET m == Contents(message)
             code == check_prerequisites(db[m.name], m)
         IN  /\ Settles(message.request, code, message.ncr, World')
             /\ Keeps(message.ncr, World, World')
<1> DEFINE m == Contents(message)
           ncr == message.ncr
           s == message.request
           code == check_prerequisites(db[m.name], m)
           by == session
<1>1. /\ ncr \in NameChangeRequests /\ ncr.fqdn \in Fqdns /\ ncr.ip \in Ips /\ s \in IoStates
      /\ s = "ADDING_FWD_ADDRS_ST" => m = buildAddFwdAddressRequest(ncr)
      /\ s = "REPLACING_FWD_ADDRS_ST" => m = buildReplaceFwdAddressRequest(ncr)
      /\ s = "REMOVING_FWD_ADDRS_ST" => m = buildRemoveFwdAddressRequest(ncr)
      /\ s = "REMOVING_FWD_RRS_ST" => m = buildRemoveFwdRRsRequest(ncr)
      /\ s = "REPLACING_REV_PTRS_ST" => m = buildReplaceRevPtrsRequest(ncr)
      /\ s = "REMOVING_REV_PTRS_ST" => m = buildRemoveRevPtrsRequest(ncr)
      /\ s \in RevRequests => m.name = ncr.ip
      /\ s \notin RevRequests => m.name = ncr.fqdn
  BY Zenon, Kinds
<1>2. /\ db'[m.name] = After(db[m.name], m, by)
      /\ \A k \in Owners \ {m.name} : db'[k] = db[k]
  BY Zenon, ExecutedAt
<1>3. /\ s \in AddStates => ncr.change_type = "CHG_ADD"
      /\ s \in RemoveStates => ncr.change_type = "CHG_REMOVE"
      /\ by \in BOOLEAN /\ NameInv(db[ncr.fqdn]) /\ db[ncr.ip] \subseteq Records
      /\ OnePtr(db[ncr.ip])
  BY Zenon, <1>1 DEF IInv, DataInv, QueueInv, PtrInv, Owners
<1>4. /\ Fwd(World, ncr) <=> FwdIn(db[ncr.fqdn], ncr, by)
      /\ Fwd(World', ncr) <=> FwdIn(db'[ncr.fqdn], ncr, by)
      /\ Rev(World, ncr) <=> (ncr.reverse /\ OfOneClient(ncr.ip) => RevIn(db[ncr.ip], ncr, by))
      /\ Rev(World', ncr) <=> (ncr.reverse /\ OfOneClient(ncr.ip) => RevIn(db'[ncr.ip], ncr, by))
  BY Zenon DEF Fwd, Rev, World
<1>5. ncr.fqdn \in Owners /\ ncr.ip \in Owners /\ ncr.fqdn # ncr.ip
  BY Zenon, <1>1, NamesAssumption DEF Owners
<1> HIDE DEF m, ncr, s, by
<1> SUFFICES Settles(s, code, ncr, World') /\ Keeps(ncr, World, World')
  BY Zenon DEF m, ncr, s
<1>6. CASE s \notin RevRequests
  <2> DEFINE data == db[ncr.fqdn]
             new == db'[ncr.fqdn]
  <2>1. db'[ncr.ip] = db[ncr.ip] /\ new = After(data, m, by) /\ code = check_prerequisites(data, m)
    BY Zenon, <1>1, <1>2, <1>5, <1>6
  <2> HIDE DEF data, new, code
  <2>2. /\ FwdSettled(s, code) => FwdIn(new, ncr, by)
        /\ FwdIn(data, ncr, by) => FwdIn(new, ncr, by)
    <3>1. NameInv(data)
      BY Zenon, <1>3 DEF data
    <3>2. CASE s = "ADDING_FWD_ADDRS_ST"
      BY Zenon, <1>1, <1>3, <2>1, <3>2, AddMakes DEF AddStates, FwdSettled
    <3>3. CASE s = "REPLACING_FWD_ADDRS_ST"
      BY Zenon, <1>1, <1>3, <2>1, <3>3, ReplaceMakes DEF AddStates, FwdSettled
    <3>4. CASE s = "REMOVING_FWD_ADDRS_ST"
      BY Zenon, <1>1, <1>3, <2>1, <3>1, <3>4, RemoveAddressMakes DEF RemoveStates, FwdSettled
    <3>5. CASE s = "REMOVING_FWD_RRS_ST"
      BY Zenon, <1>1, <1>3, <2>1, <3>5, RemoveNameKeeps DEF RemoveStates, FwdSettled
    <3> QED
      BY Zenon, <1>1, <1>6, <3>2, <3>3, <3>4, <3>5 DEF IoStates, RevRequests
  <2>3. ~RevSettled(s, code)
    BY Zenon, <1>6 DEF RevSettled, RevRequests
  <2> QED
    BY Zenon, <1>4, <2>1, <2>2, <2>3 DEF Settles, Keeps, data, new
<1>7. CASE s \in RevRequests
  <2> DEFINE data == db[ncr.ip]
             new == db'[ncr.ip]
  <2>1. db'[ncr.fqdn] = db[ncr.fqdn] /\ new = After(data, m, by)
    BY Zenon, <1>1, <1>2, <1>5, <1>7
  <2> HIDE DEF data, new, code
  <2>2. RevIn(new, ncr, by)
    <3>1. data \subseteq Records /\ OnePtr(data)
      BY Zenon, <1>3 DEF data
    <3>2. CASE s = "REPLACING_REV_PTRS_ST"
      BY Zenon, <1>1, <1>3, <2>1, <3>2, ReplacePtrMakes DEF AddStates
    <3>3. CASE s = "REMOVING_REV_PTRS_ST"
      BY Zenon, <1>1, <1>3, <2>1, <3>1, <3>3, RemovePtrMakes DEF RemoveStates
    <3> QED
      BY Zenon, <1>7, <3>2, <3>3 DEF RevRequests
  <2>3. ~FwdSettled(s, code)
    BY Zenon, <1>7 DEF FwdSettled, RevRequests
  <2> QED
    BY Zenon, <1>4, <2>1, <2>2, <2>3 DEF Settles, Keeps, new
<1> QED
  BY Zenon, <1>6, <1>7

(* A request of another client, who has nothing to do with the address *)
LEMMA OtherExecuted ==
  ASSUME IInv, NEW message \in Messages, Execute(message), session' = session,
         NEW ncr \in NameChangeRequests, ncr.dhcid # message.ncr.dhcid,
         message.request \in RevRequests /\ message.ncr.ip = ncr.ip
           => ~(ncr.reverse /\ OfOneClient(ncr.ip))
  PROVE  Keeps(ncr, World, World')
<1> DEFINE m == Contents(message)
           other == message.ncr
           s == message.request
           by == session
<1>1. /\ other \in NameChangeRequests /\ other.fqdn \in Fqdns /\ other.ip \in Ips
      /\ s \in IoStates
      /\ s = "ADDING_FWD_ADDRS_ST" => m = buildAddFwdAddressRequest(other)
      /\ s = "REPLACING_FWD_ADDRS_ST" => m = buildReplaceFwdAddressRequest(other)
      /\ s = "REMOVING_FWD_ADDRS_ST" => m = buildRemoveFwdAddressRequest(other)
      /\ s = "REMOVING_FWD_RRS_ST" => m = buildRemoveFwdRRsRequest(other)
      /\ s \in RevRequests => m.name = other.ip
      /\ s \notin RevRequests => m.name = other.fqdn
  BY Zenon, Kinds
<1>2. /\ db'[m.name] = After(db[m.name], m, by)
      /\ \A k \in Owners \ {m.name} : db'[k] = db[k]
  BY Zenon, ExecutedAt
<1>3. by \in BOOLEAN
  BY Zenon DEF IInv, QueueInv
<1>4. /\ Fwd(World, ncr) <=> FwdIn(db[ncr.fqdn], ncr, by)
      /\ Fwd(World', ncr) <=> FwdIn(db'[ncr.fqdn], ncr, by)
      /\ Rev(World, ncr) <=> (ncr.reverse /\ OfOneClient(ncr.ip) => RevIn(db[ncr.ip], ncr, by))
      /\ Rev(World', ncr) <=> (ncr.reverse /\ OfOneClient(ncr.ip) => RevIn(db'[ncr.ip], ncr, by))
  BY Zenon DEF Fwd, Rev, World
<1>5. /\ ncr.fqdn \in Fqdns /\ ncr.ip \in Ips /\ ncr.fqdn \in Owners /\ ncr.ip \in Owners
      /\ ncr.fqdn # other.ip /\ ncr.ip # other.fqdn
  BY Zenon, <1>1, NamesAssumption DEF Owners, NameChangeRequests
<1> HIDE DEF m, s, by
<1>6. Fwd(World, ncr) => Fwd(World', ncr)
  <2>1. CASE m.name # ncr.fqdn
    BY Zenon, <1>2, <1>4, <1>5, <2>1
  <2>2. CASE m.name = ncr.fqdn
    <3>1. m \in {buildAddFwdAddressRequest(other), buildReplaceFwdAddressRequest(other),
                 buildRemoveFwdAddressRequest(other), buildRemoveFwdRRsRequest(other)}
      BY Zenon, <1>1, <1>5, <2>2 DEF IoStates, RevRequests
    <3> DEFINE data == db[ncr.fqdn]
    <3>2. db'[ncr.fqdn] = After(data, m, by)
      BY Zenon, <1>2, <2>2
    <3> HIDE DEF data, other
    <3>3. FwdIn(data, ncr, by) => FwdIn(After(data, m, by), ncr, by)
      BY Zenon, <1>1, <1>3, <3>1, OthersKeep DEF other
    <3> QED
      BY Zenon, <1>4, <3>2, <3>3 DEF data
  <2> QED
    BY Zenon, <2>1, <2>2
<1>7. Rev(World, ncr) => Rev(World', ncr)
  <2>1. CASE m.name # ncr.ip
    BY Zenon, <1>2, <1>4, <1>5, <2>1
  <2>2. CASE m.name = ncr.ip
    <3>1. s \in RevRequests /\ other.ip = ncr.ip
      BY Zenon, <1>1, <1>5, <2>2
    <3> QED
      BY Zenon, <1>4, <3>1 DEF s
  <2> QED
    BY Zenon, <2>1, <2>2
<1> QED
  BY Zenon, <1>6, <1>7 DEF Keeps

LEMMA PtrExecuted ==
  ASSUME IInv, PtrInv, NEW message \in Messages, Execute(message)
  PROVE  PtrInv'
<1> DEFINE m == Contents(message)
           ncr == message.ncr
           s == message.request
<1>1. /\ ncr \in NameChangeRequests /\ ncr.fqdn \in Fqdns /\ ncr.ip \in Ips
      /\ s = "REPLACING_REV_PTRS_ST" => m = buildReplaceRevPtrsRequest(ncr)
      /\ s = "REMOVING_REV_PTRS_ST" => m = buildRemoveRevPtrsRequest(ncr)
      /\ s \in RevRequests => m.name = ncr.ip
      /\ s \notin RevRequests => m.name = ncr.fqdn
  BY Zenon, Kinds
<1>2. /\ db'[m.name] = After(db[m.name], m, session)
      /\ \A k \in Owners \ {m.name} : db'[k] = db[k]
  BY Zenon, ExecutedAt
<1> HIDE DEF m, s
<1>3. ASSUME NEW ip \in Ips PROVE OnePtr(db'[ip])
  <2>1. /\ ip \in Owners /\ ip # ncr.fqdn /\ session \in BOOLEAN
        /\ OnePtr(db[ip]) /\ db[ip] \subseteq Records
    BY Zenon, <1>1, NamesAssumption DEF Owners, IInv, DataInv, QueueInv, PtrInv
  <2>2. CASE ip # m.name
    BY Zenon, <1>2, <2>1, <2>2
  <2>3. CASE ip = m.name
    <3>1. s \in RevRequests
      BY Zenon, <1>1, <2>1, <2>3
    <3> DEFINE data == db[ip]
    <3>2. db'[ip] = After(data, m, session)
      BY Zenon, <1>2, <2>3
    <3>3. OnePtr(data) /\ data \subseteq Records
      BY Zenon, <2>1
    <3> HIDE DEF data, ncr
    <3>4. OnePtr(After(data, m, session))
      BY Zenon, <1>1, <2>1, <3>1, <3>3, ReplacePtrMakes, RemovePtrMakes DEF RevRequests
    <3> QED
      BY Zenon, <3>2, <3>4
  <2> QED
    BY Zenon, <2>2, <2>3
<1> QED
  BY Zenon, <1>3 DEF PtrInv

LEMMA FetchTypes == \A x \in Fetches : x.phase # "none" => x.message \in Messages
BY DEF Fetches, NoFetch

(* The clients of two transactions for the same reverse name *)
LEMMA SameClient ==
  ASSUME AskedInv, NEW d \in Dhcids, NEW e \in Dhcids,
         trans[d] # NoTransaction, trans[e] # NoTransaction,
         trans[d].ncr.reverse, trans[e].ncr.reverse, trans[d].ncr.ip = trans[e].ncr.ip,
         OfOneClient(trans[e].ncr.ip)
  PROVE  trans[d].ncr.dhcid = trans[e].ncr.dhcid
<1> DEFINE p == trans[d].ncr
           q == trans[e].ncr
<1>1. PICK s \in Scripts : AskedIn(s, p) /\ AskedIn(s, q)
  BY Zenon DEF AskedInv
<1>2. p.reverse /\ q.reverse /\ p.ip = q.ip /\ OfOneClient(q.ip)
  BY Zenon
<1> HIDE DEF p, q
<1>3. PICK i \in DOMAIN s.requests : /\ s.requests[i].reverse /\ s.requests[i].ip = p.ip
                                     /\ s.requests[i].dhcid = p.dhcid
  BY Zenon, <1>1, <1>2 DEF AskedIn
<1>4. PICK j \in DOMAIN s.requests : /\ s.requests[j].reverse /\ s.requests[j].ip = q.ip
                                     /\ s.requests[j].dhcid = q.dhcid
  BY Zenon, <1>1, <1>2 DEF AskedIn
<1>5. s.requests[i].dhcid = s.requests[j].dhcid
  <2>1. \A k, l \in DOMAIN s.requests :
          s.requests[k].reverse /\ s.requests[l].reverse
            /\ s.requests[k].ip = q.ip /\ s.requests[l].ip = q.ip
              => s.requests[k].dhcid = s.requests[l].dhcid
    BY Zenon, <1>2 DEF OfOneClient
  <2> QED
    BY Zenon, <1>2, <1>3, <1>4, <2>1
<1> QED
  BY Zenon, <1>3, <1>4, <1>5 DEF p, q

(* The answer of a server to client d is recorded. *)
LEMMA AnsweredDone ==
  ASSUME IInv, PromptInv, NEW d \in Dhcids, NEW code,
         fetch' = [fetch EXCEPT ![d] = [phase |-> "answered", message |-> fetch[d].message,
                                        rcode |-> code]],
         fetch[d].phase # "none", trans' = trans, queue' = queue, todo' = todo,
         \A e \in Dhcids : trans[e] # NoTransaction => Keeps(trans[e].ncr, World, World'),
         Settles(trans[d].curr_state, code, trans[d].ncr, World'), PtrInv'
  PROVE  PromptInv'
<1> DEFINE f == [phase |-> "answered", message |-> fetch[d].message, rcode |-> code]
           v == World'
<1>1. f.message = fetch[d].message /\ f.rcode = code
  BY Zenon
<1>2. fetch' = [fetch EXCEPT ![d] = f] /\ fetch \in [Dhcids -> Fetches]
  BY Zenon DEF IInv, FetchInv
<1> HIDE DEF f
<1>3. fetch'[d] = f /\ \A e \in Dhcids \ {d} : fetch'[e] = fetch[e]
  BY Zenon, <1>2
<1>4. \A e \in Dhcids : fetch[e].phase # "none" => trans[e] # NoTransaction
  BY Zenon, NotATransaction DEF IInv, FetchInv, Waits
<1>5. \A e \in Dhcids : trans[e] # NoTransaction => Sound(trans[e], World')
  BY Zenon, SoundCarries DEF PromptInv, SoundInv
<1>6. SoundInv'
  BY Zenon, <1>5 DEF PromptInv, SoundInv
<1>7. WireInv'
  <2>1. \A e \in Dhcids \ {d} : fetch[e].phase = "answered" =>
          Settles(trans[e].curr_state, fetch[e].rcode, trans[e].ncr, World')
    <3> SUFFICES ASSUME NEW e \in Dhcids, fetch[e].phase = "answered"
                 PROVE  Settles(trans[e].curr_state, fetch[e].rcode, trans[e].ncr, World')
      BY Zenon
    <3>1. fetch[e].phase # "none"
      BY Zenon
    <3>2. Settles(trans[e].curr_state, fetch[e].rcode, trans[e].ncr, World)
      BY Zenon, <3>1 DEF PromptInv, WireInv
    <3>3. Keeps(trans[e].ncr, World, World')
      BY Zenon, <1>4, <3>1
    <3> QED
      BY Zenon, <3>2, <3>3, SoundCarries
  <2> QED
    BY Zenon, <1>1, <1>3, <2>1 DEF PromptInv, WireInv
<1>8. AskedInv'
  BY Zenon DEF PromptInv, AskedInv
<1> QED
  BY Zenon, <1>6, <1>7, <1>8 DEF PromptInv

LEMMA ServeDone ==
  ASSUME IInv, PromptInv, NEW d \in Dhcids, Serve(d)
  PROVE  PromptInv'
<1> DEFINE message == fetch[d].message
           m == Contents(message)
           code == check_prerequisites(db[m.name], m)
           t == trans[d]
<1>1. /\ fetch[d].phase = "sent" /\ fetch[d].phase # "none" /\ Execute(message)
      /\ fetch' = [fetch EXCEPT ![d] = [phase |-> "answered", message |-> message,
                                        rcode |-> code]]
      /\ session' = session /\ trans' = trans /\ queue' = queue /\ todo' = todo
  BY Zenon DEF Serve
<1>2. message \in Messages /\ t # NoTransaction
  <2>1. fetch[d] \in Fetches /\ t \in Transactions
    BY Zenon, <1>1 DEF IInv, FetchInv, Waits
  <2> QED
    BY Zenon, <1>1, <2>1, FetchTypes, NotATransaction
<1>3. message.request = t.curr_state /\ message.ncr = t.ncr
  <2>1. message = MessageOf(t)
    BY Zenon, <1>1 DEF PromptInv, WireInv
  <2>2. \A x : MessageOf(x).request = x.curr_state /\ MessageOf(x).ncr = x.ncr
    BY Zenon DEF MessageOf
  <2> HIDE DEF message
  <2> QED
    BY Zenon, <2>1, <2>2
<1>4. t.ncr.dhcid = d /\ MayEnter(t, t.curr_state, World) /\ PtrInv /\ AskedInv
  BY Zenon, <1>2 DEF PromptInv, SoundInv, Sound
<1>5. /\ message.request \in AddStates => message.ncr.change_type = "CHG_ADD"
      /\ message.request \in RemoveStates => message.ncr.change_type = "CHG_REMOVE"
      /\ message.request \in RevRequests => t.ncr.reverse
  BY Zenon, <1>3, <1>4 DEF MayEnter, RevRequests, RevStates
<1>6. /\ Settles(message.request, code, message.ncr, World')
      /\ Keeps(message.ncr, World, World')
  BY Zenon, <1>1, <1>2, <1>4, <1>5, OwnExecuted
<1>7. PtrInv'
  BY Zenon, <1>1, <1>2, <1>4, PtrExecuted
<1> HIDE DEF message, code, m
<1>8. ASSUME NEW e \in Dhcids, trans[e] # NoTransaction, e # d
      PROVE  Keeps(trans[e].ncr, World, World')
  <2> DEFINE ncr == trans[e].ncr
  <2>1. ncr \in NameChangeRequests /\ ncr.dhcid = e
    BY Zenon, <1>8 DEF IInv, ListInv, Transactions, PromptInv, SoundInv
  <2>2. message.request \in RevRequests /\ message.ncr.ip = ncr.ip
          => ~(ncr.reverse /\ OfOneClient(ncr.ip))
    BY Zenon, <1>2, <1>3, <1>4, <1>5, <1>8, <2>1, SameClient
  <2>3. ncr.dhcid # message.ncr.dhcid
    BY Zenon, <1>3, <1>4, <1>8, <2>1
  <2> HIDE DEF ncr
  <2>4. Keeps(ncr, World, World')
    BY Zenon, <1>1, <1>2, <2>1, <2>2, <2>3, OtherExecuted
  <2> QED
    BY <2>4 DEF ncr
<1>9. \A e \in Dhcids : trans[e] # NoTransaction => Keeps(trans[e].ncr, World, World')
  BY Zenon, <1>3, <1>6, <1>8
<1>10. Settles(t.curr_state, code, t.ncr, World')
  BY Zenon, <1>3, <1>6
<1> QED
  BY Zenon, <1>1, <1>7, <1>9, <1>10, AnsweredDone DEF message

LEMMA RefuseDone ==
  ASSUME IInv, PromptInv, NEW d \in Dhcids, Refuse(d)
  PROVE  PromptInv'
<1>1. /\ fetch[d].phase # "none" /\ db' = db /\ session' = session
      /\ fetch' = [fetch EXCEPT ![d] = [phase |-> "answered", message |-> fetch[d].message,
                                        rcode |-> "REFUSED"]]
      /\ trans' = trans /\ queue' = queue /\ todo' = todo
  BY Zenon DEF Refuse
<1>2. World' = World
  BY Zenon, <1>1 DEF World
<1>3. Settles(trans[d].curr_state, "REFUSED", trans[d].ncr, World')
  BY Zenon DEF Settles, FwdSettled, RevSettled
<1>4. \A e \in Dhcids : Keeps(trans[e].ncr, World, World')
  BY Zenon, <1>2 DEF Keeps
<1>5. PtrInv'
  BY Zenon, <1>1 DEF PromptInv, PtrInv
<1> QED
  BY Zenon, <1>1, <1>3, <1>4, <1>5, AnsweredDone

LEMMA RequestDone ==
  ASSUME IInv, PromptInv, Request
  PROVE  PromptInv'
<1>1. /\ todo # << >> /\ todo' = Tail(todo) /\ queue' = Append(queue, Head(todo))
      /\ db' = db /\ session' = session /\ trans' = trans /\ fetch' = fetch
  BY Zenon DEF Request
<1>2. World' = World
  BY Zenon, <1>1 DEF World
<1>3. PICK s \in Scripts :
        /\ \A i \in DOMAIN todo : AskedIn(s, todo[i])
        /\ \A i \in DOMAIN queue : AskedIn(s, queue[i])
        /\ \A d \in Dhcids : trans[d] # NoTransaction => AskedIn(s, trans[d].ncr)
  BY Zenon DEF PromptInv, AskedInv
<1>4. \A i \in DOMAIN todo' : \E j \in DOMAIN todo : todo'[i] = todo[j]
  BY <1>1 DEF IInv, QueueInv
<1>5. \A i \in DOMAIN queue' : \/ i \in DOMAIN queue /\ queue'[i] = queue[i]
                               \/ queue'[i] = todo[1]
  BY <1>1 DEF IInv, QueueInv
<1>6. 1 \in DOMAIN todo
  BY <1>1 DEF IInv, QueueInv
<1>7. AskedInv'
  BY Zenon, <1>1, <1>3, <1>4, <1>5, <1>6 DEF AskedInv
<1>8. SoundInv' /\ WireInv' /\ PtrInv'
  BY Zenon, <1>1, <1>2 DEF PromptInv, SoundInv, WireInv, PtrInv
<1> QED
  BY Zenon, <1>7, <1>8 DEF PromptInv

LEMMA NewSound ==
  ASSUME NEW ncr \in NameChangeRequests, Matched(EnabledChanges(ncr)), NEW w
  PROVE  LET t == NewTransaction(EnabledChanges(ncr))
         IN  /\ Sound(t, w) /\ t.ncr.dhcid = ncr.dhcid
             /\ \A s : AskedIn(s, ncr) => AskedIn(s, t.ncr)
<1> DEFINE e == EnabledChanges(ncr)
           t == NewTransaction(e)
<1>1. /\ e.dhcid = ncr.dhcid /\ e.ip = ncr.ip /\ (e.reverse => ncr.reverse)
      /\ e.forward \/ e.reverse
  <2>1. e.dhcid = ncr.dhcid /\ e.ip = ncr.ip /\ (e.reverse => ncr.reverse)
    BY DEF EnabledChanges, NameChangeRequests
  <2>2. e.forward \/ e.reverse
    BY Zenon DEF Matched
  <2> QED
    BY Zenon, <2>1, <2>2
<1> HIDE DEF e
<1>2. /\ t.ncr = e /\ t.curr_state = "READY_ST" /\ t.outcome = "none"
      /\ ~t.forward_change_completed /\ ~t.reverse_change_completed
      /\ t.result = "ST_PENDING"
  BY Zenon DEF NewTransaction
<1> HIDE DEF t
<1>3. Truthful(t, w)
  BY Zenon, <1>1, <1>2 DEF Truthful
<1>4. MayEnter(t, t.curr_state, w) /\ t.curr_state \notin IoStates
  BY Zenon, <1>2 DEF MayEnter, RevStates, AddStates, RemoveStates, IoStates
<1>5. Settles(t.curr_state, t.outcome, t.ncr, w)
  BY <1>2, NothingSettled
<1>6. Sound(t, w)
  BY Zenon, <1>3, <1>4, <1>5 DEF Sound
<1>7. \A s : AskedIn(s, ncr) => AskedIn(s, e)
  BY Zenon, <1>1 DEF AskedIn
<1> QED
  BY Zenon, <1>1, <1>2, <1>6, <1>7 DEF t, e

LEMMA RemovedElements ==
  ASSUME NEW S, NEW s \in Seq(S), NEW i \in DOMAIN s
  PROVE  \A k \in DOMAIN dequeueAt(s, i) : \E j \in DOMAIN s : dequeueAt(s, i)[k] = s[j]
<1> DEFINE E == {s[j] : j \in DOMAIN s}
           r == dequeueAt(s, i)
<1>1. s \in Seq(E)
  <2>1. Len(s) \in Nat /\ s \in [1 .. Len(s) -> S] /\ DOMAIN s = 1 .. Len(s)
    OBVIOUS
  <2>2. s \in [1 .. Len(s) -> E]
    BY Zenon, <2>1
  <2> HIDE DEF E
  <2> QED
    BY <2>1, <2>2
<1> HIDE DEF E
<1>2. r \in Seq(E)
  BY Zenon, <1>1, RemovedType
<1> HIDE DEF r
<1>3. \A k \in DOMAIN r : r[k] \in E
  BY <1>2
<1> QED
  BY Zenon, <1>3 DEF E, r

LEMMA SweepDone ==
  ASSUME IInv, PromptInv, Sweep
  PROVE  PromptInv'
<1>1. /\ db' = db /\ session' = session /\ todo' = todo /\ fetch' = fetch
  BY Zenon DEF Sweep
<1>2. World' = World
  BY <1>1 DEF World
<1>3. \A d \in Dhcids : \/ Unfinished[d] = trans[d]
                        \/ Unfinished[d] = NoTransaction /\ isModelDone(trans[d])
  BY Zenon DEF Unfinished
<1>4. DOMAIN Unfinished = Dhcids
  BY DEF Unfinished
<1>5. \A d \in Dhcids : fetch[d].phase # "none" => ~isModelDone(trans[d]) /\ trans[d] # NoTransaction
  BY Zenon, NotATransaction DEF IInv, FetchInv, Waits, isModelDone, IoStates
<1>6. PICK s \in Scripts :
        /\ \A i \in DOMAIN todo : AskedIn(s, todo[i])
        /\ \A i \in DOMAIN queue : AskedIn(s, queue[i])
        /\ \A d \in Dhcids : trans[d] # NoTransaction => AskedIn(s, trans[d].ncr)
  BY Zenon DEF PromptInv, AskedInv
<1>7. PtrInv'
  BY Zenon, <1>1 DEF PromptInv, PtrInv
<1>8. ASSUME trans' = Unfinished,
             \A i \in DOMAIN queue' : \E j \in DOMAIN queue : queue'[i] = queue[j]
      PROVE  PromptInv'
  <2>1. SoundInv'
    BY Zenon, <1>2, <1>3, <1>8 DEF PromptInv, SoundInv
  <2>2. WireInv'
    BY Zenon, <1>1, <1>2, <1>3, <1>5, <1>8 DEF PromptInv, WireInv
  <2>3. AskedInv'
    BY Zenon, <1>1, <1>3, <1>6, <1>8 DEF AskedInv
  <2> QED
    BY <1>7, <2>1, <2>2, <2>3 DEF PromptInv
<1>9. CASE trans' = Unfinished /\ queue' = queue
  BY Zenon, <1>8, <1>9
<1>10. ASSUME NEW i \in Eligible(Unfinished), trans' = makeTransaction(Unfinished, queue[i]),
              queue' = dequeueAt(queue, i)
       PROVE  PromptInv'
  <2> DEFINE ncr == queue[i]
             t == NewTransaction(EnabledChanges(ncr))
             c == ncr.dhcid
  <2>1. i \in DOMAIN queue /\ Unfinished[c] = NoTransaction
    BY Zenon, <1>10 DEF Eligible
  <2>2. ncr \in NameChangeRequests /\ c \in Dhcids
    <3>1. queue \in Seq(NameChangeRequests) /\ i \in 1 .. Len(queue)
      BY <2>1 DEF IInv, QueueInv
    <3>2. queue[i] \in NameChangeRequests
      BY <3>1
    <3> QED
      BY Zenon, <3>2 DEF NameChangeRequests
  <2>3. \A k \in DOMAIN queue' : \E j \in DOMAIN queue : queue'[k] = queue[j]
    <3>1. queue \in Seq(NameChangeRequests)
      BY Zenon DEF IInv, QueueInv
    <3> QED
      BY <1>10, <2>1, <3>1, RemovedElements
  <2>4. CASE ~Matched(EnabledChanges(ncr))
    BY Zenon, <1>8, <1>10, <2>3, <2>4 DEF makeTransaction
  <2>5. CASE Matched(EnabledChanges(ncr))
    <3>1. /\ Sound(t, World) /\ t.ncr.dhcid = c /\ AskedIn(s, t.ncr)
      BY Zenon, <1>6, <2>1, <2>2, <2>5, NewSound
    <3>2. trans' = [Unfinished EXCEPT ![c] = t]
      BY Zenon, <1>10, <2>5 DEF makeTransaction
    <3> HIDE DEF t
    <3>3. trans'[c] = t /\ \A d \in Dhcids \ {c} : trans'[d] = Unfinished[d]
      BY Zenon, <1>4, <2>2, <3>2
    <3>4. fetch[c].phase = "none"
      BY Zenon, <1>3, <1>5, <2>1, <2>2
    <3> HIDE DEF c
    <3>5. SoundInv'
      BY Zenon, <1>2, <1>3, <3>1, <3>3 DEF PromptInv, SoundInv
    <3>6. WireInv'
      BY Zenon, <1>1, <1>2, <1>3, <1>5, <3>3, <3>4 DEF PromptInv, WireInv
    <3>7. AskedInv'
      <4>1. \A k \in DOMAIN todo' : AskedIn(s, todo'[k])
        BY Zenon, <1>1, <1>6
      <4>2. \A k \in DOMAIN queue' : AskedIn(s, queue'[k])
        BY Zenon, <1>6, <2>3
      <4>3. \A d \in Dhcids : trans'[d] # NoTransaction => AskedIn(s, trans'[d].ncr)
        BY Zenon, <1>3, <1>6, <3>1, <3>3
      <4> QED
        BY Zenon, <4>1, <4>2, <4>3 DEF AskedInv
    <3> QED
      BY Zenon, <1>7, <3>5, <3>6, <3>7 DEF PromptInv
  <2> QED
    BY Zenon, <2>4, <2>5
<1> QED
  BY Zenon, <1>9, <1>10 DEF Sweep

-----------------------------------------------------------------------------
LEMMA InitDone == Init => DoneInv
<1> SUFFICES ASSUME Init PROVE PromptInv
  BY DEF DoneInv
<1>1. SoundInv
  BY Zenon DEF Init, SoundInv
<1>2. WireInv
  BY Zenon DEF Init, WireInv, NoFetch
<1>3. PtrInv
  BY Zenon, NamesAssumption DEF Init, PtrInv, OnePtr, Owners
<1>4. AskedInv
  <2>1. PICK s \in Scripts : todo = s.requests
    BY Zenon DEF Init
  <2>2. \A i \in DOMAIN todo : AskedIn(s, todo[i])
    BY Zenon, <2>1 DEF AskedIn
  <2>3. /\ \A i \in DOMAIN queue : AskedIn(s, queue[i])
        /\ \A d \in Dhcids : trans[d] = NoTransaction
    BY DEF Init
  <2> QED
    BY Zenon, <2>1, <2>2, <2>3 DEF AskedInv
<1> QED
  BY <1>1, <1>2, <1>3, <1>4 DEF PromptInv

LEMMA StepDone == IInv /\ DoneInv /\ [Next]_vars => DoneInv'
<1> SUFFICES ASSUME IInv, DoneInv, [Next]_vars, overdue' = 0 PROVE PromptInv'
  BY Zenon DEF DoneInv
<1>1. ASSUME NEW message \in late, ServeLate(message) PROVE FALSE
  BY <1>1 DEF ServeLate, IInv, LateInv
<1>2. CASE UNCHANGED vars
  <2>1. PromptInv
    BY Zenon, <1>2 DEF DoneInv, vars
  <2>2. World' = World
    BY Zenon, <1>2 DEF vars, World
  <2> QED
    BY Zenon, <1>2, <2>1, <2>2 DEF vars, PromptInv, SoundInv, WireInv, PtrInv, AskedInv
<1>3. CASE Request
  BY Zenon, <1>3, RequestDone DEF Request, DoneInv
<1>4. CASE Sweep
  BY SMTT(30), <1>4, SweepDone DEF Sweep, DoneInv
<1>5. ASSUME NEW d \in Dhcids, RunModel(d) PROVE PromptInv'
  <2>1. overdue = 0
    BY ZenonT(30), <1>5 DEF RunModel, Handle
  <2> QED
    BY Zenon, <1>5, <2>1, RunModelDone DEF DoneInv
<1>6. ASSUME NEW d \in Dhcids, Receive(d) PROVE PromptInv'
  BY Zenon, <1>6, ReceiveDone DEF Receive, DoneInv
<1>7. ASSUME NEW d \in Dhcids, GiveUp(d) PROVE PromptInv'
  BY Zenon, <1>7, GiveUpDone DEF GiveUp, DoneInv
<1>8. ASSUME NEW d \in Dhcids, Serve(d) PROVE PromptInv'
  <2>1. overdue = 0
    BY ZenonT(30), <1>8 DEF Serve
  <2> QED
    BY Zenon, <1>8, <2>1, ServeDone DEF DoneInv
<1>9. ASSUME NEW d \in Dhcids, Refuse(d) PROVE PromptInv'
  <2>1. overdue = 0
    BY ZenonT(30), <1>9 DEF Refuse
  <2> QED
    BY Zenon, <1>9, <2>1, RefuseDone DEF DoneInv
<1> QED
  BY SMTT(30), <1>1, <1>2, <1>3, <1>4, <1>5, <1>6, <1>7, <1>8, <1>9 DEF Next

(* A transaction of bundy-d2 that ends with ST_COMPLETED has made the      *)
(* changes it was asked for, and they still stand: neither its own retries *)
(* nor the transactions of other clients that ran meanwhile undid them, as *)
(* long as no request was executed after it was given up.                  *)
THEOREM CompletedChangesStand == Spec => []CompletedMeansDone
<1>1. ASSUME DoneInv, overdue = 0, NEW d \in Dhcids, isModelDone(trans[d]),
             trans[d].result = "ST_COMPLETED"
      PROVE  /\ trans[d].ncr.forward => ForwardStands(trans[d].ncr)
             /\ trans[d].ncr.reverse /\ OfOneClient(trans[d].ncr.ip) =>
                  ReverseStands(trans[d].ncr)
  <2>1. Truthful(trans[d], World)
    BY Zenon, <1>1, NotATransaction DEF DoneInv, PromptInv, SoundInv, Sound
  <2> DEFINE ncr == trans[d].ncr
  <2>2. /\ ncr.forward => Fwd(World, ncr)
        /\ ncr.reverse => Rev(World, ncr)
    BY Zenon, <1>1, <2>1 DEF Truthful
  <2> HIDE DEF ncr
  <2>3. /\ ncr.forward => ForwardStands(ncr)
        /\ ncr.reverse /\ OfOneClient(ncr.ip) => ReverseStands(ncr)
    BY Zenon, <2>2 DEF Fwd, Rev, World, FwdIn, RevIn, Alone, ForwardStands, ReverseStands, StandsAlone
  <2> QED
    BY Zenon, <2>3 DEF ncr
<1>2. DoneInv => CompletedMeansDone
  BY Zenon, <1>1 DEF CompletedMeansDone
<1>3. Spec => []DoneInv
  BY InitDone, StepDone, Invariance, PTL DEF Spec
<1> QED
  BY <1>2, <1>3, PTL
=============================================================================
