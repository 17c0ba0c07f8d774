-------------------------- MODULE D2ProcessProofs ---------------------------
(***************************************************************************)
(* The safety of the main loop of bundy-d2, for any clients, queue sizes,  *)
(* numbers of transactions and sequences of commands.                      *)
(***************************************************************************)
EXTENDS D2Process, SequenceTheorems, TLAPS

USE NumbersAssumption

StopStates == {"STOPPED_QUEUE_FULL", "STOPPED_RECV_ERROR", "STOPPED"}

(* The queue manager and its listener: a receive is outstanding only while *)
(* the manager is RUNNING, when it always is, or STOPPING, when the state  *)
(* that follows is known.                                                  *)
MgrInv(m) ==
  /\ m \in Mgrs /\ ~m.dangling
  /\ m.mgr_state = "RUNNING" <=> m.listening
  /\ m.mgr_state = "RUNNING" => m.io_pending
  /\ m.io_pending => m.mgr_state \in {"RUNNING", "STOPPING"}
  /\ m.io_pending <=> m.receive # "none"
  /\ m.mgr_state # "NOT_INITTED" => m.listener
  /\ m.mgr_state = "STOPPING" => m.target_stop_state \in StopStates
  /\ m.receive = "SUCCESS" => m.ncr \in Requests

(* The number of the last request that was taken from the listener *)
LastTaken == IF mgr.receive = "SUCCESS" THEN sent - 1 ELSE sent

(* The requests of q are in order, none is overtaken by one of st, and n   *)
(* is at least the last of them.                                           *)
Ordered(q, st, n) ==
  /\ \A i \in DOMAIN q : st[q[i].dhcid] < q[i].id /\ q[i].id <= n
  /\ \A i, j \in DOMAIN q : i < j => q[i].id < q[j].id
  /\ \A d \in Dhcids : st[d] <= n

QueueInv ==
  /\ Ordered(queue, started, LastTaken)
  /\ mgr.receive = "SUCCESS" => mgr.ncr.id = sent

IInv == TypeOK /\ MgrInv(mgr) /\ QueueInv

-----------------------------------------------------------------------------
(* The methods of the queue manager and its listener *)

(* Stopping a manager that is running, or that hears of its receive *)
LEMMA StopFields ==
  ASSUME NEW m \in Mgrs, m.listener, NEW target \in StopStates
  PROVE  LET s == stopListening(m, target)
         IN  /\ s \in Mgrs /\ s.listener = m.listener /\ s.dangling = m.dangling
             /\ s.mgr_state = IF m.io_pending THEN "STOPPING" ELSE target
             /\ s.target_stop_state = target /\ ~s.listening
             /\ s.io_pending = m.io_pending /\ s.ncr = m.ncr
             /\ s.receive = IF m.receive = "pending" THEN "STOPPED" ELSE m.receive
<1> DEFINE s == stopListening(m, target)
<1> DEFINE t == [m EXCEPT !.target_stop_state = target]
           c == closeListener(t)
<1>1. /\ t \in Mgrs /\ t.listener = m.listener /\ t.dangling = m.dangling
      /\ t.target_stop_state = target /\ t.mgr_state = m.mgr_state
      /\ t.io_pending = m.io_pending /\ t.ncr = m.ncr /\ t.receive = m.receive
  BY Zenon DEF Mgrs, MgrStates, StopStates
<1> HIDE DEF t
<1>2. /\ c \in Mgrs /\ c.listener = m.listener /\ c.dangling = m.dangling
      /\ c.target_stop_state = target /\ ~c.listening
      /\ c.io_pending = m.io_pending /\ c.ncr = m.ncr
      /\ c.receive = IF m.receive = "pending" THEN "STOPPED" ELSE m.receive
  BY Zenon, <1>1 DEF closeListener, Mgrs, Completed
<1>3. s = IF c.io_pending THEN [c EXCEPT !.mgr_state = "STOPPING"]
          ELSE [c EXCEPT !.mgr_state = c.target_stop_state]
  BY DEF stopListening, updateStopState, t
<1> HIDE DEF c, s
<1>4. /\ s \in Mgrs /\ s.listener = m.listener /\ s.dangling = m.dangling
      /\ s.mgr_state = IF m.io_pending THEN "STOPPING" ELSE target
      /\ s.target_stop_state = target /\ ~s.listening
      /\ s.io_pending = m.io_pending /\ s.ncr = m.ncr
      /\ s.receive = IF m.receive = "pending" THEN "STOPPED" ELSE m.receive
  BY Zenon, <1>2, <1>3 DEF Mgrs, MgrStates, StopStates
<1> QED
  BY <1>4 DEF s

LEMMA StopRunning ==
  ASSUME MgrInv(mgr), mgr.listener, NEW target \in StopStates
  PROVE  /\ MgrInv(stopListening(mgr, target))
         /\ (stopListening(mgr, target).receive = "SUCCESS" <=> mgr.receive = "SUCCESS")
         /\ stopListening(mgr, target).ncr = mgr.ncr
<1> DEFINE s == stopListening(mgr, target)
<1>1. mgr \in Mgrs
  BY DEF MgrInv
<1>2. /\ s \in Mgrs /\ s.listener = mgr.listener /\ s.dangling = mgr.dangling
      /\ s.mgr_state = IF mgr.io_pending THEN "STOPPING" ELSE target
      /\ s.target_stop_state = target /\ ~s.listening
      /\ s.io_pending = mgr.io_pending /\ s.ncr = mgr.ncr
      /\ s.receive = IF mgr.receive = "pending" THEN "STOPPED" ELSE mgr.receive
  BY ZenonT(30), <1>1, StopFields
<1> HIDE DEF s
<1>3. MgrInv(s)
  BY <1>1, <1>2 DEF MgrInv, StopStates
<1> QED
  BY <1>2, <1>3 DEF s

(* The receive handler, and the receive that follows *)
LEMMA InvokeHandler ==
  ASSUME MgrInv(mgr), mgr.receive \in Completed
  PROVE  /\ MgrInv(invokeRecvHandler(mgr, mgr.receive))
         /\ invokeRecvHandler(mgr, mgr.receive).receive \in {"none", "pending"}
<1> DEFINE m == [mgr EXCEPT !.io_pending = FALSE, !.receive = "none", !.ncr = NoRequest]
           h == recvHandler(m, mgr.receive)
<1>1. /\ m \in Mgrs /\ ~m.dangling /\ ~m.io_pending /\ m.receive = "none" /\ m.listener
      /\ m.mgr_state = "RUNNING" <=> m.listening
      /\ m.mgr_state \in {"RUNNING", "STOPPING"}
      /\ m.mgr_state = "STOPPING" => m.target_stop_state \in StopStates
  BY Zenon DEF MgrInv, Mgrs, Completed
<1> HIDE DEF m
<1>2. ASSUME NEW target \in StopStates
      PROVE  /\ MgrInv(stopListening(m, target)) /\ ~stopListening(m, target).listening
             /\ stopListening(m, target).receive \in {"none", "pending"}
  <2> DEFINE s == stopListening(m, target)
  <2>1. /\ s \in Mgrs /\ s.listener = m.listener /\ s.dangling = m.dangling
        /\ s.mgr_state = IF m.io_pending THEN "STOPPING" ELSE target
        /\ s.target_stop_state = target /\ ~s.listening
        /\ s.io_pending = m.io_pending /\ s.ncr = m.ncr
        /\ s.receive = IF m.receive = "pending" THEN "STOPPED" ELSE m.receive
    BY ZenonT(30), <1>1, StopFields
  <2> HIDE DEF s
  <2>2. MgrInv(s) /\ ~s.listening /\ s.receive \in {"none", "pending"}
    BY <1>1, <2>1 DEF MgrInv, StopStates
  <2> QED
    BY <2>2 DEF s
<1>3. \/ h = m /\ (m.listening \/ m.mgr_state = "STOPPING")
      \/ MgrInv(h) /\ ~h.listening /\ h.receive \in {"none", "pending"}
  BY <1>1, <1>2 DEF recvHandler, MgrInv, StopStates, updateStopState, Mgrs, MgrStates
<1>4. invokeRecvHandler(mgr, mgr.receive) = IF h.listening THEN receiveNext(h) ELSE h
  BY DEF invokeRecvHandler, m
<1> HIDE DEF h
<1>5. CASE h.listening
  <2>1. receiveNext(m) \in Mgrs
    BY ZenonT(30), <1>1 DEF receiveNext, Mgrs
  <2>2. /\ receiveNext(m).io_pending /\ receiveNext(m).receive = "pending"
        /\ receiveNext(m).listening = m.listening /\ receiveNext(m).listener
        /\ ~receiveNext(m).dangling /\ receiveNext(m).mgr_state = m.mgr_state
    BY <1>1 DEF receiveNext, Mgrs
  <2> QED
    BY <1>1, <1>3, <1>4, <1>5, <2>1, <2>2 DEF MgrInv
<1>6. CASE ~h.listening
  BY <1>1, <1>3, <1>4, <1>6 DEF MgrInv
<1> QED
  BY <1>5, <1>6

(* A manager that can be started: it has a listener that is not in use. *)
Startable(m) ==
  /\ m \in Mgrs /\ ~m.dangling /\ m.listener /\ ~m.listening /\ ~m.io_pending
  /\ m.receive = "none" /\ m.mgr_state \notin {"RUNNING", "STOPPING"}

LEMMA Start ==
  ASSUME NEW m, Startable(m), TryStart(m), faults \in 0..MaxFaults
  PROVE  /\ MgrInv(mgr') /\ mgr'.receive \in {"none", "pending"}
         /\ faults' \in 0..MaxFaults
<1>1. CASE mgr' = startListening(m) /\ UNCHANGED faults
  <2>1. /\ mgr' \in Mgrs /\ mgr'.io_pending /\ mgr'.receive = "pending" /\ mgr'.listening
        /\ mgr'.listener /\ ~mgr'.dangling /\ mgr'.mgr_state = "RUNNING"
    BY Zenon, <1>1 DEF startListening, receiveNext, Startable, Mgrs, MgrStates
  <2> QED
    BY <1>1, <2>1 DEF MgrInv
<1>2. CASE faults < MaxFaults /\ faults' = faults + 1 /\ mgr' = closeListener(m)
  <2>1. /\ mgr' \in Mgrs /\ ~mgr'.io_pending /\ mgr'.receive = "none" /\ ~mgr'.listening
        /\ mgr'.listener /\ ~mgr'.dangling /\ mgr'.mgr_state = m.mgr_state
    BY ZenonT(30), <1>2 DEF closeListener, Startable, Mgrs
  <2>2. faults' \in 0..MaxFaults
    BY <1>2
  <2> QED
    BY <2>1, <2>2 DEF MgrInv, Startable
<1> QED
  BY <1>1, <1>2 DEF TryStart

LEMMA Reconfigure ==
  ASSUME MgrInv(mgr), mgr.mgr_state \notin {"RUNNING", "STOPPING"}
  PROVE  Startable(initUDPListener(removeListener(mgr)))
<1> DEFINE r == removeListener(mgr)
<1>1. mgr \in Mgrs /\ ~mgr.dangling /\ mgr.receive = "none"
  BY DEF MgrInv
<1>2. /\ r \in Mgrs /\ ~r.dangling /\ ~r.listening /\ ~r.io_pending /\ r.receive = "none"
  BY Zenon, <1>1 DEF removeListener, Mgrs, MgrStates
<1> HIDE DEF r
<1>3. Startable(initUDPListener(r))
  BY ZenonT(30), <1>2 DEF initUDPListener, Startable, Mgrs, MgrStates
<1> QED
  BY <1>3 DEF r

(* The part of a turn of the loop that deals with the queue manager *)
LEMMA CheckQueueStatus ==
  ASSUME MgrInv(mgr), faults \in 0..MaxFaults, reconf \in BOOLEAN, checkQueueStatus
  PROVE  /\ MgrInv(mgr') /\ faults' \in 0..MaxFaults /\ reconf' \in BOOLEAN
         /\ mgr'.receive = "SUCCESS" <=> mgr.receive = "SUCCESS"
         /\ mgr.receive = "SUCCESS" => mgr'.ncr = mgr.ncr
<1>1. CASE mgr.mgr_state = "RUNNING"
  <2>1. mgr.listener /\ "STOPPED" \in StopStates
    BY <1>1 DEF MgrInv, StopStates
  <2> QED
    BY <1>1, <2>1, StopRunning DEF checkQueueStatus
<1>2. CASE mgr.mgr_state = "STOPPED_QUEUE_FULL"
  <2>1. Startable(mgr)
    BY <1>2 DEF MgrInv, Startable
  <2>2. CASE TryStart(mgr)
    BY <1>2, <2>1, <2>2, Start DEF checkQueueStatus, Startable
  <2>3. CASE UNCHANGED <<mgr, faults>>
    BY <1>2, <2>3 DEF checkQueueStatus
  <2> QED
    BY <1>2, <2>2, <2>3 DEF checkQueueStatus
<1>3. CASE mgr.mgr_state \notin {"RUNNING", "STOPPED_QUEUE_FULL", "STOPPING"}
  <2>1. CASE reconfigureQueueMgr
    BY ZenonT(30), <1>3, <2>1, Reconfigure, Start DEF reconfigureQueueMgr, MgrInv
  <2>2. CASE UNCHANGED <<mgr, reconf, faults>>
    BY <2>2
  <2> QED
    BY <1>3, <2>1, <2>2 DEF checkQueueStatus
<1>4. CASE mgr.mgr_state = "STOPPING"
  BY <1>4 DEF checkQueueStatus
<1> QED
  BY <1>1, <1>2, <1>3, <1>4

-----------------------------------------------------------------------------
(* The queue *)
LEMMA Removed ==
  ASSUME NEW S, NEW s \in Seq(S), NEW i \in DOMAIN s
  PROVE  /\ RemoveAt(s, i) \in Seq(S) /\ Len(RemoveAt(s, i)) = Len(s) - 1
         /\ \A j \in DOMAIN RemoveAt(s, i) :
              /\ j \in Nat /\ (j < i => j \in DOMAIN s) /\ (j >= i => j + 1 \in DOMAIN s)
              /\ RemoveAt(s, i)[j] = IF j < i THEN s[j] ELSE s[j + 1]
<1> DEFINE a == SubSeq(s, 1, i - 1)
           b == SubSeq(s, i + 1, Len(s))
<1>1. /\ Len(s) \in Nat /\ i \in 1..Len(s) /\ DOMAIN s = 1..Len(s)
      /\ \A k \in 1..Len(s) : s[k] \in S
  BY LenProperties
<1>2. /\ a \in Seq(S) /\ Len(a) = i - 1 /\ \A k \in 1..i - 1 : a[k] = s[k]
  BY <1>1, SubSeqProperties
<1>3. /\ b \in Seq(S) /\ Len(b) = Len(s) - i /\ \A k \in 1..Len(s) - i : b[k] = s[i + k]
  BY <1>1, SubSeqProperties
<1> DEFINE c == a \o b
<1> HIDE DEF a, b
<1>4. /\ c \in Seq(S) /\ Len(c) = Len(a) + Len(b)
      /\ \A k \in 1..Len(a) + Len(b) : c[k] = IF k <= Len(a) THEN a[k] ELSE b[k - Len(a)]
  BY ZenonT(30), <1>2, <1>3, ConcatProperties
<1> HIDE DEF c
<1>5. Len(c) = Len(s) - 1 /\ DOMAIN c = 1..Len(s) - 1
  BY <1>1, <1>2, <1>3, <1>4, LenProperties
<1>6. ASSUME NEW k \in 1..Len(s) - 1
      PROVE  c[k] = IF k < i THEN s[k] ELSE s[k + 1]
  <2>1. k \in 1..Len(a) + Len(b) /\ (k <= Len(a) <=> k < i)
    BY <1>1, <1>2, <1>3
  <2>2. CASE k < i
    BY <1>1, <1>2, <1>4, <2>1, <2>2
  <2>3. CASE ~(k < i)
    <3>1. k - Len(a) \in 1..Len(s) - i /\ i + (k - Len(a)) = k + 1
      BY <1>1, <1>2, <2>3
    <3> QED
      BY Zenon, <1>3, <1>4, <2>1, <2>3, <3>1
  <2> QED
    BY <2>2, <2>3
<1>7. RemoveAt(s, i) = c
  BY DEF RemoveAt, a, b, c
<1>8. ASSUME NEW j \in DOMAIN c
      PROVE  /\ j \in Nat /\ (j < i => j \in DOMAIN s) /\ (j >= i => j + 1 \in DOMAIN s)
             /\ c[j] = IF j < i THEN s[j] ELSE s[j + 1]
  BY <1>1, <1>5, <1>6
<1> QED
  BY <1>4, <1>5, <1>7, <1>8

LEMMA Elements ==
  ASSUME NEW q \in Seq(Requests)
  PROVE  /\ Len(q) \in Nat /\ DOMAIN q = 1..Len(q)
         /\ \A k \in DOMAIN q : /\ k \in Nat /\ q[k] \in Requests
                                /\ q[k].dhcid \in Dhcids
                                /\ q[k].id \in Nat /\ q[k].id \in 0..MaxRequests
<1>1. /\ Len(q) \in Nat /\ DOMAIN q = 1..Len(q)
      /\ \A k \in DOMAIN q : k \in Nat /\ q[k] \in Requests
  BY LenProperties
<1>2. ASSUME NEW e \in Requests
      PROVE  e.dhcid \in Dhcids /\ e.id \in Nat /\ e.id \in 0..MaxRequests
  BY DEF Requests
<1> QED
  BY <1>1, <1>2

LEMMA OrderedAppend ==
  ASSUME NEW q \in Seq(Requests), NEW st \in [Dhcids -> Nat], NEW n \in Int,
         Ordered(q, st, n), NEW r \in Requests, r.id = n + 1
  PROVE  Ordered(Append(q, r), st, n + 1) /\ Ordered(q, st, n + 1)
<1> DEFINE p == Append(q, r)
<1>1. /\ Len(q) \in Nat /\ DOMAIN q = 1..Len(q) /\ DOMAIN p = 1..Len(q) + 1
      /\ \A i \in 1..Len(q) : p[i] = q[i]
      /\ p[Len(q) + 1] = r
      /\ \A i \in 1..Len(q) : q[i] \in Requests
  BY AppendProperties, LenProperties
<1> HIDE DEF p
<1>2. r.dhcid \in Dhcids /\ \A i \in DOMAIN q : q[i].id \in Int /\ q[i].dhcid \in Dhcids
  BY <1>1 DEF Requests
<1>3. \A i \in DOMAIN p : st[p[i].dhcid] < p[i].id /\ p[i].id <= n + 1
  BY <1>1, <1>2 DEF Ordered
<1>4. \A i, j \in DOMAIN p : i < j => p[i].id < p[j].id
  BY <1>1, <1>2 DEF Ordered
<1>5. \A d \in Dhcids : st[d] <= n + 1
  BY DEF Ordered
<1>6. Ordered(q, st, n + 1)
  BY <1>2, <1>5 DEF Ordered
<1> QED
  BY <1>3, <1>4, <1>5, <1>6 DEF Ordered, p

LEMMA OrderedRemove ==
  ASSUME NEW q \in Seq(Requests), NEW st \in [Dhcids -> Nat], NEW n \in Int,
         Ordered(q, st, n), NEW i \in DOMAIN q,
         \A j \in DOMAIN q : j < i => q[j].dhcid # q[i].dhcid
  PROVE  Ordered(RemoveAt(q, i), [st EXCEPT ![q[i].dhcid] = q[i].id], n)
<1> DEFINE p == RemoveAt(q, i)
           c == q[i].dhcid
           u == [st EXCEPT ![c] = q[i].id]
<1>1. /\ i \in Nat
      /\ \A k \in DOMAIN q : k \in Nat /\ q[k].dhcid \in Dhcids /\ q[k].id \in Nat
  BY Elements
<1>2. \A j \in DOMAIN p :
        /\ j \in Nat /\ (j < i => j \in DOMAIN q) /\ (j >= i => j + 1 \in DOMAIN q)
        /\ p[j] = IF j < i THEN q[j] ELSE q[j + 1]
  BY Removed
<1> HIDE DEF p
<1>3. ASSUME NEW j \in DOMAIN p
      PROVE  \E k \in DOMAIN q : /\ p[j] = q[k] /\ k # i
                                 /\ k = IF j < i THEN j ELSE j + 1
  BY <1>1, <1>2
<1>4. \A d \in Dhcids : u[d] = IF d = c THEN q[i].id ELSE st[d]
  BY <1>1
<1>5. ASSUME NEW k \in DOMAIN q, k # i
      PROVE  u[q[k].dhcid] < q[k].id /\ q[k].id <= n
  <2>1. CASE q[k].dhcid # c
    BY <1>1, <1>4, <2>1 DEF Ordered
  <2>2. CASE q[k].dhcid = c
    <3>1. i < k
      BY <1>1, <1>5, <2>2
    <3> QED
      BY <1>1, <1>4, <2>2, <3>1 DEF Ordered
  <2> QED
    BY <2>1, <2>2
<1>6. \A j \in DOMAIN p : u[p[j].dhcid] < p[j].id /\ p[j].id <= n
  BY <1>3, <1>5
<1>7. \A j, k \in DOMAIN p : j < k => p[j].id < p[k].id
  BY <1>1, <1>2, <1>3 DEF Ordered
<1>8. \A d \in Dhcids : u[d] <= n
  BY <1>1, <1>4 DEF Ordered
<1> QED
  BY <1>6, <1>7, <1>8 DEF Ordered, p

(* The other part of a turn of the loop, which starts a transaction *)
LEMMA Sweep ==
  ASSUME IInv, sweep
  PROVE  /\ queue' \in Seq(Requests) /\ Len(queue') <= MaxQueueSize
         /\ trans' \in [Dhcids -> {"none", "active", "answered", "done"}]
         /\ started' \in [Dhcids -> 0..MaxRequests]
         /\ Ordered(queue', started', LastTaken)
<1>1. /\ queue \in Seq(Requests) /\ Len(queue) <= MaxQueueSize /\ Len(queue) \in Nat
      /\ started \in [Dhcids -> Nat] /\ started \in [Dhcids -> 0..MaxRequests]
      /\ Ordered(queue, started, LastTaken) /\ LastTaken \in Int
  BY DEF IInv, TypeOK, QueueInv, LastTaken
<1>2. Unfinished \in [Dhcids -> {"none", "active", "answered", "done"}]
  BY DEF IInv, TypeOK, Unfinished
<1>3. CASE Cardinality(Busy) < MaxTransactions /\ Eligible # {}
  <2>1. PICK i \in Eligible :
          /\ \A j \in Eligible : i <= j
          /\ queue' = RemoveAt(queue, i)
          /\ trans' = IF queue[i].dhcid \in Unmatched THEN Unfinished
                      ELSE [Unfinished EXCEPT ![queue[i].dhcid] = "active"]
          /\ started' = [started EXCEPT ![queue[i].dhcid] = queue[i].id]
    BY <1>3 DEF sweep
  <2>2. /\ i \in DOMAIN queue /\ DOMAIN queue = 1..Len(queue)
        /\ queue[i] \in Requests /\ queue[i].dhcid \in Dhcids
        /\ queue[i].id \in 0..MaxRequests
    BY <1>1, Elements DEF Eligible
  <2>3. \A j \in DOMAIN queue : j < i => queue[j].dhcid # queue[i].dhcid
    BY <1>1, <2>1, <2>2 DEF Eligible
  <2>4. Ordered(queue', started', LastTaken)
    BY ZenonT(30), <1>1, <2>1, <2>2, <2>3, OrderedRemove
  <2>5. queue' \in Seq(Requests) /\ Len(queue') = Len(queue) - 1
    BY Zenon, <1>1, <2>1, <2>2, Removed
  <2>6. trans' \in [Dhcids -> {"none", "active", "answered", "done"}]
    BY <1>2, <2>1, <2>2
  <2>7. started' \in [Dhcids -> 0..MaxRequests]
    BY <1>1, <2>1, <2>2
  <2> QED
    BY <1>1, <2>4, <2>5, <2>6, <2>7
<1>4. CASE ~(Cardinality(Busy) < MaxTransactions /\ Eligible # {})
  BY <1>1, <1>2, <1>4 DEF sweep
<1> QED
  BY <1>3, <1>4

-----------------------------------------------------------------------------
LEMMA InitInv == Init => IInv
<1> SUFFICES ASSUME Init PROVE IInv
  OBVIOUS
<1>1. MgrInv(mgr)
  BY DEF Init, MgrInv, Mgrs, MgrStates, NoRequest
<1>2. /\ queue = << >> /\ queue \in Seq(Requests) /\ Len(queue) = 0 /\ DOMAIN queue = {}
      /\ 0 <= MaxQueueSize
  BY EmptySeq DEF Init
<1>3. started \in [Dhcids -> 0..MaxRequests] /\ sent \in 0..MaxRequests
        /\ faults \in 0..MaxFaults
  BY DEF Init
<1>4. todo \in Seq(CommandKinds)
  BY CommandsAssumption DEF Init
<1>5. TypeOK
  BY ZenonT(30), <1>1, <1>2, <1>3, <1>4 DEF Init, TypeOK, MgrInv
<1>6. QueueInv
  BY <1>2 DEF Init, QueueInv, Ordered, LastTaken
<1> QED
  BY <1>1, <1>5, <1>6 DEF IInv

(* One turn of the loop *)
LEMMA LoopInv ==
  ASSUME IInv, Loop
  PROVE  IInv'
<1>1. CASE canShutdown
  BY <1>1 DEF Loop, IInv, TypeOK, QueueInv, LastTaken
<1>2. CASE ~canShutdown
  <2>1. checkQueueStatus /\ sweep /\ pc' = "poll" /\ ran' = FALSE
    BY <1>2 DEF Loop
  <2>2. /\ MgrInv(mgr') /\ faults' \in 0..MaxFaults /\ reconf' \in BOOLEAN
        /\ mgr'.receive = "SUCCESS" <=> mgr.receive = "SUCCESS"
        /\ mgr.receive = "SUCCESS" => mgr'.ncr = mgr.ncr
    BY <2>1, CheckQueueStatus DEF IInv, TypeOK
  <2>3. TypeOK'
    BY ZenonT(30), <2>1, <2>2, Sweep DEF Loop, IInv, TypeOK, MgrInv
  <2>4. LastTaken' = LastTaken
    BY <2>2 DEF Loop, LastTaken
  <2>5. QueueInv'
    BY <2>1, <2>2, <2>4, Sweep DEF Loop, IInv, QueueInv
  <2> QED
    BY <2>2, <2>3, <2>5 DEF IInv
<1> QED
  BY <1>1, <1>2

(* Operations complete: a receive brings the next request. *)
LEMMA ReactInv ==
  ASSUME IInv, React
  PROVE  IInv'
<1>0. mgr \in Mgrs /\ MgrInv(mgr) /\ sent \in 0..MaxRequests /\ faults \in 0..MaxFaults
        /\ trans \in [Dhcids -> {"none", "active", "answered", "done"}]
        /\ todo \in Seq(CommandKinds) /\ command \in CommandKinds \cup {"none"}
  BY SMTT(30) DEF IInv, TypeOK
<1>1. /\ MgrInv(mgr') /\ sent' \in 0..MaxRequests /\ faults' \in 0..MaxFaults
      /\ LastTaken' = LastTaken /\ (mgr'.receive = "SUCCESS" => mgr'.ncr.id = sent')
  <2>1. CASE UNCHANGED <<mgr, sent, faults>>
    BY <1>0, <2>1 DEF IInv, QueueInv, LastTaken
  <2>2. ASSUME mgr.receive = "pending", sent < MaxRequests, sent' = sent + 1,
               NEW d \in Dhcids, faults' = faults,
               mgr' = [mgr EXCEPT !.receive = "SUCCESS", !.ncr = [id |-> sent', dhcid |-> d]]
        PROVE  /\ MgrInv(mgr') /\ sent' \in 0..MaxRequests /\ faults' \in 0..MaxFaults
               /\ LastTaken' = LastTaken /\ (mgr'.receive = "SUCCESS" => mgr'.ncr.id = sent')
    <3> DEFINE n == [id |-> sent', dhcid |-> d]
    <3>1. n \in Requests /\ n.id = sent' /\ sent' \in 0..MaxRequests
      BY <1>0, <2>2 DEF Requests
    <3>2. mgr' = [mgr EXCEPT !.receive = "SUCCESS", !.ncr = n]
      BY <2>2
    <3> HIDE DEF n
    <3>3. /\ mgr' \in Mgrs /\ mgr'.receive = "SUCCESS" /\ mgr'.ncr = n
          /\ mgr'.mgr_state = mgr.mgr_state /\ mgr'.listening = mgr.listening
          /\ mgr'.target_stop_state = mgr.target_stop_state
          /\ mgr'.listener = mgr.listener /\ mgr'.dangling = mgr.dangling
          /\ mgr'.io_pending = mgr.io_pending
      BY Zenon, <1>0, <3>1, <3>2 DEF Mgrs, Completed
    <3>4. MgrInv(mgr')
      BY <1>0, <2>2, <3>1, <3>3 DEF MgrInv
    <3>5. LastTaken' = LastTaken
      BY <1>0, <2>2, <3>3 DEF LastTaken
    <3> QED
      BY <1>0, <2>2, <3>1, <3>3, <3>4, <3>5
  <2>3. ASSUME mgr.receive = "pending", faults < MaxFaults, faults' = faults + 1,
               NEW result \in {"INVALID", "ERROR"}, sent' = sent,
               mgr' = [mgr EXCEPT !.receive = result]
        PROVE  /\ MgrInv(mgr') /\ sent' \in 0..MaxRequests /\ faults' \in 0..MaxFaults
               /\ LastTaken' = LastTaken /\ (mgr'.receive = "SUCCESS" => mgr'.ncr.id = sent')
    <3>1. /\ mgr' \in Mgrs /\ mgr'.receive = result
          /\ mgr'.mgr_state = mgr.mgr_state /\ mgr'.listening = mgr.listening
          /\ mgr'.target_stop_state = mgr.target_stop_state
          /\ mgr'.listener = mgr.listener /\ mgr'.dangling = mgr.dangling
          /\ mgr'.io_pending = mgr.io_pending
      BY Zenon, <1>0, <2>3 DEF Mgrs, Completed
    <3>2. MgrInv(mgr')
      BY <1>0, <2>3, <3>1 DEF MgrInv
    <3>3. faults' \in 0..MaxFaults
      BY <1>0, <2>3
    <3> QED
      BY <1>0, <2>3, <3>1, <3>2, <3>3 DEF LastTaken
  <2> QED
    BY ZenonT(30), <2>1, <2>2, <2>3 DEF React, ReceiveCompletes
<1>2. command' \in CommandKinds \cup {"none"} /\ todo' \in Seq(CommandKinds)
  BY <1>0, HeadTailProperties DEF React, CommandCompletes
<1>3. trans' \in [Dhcids -> {"none", "active", "answered", "done"}]
  BY <1>0 DEF React, AnswersComplete
<1>4. TypeOK'
  BY Zenon, <1>1, <1>2, <1>3 DEF React, IInv, TypeOK, MgrInv
<1>5. QueueInv'
  BY <1>1 DEF React, IInv, QueueInv
<1> QED
  BY <1>1, <1>4, <1>5 DEF IInv

(* The listener's handler puts a request into the queue and receives on. *)
LEMMA ReceiveInv ==
  ASSUME IInv, ReceiveCompletionHandler
  PROVE  IInv'
<1>0. /\ mgr \in Mgrs /\ MgrInv(mgr) /\ mgr.receive \in Completed /\ sent \in 0..MaxRequests
      /\ queue \in Seq(Requests) /\ Len(queue) \in Nat /\ Len(queue) <= MaxQueueSize
      /\ started \in [Dhcids -> Nat] /\ Ordered(queue, started, LastTaken)
      /\ LastTaken \in Int
  BY DEF IInv, TypeOK, QueueInv, LastTaken, ReceiveCompletionHandler
<1>1. MgrInv(mgr') /\ mgr'.receive \in {"none", "pending"}
  <2>1. CASE mgr.receive = "INVALID"
    <3>1. mgr' = receiveNext(mgr) /\ mgr.listening
      BY <2>1 DEF ReceiveCompletionHandler
    <3>2. /\ mgr' \in Mgrs /\ mgr'.receive = "pending" /\ mgr'.io_pending
          /\ mgr'.mgr_state = mgr.mgr_state /\ mgr'.listening = mgr.listening
          /\ mgr'.target_stop_state = mgr.target_stop_state
          /\ mgr'.listener = mgr.listener /\ mgr'.dangling = mgr.dangling
      BY Zenon, <1>0, <3>1 DEF receiveNext, Mgrs
    <3> QED
      BY Zenon, <1>0, <3>1, <3>2 DEF MgrInv
  <2>2. CASE mgr.receive # "INVALID"
    BY <1>0, <2>2, InvokeHandler DEF ReceiveCompletionHandler
  <2> QED
    BY <2>1, <2>2
<1>2. LastTaken' = sent
  BY <1>1 DEF ReceiveCompletionHandler, LastTaken
<1>3. /\ queue' \in Seq(Requests) /\ Len(queue') <= MaxQueueSize
      /\ Ordered(queue', started, sent)
  <2>1. CASE mgr.receive = "SUCCESS"
    <3>1. mgr.ncr \in Requests /\ mgr.ncr.id = LastTaken + 1 /\ sent = LastTaken + 1
      BY <1>0, <2>1 DEF IInv, MgrInv, QueueInv, LastTaken
    <3>2. /\ Ordered(Append(queue, mgr.ncr), started, sent)
          /\ Ordered(queue, started, sent)
      BY Zenon, <1>0, <3>1, OrderedAppend
    <3>3. /\ Append(queue, mgr.ncr) \in Seq(Requests)
          /\ Len(Append(queue, mgr.ncr)) = Len(queue) + 1
      BY <1>0, <3>1, AppendProperties
    <3> QED
      BY <1>0, <2>1, <3>2, <3>3 DEF ReceiveCompletionHandler
  <2>2. CASE mgr.receive # "SUCCESS"
    BY <1>0, <2>2 DEF ReceiveCompletionHandler, LastTaken
  <2> QED
    BY <2>1, <2>2
<1>4. TypeOK'
  BY ZenonT(30), <1>1, <1>3
     DEF ReceiveCompletionHandler, HandlerRuns, IInv, TypeOK, MgrInv
<1>5. QueueInv'
  BY <1>1, <1>2, <1>3 DEF ReceiveCompletionHandler, QueueInv
<1> QED
  BY <1>1, <1>4, <1>5 DEF IInv

(* The steps that touch neither the listener nor the queue *)
LEMMA OtherInv ==
  ASSUME IInv,
         \/ PollEnds \/ ReceiveWithoutSocket \/ CommandHandler
         \/ \E d \in Dhcids : TransactionHandler(d)
         \/ UNCHANGED vars
  PROVE  IInv'
<1>1. /\ mgr' = mgr /\ queue' = queue /\ sent' = sent /\ started' = started
      /\ todo' = todo /\ faults' = faults
  BY Zenon DEF PollEnds, ReceiveWithoutSocket, CommandHandler, TransactionHandler, vars
<1>2. trans' \in [Dhcids -> {"none", "active", "answered", "done"}]
  BY Zenon DEF IInv, TypeOK, PollEnds, ReceiveWithoutSocket, CommandHandler,
         TransactionHandler, vars
<1>3. /\ pc' \in {"loop", "poll", "run_one", "exit", "undefined"} /\ ran' \in BOOLEAN
      /\ command' \in CommandKinds \cup {"none"}
      /\ reconf' \in BOOLEAN /\ shut_down' \in BOOLEAN
      /\ shutdown_type' \in {"normal", "drain_first", "now"}
  BY ZenonT(30) DEF IInv, TypeOK, PollEnds, ReceiveWithoutSocket, CommandHandler,
         TransactionHandler, HandlerRuns, configure, shutdown, CommandKinds, vars
<1>4. TypeOK'
  BY <1>1, <1>2, <1>3 DEF IInv, TypeOK
<1> QED
  BY <1>1, <1>4 DEF IInv, QueueInv, LastTaken

LEMMA StepInv == IInv /\ [Next]_vars => IInv'
BY LoopInv, ReactInv, ReceiveInv, OtherInv DEF Next, Handler

LEMMA InvImplies ==
  IInv => TypeOK /\ RunningMeansReceiving /\ NoDanglingHandler /\ FifoPerClient
<1> SUFFICES ASSUME IInv
             PROVE  TypeOK /\ RunningMeansReceiving /\ NoDanglingHandler /\ FifoPerClient
  OBVIOUS
<1>1. FifoPerClient
  <2>1. /\ queue \in Seq(Requests) /\ started \in [Dhcids -> 0..MaxRequests]
        /\ Ordered(queue, started, LastTaken)
    BY DEF IInv, TypeOK, QueueInv
  <2>2. \A i \in DOMAIN queue : queue[i].id \in Nat /\ started[queue[i].dhcid] \in Nat
    BY <2>1, Elements
  <2> QED
    BY <2>1, <2>2 DEF Ordered, FifoPerClient
<1> QED
  BY <1>1 DEF IInv, MgrInv, RunningMeansReceiving, NoDanglingHandler

-----------------------------------------------------------------------------
(* The state of bundy-d2 is always well typed; in particular the queue     *)
(* never holds more than max_queue_size_ requests.                         *)
THEOREM TypeCorrect == Spec => []TypeOK
<1>1. IInv => TypeOK
  BY InvImplies
<1> QED
  BY <1>1, InitInv, StepInv, PTL DEF Spec

(* The queue manager is RUNNING exactly while its listener is listening,   *)
(* and then a receive is outstanding or its handler is about to run.       *)
THEOREM RunningReceives == Spec => []RunningMeansReceiving
<1>1. IInv => RunningMeansReceiving
  BY InvImplies
<1> QED
  BY <1>1, InitInv, StepInv, PTL DEF Spec

(* No listener is ever removed while the handler of its receive has yet to *)
(* run.                                                                    *)
THEOREM NeverDangling == Spec => []NoDanglingHandler
<1>1. IInv => NoDanglingHandler
  BY InvImplies
<1> QED
  BY <1>1, InitInv, StepInv, PTL DEF Spec

(* pickNextJob() never lets a request of a client overtake an earlier one  *)
(* of the same client.                                                     *)
THEOREM RequestsInOrder == Spec => []FifoPerClient
<1>1. IInv => FifoPerClient
  BY InvImplies
<1> QED
  BY <1>1, InitInv, StepInv, PTL DEF Spec
=============================================================================
