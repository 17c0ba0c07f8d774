----------------------------- MODULE NotifyOut -----------------------------
(***************************************************************************)
(* The outgoing NOTIFY service of bundy-xfrout                             *)
(* (src/lib/python/bundy/notify/notify_out.py).                            *)
(*                                                                         *)
(* The main thread asks for a zone's slaves to be notified; a dispatcher   *)
(* thread sends the messages over UDP, one slave of a zone at a time, with *)
(* retries.  At most MaxNotifyNum zones are served at once; others wait.   *)
(* The threads share the object under a lock, except that the dispatcher   *)
(* scans the zones without it, and an Event tells the dispatcher that      *)
(* there is something to do.                                               *)
(*                                                                         *)
(* Time is abstract: a timeout is due, or will be due later.  A zone has   *)
(* one socket at a time, the one its last message was sent from.  Zones    *)
(* without slaves, which send_notify() ignores, are left out.  The scan    *)
(* of the zones is one step: a request that comes in the middle of a scan  *)
(* has the effect of one that comes before or after it.                    *)
(***************************************************************************)
EXTENDS Naturals, FiniteSets, SequencesExt

CONSTANTS
  Zones,           \* the zones with slaves
  Slaves,          \* the number of slaves of each zone
  MaxNotifyNum,    \* _MAX_NOTIFY_NUM
  MaxNotifyTryNum, \* _MAX_NOTIFY_TRY_NUM
  MaxRequests,     \* bound on the calls of send_notify()
  SocketMayFail,   \* creating a socket may fail
  ZoneMayBreak     \* the SOA of a zone may be missing from the data source

ASSUME ZonesAssumption == IsFiniteSet(Zones)
ASSUME SlavesAssumption == Slaves \in [Zones -> Nat \ {0}]
ASSUME LimitsAssumption == /\ MaxNotifyNum \in Nat \ {0}
                           /\ MaxNotifyTryNum \in Nat \ {0}
                           /\ MaxRequests \in Nat
ASSUME FailuresAssumption == SocketMayFail \in BOOLEAN /\ ZoneMayBreak \in BOOLEAN

VARIABLES
  info,         \* _notify_infos: the progress of each zone
  notify_num,   \* the count of notifies in progress
  notifying,    \* _notifying_zones: how often each zone is in the list
  waiting,      \* _waiting_zones
  event,        \* _nonblock_event is set
  serving,      \* _serving
  wakeup,       \* shutdown() has written to the socket pair
  pc,           \* where the dispatcher thread is
  replied,      \* replied_zones: to be handled in this round
  unreplied,    \* not_replied_zones, or the zones of this round's scan
  requests,     \* number of calls of send_notify()
  owed          \* zones requested and not yet sent a first message since

vars == <<info, notify_num, notifying, waiting, event, serving, wakeup, pc,
          replied, unreplied, requests, owed>>
mainVars == <<serving, wakeup, requests>>

(* A ZoneNotifyInfo: notify_timeout, notify_try_num, the current target    *)
(* (0 for None), what can be read from the socket, and whether the socket  *)
(* sent the message that notify_msg_id is the id of.                       *)
ZoneNotifyInfo ==
  [timeout : {"none", "due", "later"}, tries : 0..MaxNotifyTryNum,
   target : Nat, sock : {"none", "silent", "good", "bad"},
   asked : BOOLEAN]

prepare_notify_out(i) ==
  [i EXCEPT !.timeout = "due", !.tries = 0, !.target = 1]

finish_notify_out(i) == [i EXCEPT !.timeout = "none", !.sock = "none"]

(* Fault: the first slave comes after the last one. *)
set_next_notify_target_cyclic(z, i) ==
  [i EXCEPT !.target = IF @ < Slaves[z] THEN @ + 1 ELSE 1]

set_next_notify_target(z, i) ==
  [i EXCEPT !.target = IF @ < Slaves[z] THEN @ + 1 ELSE 0]

(* The part of the NotifyOut object that the lock protects and the zones'  *)
(* progress, as a record, and taking it over from one.                     *)
Object == [info |-> info, notify_num |-> notify_num, notifying |-> notifying,
           waiting |-> waiting, event |-> event]

Becomes(o) ==
  /\ info' = o.info /\ notify_num' = o.notify_num
  /\ notifying' = o.notifying /\ waiting' = o.waiting /\ event' = o.event

(* Fault: the first waiting zone starts without being put on the list. *)
notify_next_target_unlisted(o, z) ==
  LET i == [set_next_notify_target(z, o.info[z]) EXCEPT !.tries = 0]
      done == [o EXCEPT !.info[z] = finish_notify_out(i),
                        !.notify_num = @ - 1, !.notifying[z] = @ - 1]
      w == Head(o.waiting)
  IN  IF i.target # 0 THEN [o EXCEPT !.info[z] = i]
      ELSE IF o.waiting = <<>> THEN done
      ELSE [done EXCEPT !.info[w] = prepare_notify_out(@),
                        !.notify_num = @ + 1,
                        !.waiting = Tail(@), !.event = TRUE]

(* _notify_next_target: the next slave of the zone, or the end of this     *)
(* zone's notifies and the start of those of the first waiting zone.       *)
notify_next_target(o, z) ==
  LET i == [set_next_notify_target(z, o.info[z]) EXCEPT !.tries = 0]
      done == [o EXCEPT !.info[z] = finish_notify_out(i),
                        !.notify_num = @ - 1, !.notifying[z] = @ - 1]
      w == Head(o.waiting)
  IN  IF i.target # 0 THEN [o EXCEPT !.info[z] = i]
      ELSE IF o.waiting = <<>> THEN done
      ELSE [done EXCEPT !.info[w] = prepare_notify_out(@),
                        !.notify_num = @ + 1, !.notifying[w] = @ + 1,
                        !.waiting = Tail(@), !.event = TRUE]

-----------------------------------------------------------------------------
(* Main thread *)

(* Fault: the limit is checked with > in place of >=. *)
SendNotify_over(z) ==
  /\ serving /\ requests < MaxRequests
  /\ requests' = requests + 1
  /\ owed' = owed \cup {z}
  /\ IF notify_num > MaxNotifyNum \/ notifying[z] > 0
     THEN /\ waiting' = IF Contains(waiting, z) THEN waiting
                        ELSE Append(waiting, z)
          /\ UNCHANGED <<info, notify_num, notifying, event>>
     ELSE /\ info' = [info EXCEPT ![z] = prepare_notify_out(@)]
          /\ notify_num' = notify_num + 1
          /\ notifying' = [notifying EXCEPT ![z] = @ + 1]
          /\ event' = TRUE
          /\ UNCHANGED waiting
  /\ UNCHANGED <<serving, wakeup, pc, replied, unreplied>>

(* send_notify: the zone is served at once, or put on the waiting list. *)
SendNotify(z) ==
  /\ serving /\ requests < MaxRequests
  /\ requests' = requests + 1
  /\ owed' = owed \cup {z}
  /\ IF notify_num >= MaxNotifyNum \/ notifying[z] > 0
     THEN /\ waiting' = IF Contains(waiting, z) THEN waiting
                        ELSE Append(waiting, z)
          /\ UNCHANGED <<info, notify_num, notifying, event>>
     ELSE /\ info' = [info EXCEPT ![z] = prepare_notify_out(@)]
          /\ notify_num' = notify_num + 1
          /\ notifying' = [notifying EXCEPT ![z] = @ + 1]
          /\ event' = TRUE
          /\ UNCHANGED waiting
  /\ UNCHANGED <<serving, wakeup, pc, replied, unreplied>>

(* shutdown, up to the point where it waits for the thread to end *)
Shutdown ==
  /\ serving
  /\ serving' = FALSE /\ event' = TRUE /\ wakeup' = TRUE
  /\ UNCHANGED <<info, notify_num, notifying, waiting, pc, replied, unreplied,
                 requests, owed>>

-----------------------------------------------------------------------------
(* Dispatcher thread *)

(* The loop condition of _dispatcher, then _prepare_select_info.  Without  *)
(* a notifying zone the thread will wait for the event.                    *)
Prepare ==
  /\ pc = "prepare"
  /\ unreplied' = {z \in Zones : info[z].timeout # "none"}
  /\ pc' = IF ~serving THEN "stopped"
           ELSE IF unreplied' = {} THEN "clear" ELSE "select"
  /\ UNCHANGED <<info, notify_num, notifying, waiting, event, mainVars,
                 replied, owed>>

ClearEvent ==
  /\ pc = "clear"
  /\ event' = FALSE /\ pc' = "wait"
  /\ UNCHANGED <<info, notify_num, notifying, waiting, mainVars, replied,
                 unreplied, owed>>

WaitEvent ==
  /\ pc = "wait" /\ event
  /\ pc' = "select"
  /\ UNCHANGED <<info, notify_num, notifying, waiting, event, mainVars,
                 replied, unreplied, owed>>

Readable(z) == info[z].sock \in {"good", "bad"}

(* select() returns: there is something to read, or the earliest timeout   *)
(* has come (at once if the thread has just waited for the event).         *)
Select ==
  /\ pc = "select"
  /\ \/ wakeup
     \/ unreplied = {}
     \/ \E z \in unreplied : Readable(z) \/ info[z].timeout = "due"
  /\ LET r == {z \in unreplied : Readable(z)}
     IN  /\ replied' = IF wakeup THEN {} ELSE r
         /\ unreplied' = IF wakeup THEN {} ELSE unreplied \ r
  /\ wakeup' = FALSE
  /\ pc' = "handle"
  /\ UNCHANGED <<info, notify_num, notifying, waiting, event, serving,
                 requests, owed>>

(* _send_notify_message_udp: the message gets a new query id; a new socket *)
(* replaces the one of the last message.  If it cannot be created, or the  *)
(* message cannot be sent, there will be no reply with the new query id.   *)
(* A missing SOA raises an exception that nothing catches, which ends the  *)
(* thread.                                                                 *)
send_notify_message_udp(o, z) ==
  LET i == [o.info[z] EXCEPT !.tries = @ + 1, !.timeout = "later"]
      old == IF i.sock = "good" THEN "bad" ELSE i.sock
      first == i.target = 1 /\ ~Contains(o.waiting, z)
  IN  \/ /\ Becomes([o EXCEPT !.info[z] = [i EXCEPT !.sock = "silent", !.asked = TRUE]])
         /\ owed' = IF first THEN owed \ {z} ELSE owed
         /\ UNCHANGED pc
      \/ /\ SocketMayFail
         /\ \E s \in {old, "silent"} :
              Becomes([o EXCEPT !.info[z] = [i EXCEPT !.sock = s, !.asked = FALSE]])
         /\ owed' = IF first THEN owed \ {z} ELSE owed
         /\ UNCHANGED pc
      \/ /\ ZoneMayBreak
         /\ Becomes([o EXCEPT !.info[z] = i])
         /\ pc' = "dead"
         /\ UNCHANGED owed

(* Faults: one try too many, and one too few. *)
notify_target_more(o, z) ==
  CASE o.info[z].target = 0 -> Becomes(o) /\ UNCHANGED <<owed, pc>>
    [] o.info[z].target # 0 /\ o.info[z].tries <= MaxNotifyTryNum ->
         send_notify_message_udp(o, z)
    [] OTHER -> Becomes(notify_next_target(o, z)) /\ UNCHANGED <<owed, pc>>

notify_target_fewer(o, z) ==
  CASE o.info[z].target = 0 -> Becomes(o) /\ UNCHANGED <<owed, pc>>
    [] o.info[z].target # 0 /\ o.info[z].tries + 1 < MaxNotifyTryNum ->
         send_notify_message_udp(o, z)
    [] OTHER -> Becomes(notify_next_target(o, z)) /\ UNCHANGED <<owed, pc>>

(* The second half of _zone_notify_handler *)
notify_target(o, z) ==
  CASE o.info[z].target = 0 -> Becomes(o) /\ UNCHANGED <<owed, pc>>
    [] o.info[z].target # 0 /\ o.info[z].tries < MaxNotifyTryNum ->
         send_notify_message_udp(o, z)
    [] OTHER -> Becomes(notify_next_target(o, z)) /\ UNCHANGED <<owed, pc>>

(* _zone_notify_handler for _EVENT_READ: a good reply is one with the      *)
(* query id of the zone's last message.                                    *)
HandleReply(z) ==
  /\ pc = "handle" /\ z \in replied
  /\ replied' = replied \ {z}
  /\ LET o == [Object EXCEPT !.info[z].sock = "silent"]
     IN  notify_target(IF info[z].sock = "good" THEN notify_next_target(o, z)
                                                ELSE o, z)
  /\ UNCHANGED <<mainVars, unreplied>>

(* _dispatcher's second loop, with _zone_notify_handler for _EVENT_TIMEOUT *)
HandleTimeout(z) ==
  /\ pc = "handle" /\ replied = {} /\ z \in unreplied
  /\ unreplied' = unreplied \ {z}
  /\ IF info[z].timeout = "due" THEN notify_target(Object, z)
     ELSE Becomes(Object) /\ UNCHANGED <<owed, pc>>
  /\ UNCHANGED <<mainVars, replied>>

EndRound ==
  /\ pc = "handle" /\ replied = {} /\ unreplied = {}
  /\ pc' = "prepare"
  /\ UNCHANGED <<info, notify_num, notifying, waiting, event, mainVars,
                 replied, unreplied, owed>>

Dispatcher ==
  \/ Prepare \/ ClearEvent \/ WaitEvent \/ Select \/ EndRound
  \/ \E z \in Zones : HandleReply(z) \/ HandleTimeout(z)

-----------------------------------------------------------------------------
(* Slaves and time *)

(* A datagram arrives on the zone's socket. *)
Reply(z) ==
  /\ info[z].sock = "silent"
  /\ \E kind \in {"good", "bad"} :
       /\ kind = "good" => info[z].asked
       /\ info' = [info EXCEPT ![z].sock = kind]
  /\ UNCHANGED <<notify_num, notifying, waiting, event, mainVars, pc, replied,
                 unreplied, owed>>

Tick(z) ==
  /\ info[z].timeout = "later"
  /\ info' = [info EXCEPT ![z].timeout = "due"]
  /\ UNCHANGED <<notify_num, notifying, waiting, event, mainVars, pc, replied,
                 unreplied, owed>>

-----------------------------------------------------------------------------
(* __init__, then dispatcher() *)
Init ==
  /\ info = [z \in Zones |-> [timeout |-> "none", tries |-> 0, target |-> 0,
                              sock |-> "none", asked |-> FALSE]]
  /\ notify_num = 0 /\ notifying = [z \in Zones |-> 0] /\ waiting = <<>>
  /\ event = FALSE /\ serving = TRUE /\ wakeup = FALSE
  /\ pc = "prepare" /\ replied = {} /\ unreplied = {}
  /\ requests = 0 /\ owed = {}

Next ==
  \/ Dispatcher
  \/ Shutdown
  \/ \E z \in Zones : SendNotify(z) \/ Reply(z) \/ Tick(z)

Spec == Init /\ [][Next]_vars

(* The dispatcher thread keeps running and time passes.  Nobody has to     *)
(* request anything, and no slave has to answer.                           *)
Fairness == WF_vars(Dispatcher) /\ \A z \in Zones : WF_vars(Tick(z))

FairSpec == Spec /\ Fairness

-----------------------------------------------------------------------------
(* Properties *)

(* The type invariant of the service. *)
TypeOK ==
  /\ info \in [Zones -> ZoneNotifyInfo]
  /\ \A z \in Zones : info[z].target <= Slaves[z]
  /\ notify_num \in Nat
  /\ notifying \in [Zones -> Nat]
  /\ waiting \in Seq(Zones)
  /\ event \in BOOLEAN /\ serving \in BOOLEAN /\ wakeup \in BOOLEAN
  /\ pc \in {"prepare", "clear", "wait", "select", "handle", "stopped", "dead"}
  /\ replied \subseteq Zones /\ unreplied \subseteq Zones
  /\ requests \in 0..MaxRequests
  /\ owed \subseteq Zones

InProgress == {z \in Zones : info[z].timeout # "none"}

(* A zone in progress is in _notifying_zones, so that send_notify() of the *)
(* other thread never restarts it while the dispatcher works on it.        *)
InProgressIsListed == \A z \in InProgress : notifying[z] > 0

(* Never more than _MAX_NOTIFY_NUM zones are in progress, whatever is      *)
(* requested while others end.                                             *)
LimitRespected ==
  /\ notify_num <= MaxNotifyNum
  /\ Cardinality(InProgress) <= notify_num

(* The dispatcher leaves a slave for the next one only when a reply was    *)
(* read or all the tries are used up, or when the whole zone restarts.     *)
NoEarlyGiveUp ==
  [][\A z \in Zones :
       info[z].target \notin {0, info'[z].target} =>
         \/ info[z].sock = "good"
         \/ info[z].tries = MaxNotifyTryNum
         \/ info'[z].target = 1 /\ info'[z].tries = 0]_vars

(* A zone whose first message was sent is done with, sooner or later, even *)
(* if no slave ever answers, unless the thread has ended.                  *)
StartedIsCompleted ==
  \A z \in Zones : info[z].sock # "none" ~> (info[z].sock = "none" \/ ~serving \/ pc = "dead")

(* After send_notify() "notify message will be sent out". *)
EventuallyNotified == \A z \in Zones : z \in owed ~> (z \notin owed \/ ~serving)
=============================================================================
