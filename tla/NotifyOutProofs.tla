-------------------------- MODULE NotifyOutProofs ---------------------------
(***************************************************************************)
(* The safety of the outgoing NOTIFY service, for any zones, numbers of    *)
(* slaves, limits and numbers of requests.                                 *)
(***************************************************************************)
EXTENDS NotifyOut, FiniteSetTheorems, TLAPS

(* The list of waiting zones: empty at first, and one longer. *)
LEMMA QueueOf ==
  ASSUME NEW S
  PROVE  <<>> \in Seq(S) /\ \A q \in Seq(S), x \in S : Append(q, x) \in Seq(S)
OBVIOUS

USE SlavesAssumption, LimitsAssumption

(* What the lock protects, as a record. *)
Objects == [info : [Zones -> ZoneNotifyInfo], notify_num : Nat,
            notifying : [Zones -> Nat], waiting : Seq(Zones), event : BOOLEAN]

InProgressOf(o) == {z \in Zones : o.info[z].timeout # "none"}

(* The invariant of the object: it is well typed, a zone has a target      *)
(* exactly while it is in progress, and the list and the limit are kept.   *)
ObjectInv(o) ==
  /\ o \in Objects
  /\ \A z \in Zones : o.info[z].target <= Slaves[z]
  /\ \A z \in Zones : o.info[z].timeout = "none" <=> o.info[z].target = 0
  /\ \A z \in InProgressOf(o) : o.notifying[z] > 0
  /\ o.notify_num <= MaxNotifyNum
  /\ Cardinality(InProgressOf(o)) <= o.notify_num

(* The dispatcher's round is about zones that are still in progress. *)
RoundInv == /\ replied \cup unreplied \subseteq InProgressOf(Object)
            /\ replied \cap unreplied = {}
            /\ pc = "prepare" => replied = {}

(* The parts of notify_next_target *)
Advanced(z, k) == [set_next_notify_target(z, k) EXCEPT !.tries = 0]
Ended(o, z, i) == [o EXCEPT !.info[z] = finish_notify_out(i),
                            !.notify_num = @ - 1, !.notifying[z] = @ - 1]

Restarted(i) == i.target = 1 /\ i.tries = 0

(* The types of what is not part of the object *)
RestOK == /\ serving \in BOOLEAN /\ wakeup \in BOOLEAN
          /\ pc \in {"prepare", "clear", "wait", "select", "handle", "stopped", "dead"}
          /\ replied \subseteq Zones /\ unreplied \subseteq Zones
          /\ requests \in 0..MaxRequests /\ owed \subseteq Zones

IInv == ObjectInv(Object) /\ RestOK /\ RoundInv

LEMMA InProgressFinite ==
  ASSUME NEW S \in SUBSET Zones
  PROVE  IsFiniteSet(S) /\ Cardinality(S) \in Nat
BY ZonesAssumption, FS_Subset, FS_CardinalityType

LEMMA PreparedInfo ==
  ASSUME NEW i \in ZoneNotifyInfo
  PROVE  /\ prepare_notify_out(i) \in ZoneNotifyInfo
         /\ prepare_notify_out(i).timeout = "due" /\ prepare_notify_out(i).target = 1
         /\ Restarted(prepare_notify_out(i))
<1>1. 0 \in 0..MaxNotifyTryNum
  OBVIOUS
<1> QED
  BY Zenon, <1>1 DEF prepare_notify_out, ZoneNotifyInfo, Restarted

LEMMA NextInfo ==
  ASSUME NEW z \in Zones, NEW k \in ZoneNotifyInfo, k.target <= Slaves[z]
  PROVE  /\ Advanced(z, k) \in ZoneNotifyInfo /\ Advanced(z, k).timeout = k.timeout
         /\ Advanced(z, k).target <= Slaves[z] /\ Advanced(z, k).tries = 0
<1>1. 0 \in 0..MaxNotifyTryNum /\ Slaves[z] \in Nat
  OBVIOUS
<1> DEFINE t == IF k.target < Slaves[z] THEN k.target + 1 ELSE 0
<1>2. t \in Nat /\ t <= Slaves[z]
  BY <1>1 DEF ZoneNotifyInfo
<1>3. Advanced(z, k) = [[k EXCEPT !.target = t] EXCEPT !.tries = 0]
  BY DEF Advanced, set_next_notify_target, ZoneNotifyInfo
<1> HIDE DEF t
<1> QED
  BY ZenonT(30), <1>1, <1>2, <1>3 DEF ZoneNotifyInfo

(* One zone's progress changes, and it stays in progress or not. *)
LEMMA ChangeInfo ==
  ASSUME NEW o, ObjectInv(o), NEW z \in Zones, NEW i \in ZoneNotifyInfo,
         i.target <= Slaves[z], i.timeout = "none" <=> i.target = 0,
         i.timeout = "none" <=> o.info[z].timeout = "none"
  PROVE  /\ ObjectInv([o EXCEPT !.info[z] = i])
         /\ InProgressOf([o EXCEPT !.info[z] = i]) = InProgressOf(o)
<1> DEFINE n == [o EXCEPT !.info[z] = i]
<1>1. /\ n \in Objects /\ n.info = [o.info EXCEPT ![z] = i]
      /\ n.notifying = o.notifying /\ n.notify_num = o.notify_num
  BY Zenon DEF ObjectInv, Objects
<1>2. InProgressOf(n) = InProgressOf(o)
  BY <1>1 DEF InProgressOf, ObjectInv, Objects
<1>3. \A y \in Zones : /\ n.info[y].target <= Slaves[y]
                       /\ n.info[y].timeout = "none" <=> n.info[y].target = 0
  BY <1>1 DEF ObjectInv, Objects
<1> QED
  BY <1>1, <1>2, <1>3 DEF ObjectInv

(* A zone that is not in progress, or that is started again, starts. *)
LEMMA StartZone ==
  ASSUME NEW o, ObjectInv(o), NEW z \in Zones, o.notify_num < MaxNotifyNum,
         NEW n \in Objects, n.info = [o.info EXCEPT ![z] = prepare_notify_out(@)],
         n.notify_num = o.notify_num + 1,
         n.notifying = [o.notifying EXCEPT ![z] = @ + 1]
  PROVE  /\ ObjectInv(n)
         /\ InProgressOf(n) = InProgressOf(o) \cup {z}
<1>1. /\ o \in Objects /\ n.info \in [Zones -> ZoneNotifyInfo]
      /\ n.info[z].timeout = "due" /\ n.info[z].target = 1
      /\ \A y \in Zones \ {z} : n.info[y] = o.info[y]
  <2> DEFINE p == prepare_notify_out(o.info[z])
  <2>1. o \in Objects /\ o.info \in [Zones -> ZoneNotifyInfo]
    BY DEF ObjectInv, Objects
  <2>2. p \in ZoneNotifyInfo /\ p.timeout = "due" /\ p.target = 1
    BY <2>1, PreparedInfo
  <2>3. n.info = [o.info EXCEPT ![z] = p]
    OBVIOUS
  <2> HIDE DEF p
  <2> QED
    BY <2>1, <2>2, <2>3
<1>2. InProgressOf(n) = InProgressOf(o) \cup {z}
  BY <1>1 DEF InProgressOf
<1>3. /\ Cardinality(InProgressOf(n)) <= Cardinality(InProgressOf(o)) + 1
      /\ Cardinality(InProgressOf(n)) \in Nat /\ Cardinality(InProgressOf(o)) \in Nat
  <2>1. /\ IsFiniteSet(InProgressOf(o)) /\ Cardinality(InProgressOf(o)) \in Nat
        /\ Cardinality(InProgressOf(n)) \in Nat
    BY InProgressFinite DEF InProgressOf
  <2>2. Cardinality(InProgressOf(o) \cup {z})
          = IF z \in InProgressOf(o) THEN Cardinality(InProgressOf(o))
            ELSE Cardinality(InProgressOf(o)) + 1
    BY Zenon, <2>1, FS_AddElement
  <2> QED
    BY <1>2, <2>1, <2>2
<1>4. \A y \in Zones : /\ n.info[y].target <= Slaves[y]
                       /\ n.info[y].timeout = "none" <=> n.info[y].target = 0
  BY <1>1 DEF ObjectInv
<1>5. \A y \in InProgressOf(n) : n.notifying[y] > 0
  BY SMTT(30), <1>1, <1>2 DEF ObjectInv, Objects, InProgressOf
<1> QED
  BY <1>1, <1>2, <1>3, <1>4, <1>5 DEF ObjectInv, Objects

(* The notifies of a zone in progress end. *)
LEMMA EndZone ==
  ASSUME NEW o, ObjectInv(o), NEW z \in InProgressOf(o), NEW i \in ZoneNotifyInfo,
         i.target = 0
  PROVE  /\ ObjectInv(Ended(o, z, i)) /\ Ended(o, z, i).notify_num < MaxNotifyNum
         /\ InProgressOf(Ended(o, z, i)) = InProgressOf(o) \ {z}
         /\ Ended(o, z, i).waiting = o.waiting /\ Ended(o, z, i).event = o.event
         /\ \A y \in Zones \ {z} : Ended(o, z, i).info[y] = o.info[y]
<1> DEFINE n == Ended(o, z, i)
<1>0. z \in Zones /\ o \in Objects /\ o.notifying[z] \in Nat \ {0}
  BY DEF InProgressOf, ObjectInv, Objects
<1>1. IsFiniteSet(InProgressOf(o)) /\ Cardinality(InProgressOf(o)) \in Nat \ {0}
  <2>1. IsFiniteSet(InProgressOf(o)) /\ Cardinality(InProgressOf(o)) \in Nat
    BY InProgressFinite DEF InProgressOf
  <2> QED
    BY <2>1, FS_EmptySet
<1>2. finish_notify_out(i) \in ZoneNotifyInfo /\ finish_notify_out(i).timeout = "none"
        /\ finish_notify_out(i).target = 0
  BY Zenon DEF finish_notify_out, ZoneNotifyInfo
<1>3. /\ n \in Objects /\ n.info = [o.info EXCEPT ![z] = finish_notify_out(i)]
      /\ n.notify_num = o.notify_num - 1
      /\ n.notifying = [o.notifying EXCEPT ![z] = @ - 1]
      /\ n.waiting = o.waiting /\ n.event = o.event
  <2> DEFINE f == finish_notify_out(i)
  <2>1. o.notify_num - 1 \in Nat /\ o.notify_num \in Nat
    BY <1>0, <1>1 DEF ObjectInv, Objects
  <2>2. /\ [o.info EXCEPT ![z] = f] \in [Zones -> ZoneNotifyInfo]
        /\ [o.notifying EXCEPT ![z] = @ - 1] \in [Zones -> Nat]
    BY <1>0, <1>2 DEF Objects
  <2>3. n = [o EXCEPT !.info[z] = f, !.notify_num = @ - 1, !.notifying[z] = @ - 1]
    BY DEF Ended
  <2> HIDE DEF f
  <2>4. /\ n.info = [o.info EXCEPT ![z] = f] /\ n.notify_num = o.notify_num - 1
        /\ n.notifying = [o.notifying EXCEPT ![z] = @ - 1]
        /\ n.waiting = o.waiting /\ n.event = o.event
    BY <1>0, <2>3 DEF Objects
  <2>5. n \in Objects
    BY Zenon, <1>0, <2>1, <2>2, <2>3 DEF Objects
  <2> QED
    BY <2>4, <2>5 DEF f
<1>4. InProgressOf(n) = InProgressOf(o) \ {z}
  BY SMTT(30), <1>0, <1>2, <1>3 DEF InProgressOf, Objects
<1>5. Cardinality(InProgressOf(n)) = Cardinality(InProgressOf(o)) - 1
  BY ZenonT(30), <1>1, <1>4, FS_RemoveElement
<1>6. \A y \in Zones : /\ n.info[y].target <= Slaves[y]
                       /\ n.info[y].timeout = "none" <=> n.info[y].target = 0
  BY <1>0, <1>2, <1>3 DEF ObjectInv, Objects
<1>7. \A y \in InProgressOf(n) : n.notifying[y] > 0
  BY <1>0, <1>3, <1>4 DEF ObjectInv, Objects, InProgressOf
<1>8. /\ n.notify_num < MaxNotifyNum /\ n.notify_num <= MaxNotifyNum
      /\ Cardinality(InProgressOf(n)) <= n.notify_num
  BY <1>0, <1>1, <1>3, <1>5 DEF ObjectInv, Objects
<1> QED
  BY SMTT(30), <1>0, <1>3, <1>4, <1>6, <1>7, <1>8 DEF ObjectInv, Objects

(* _notify_next_target keeps the invariant, and ends no other zone. *)
LEMMA NextTarget ==
  ASSUME NEW o, ObjectInv(o), NEW z \in InProgressOf(o)
  PROVE  /\ ObjectInv(notify_next_target(o, z))
         /\ InProgressOf(o) \ {z} \subseteq InProgressOf(notify_next_target(o, z))
         /\ \A y \in Zones \ {z} :
              LET i == notify_next_target(o, z).info[y]
              IN  i = o.info[y] \/ Restarted(i)
<1> DEFINE i == Advanced(z, o.info[z])
           done == Ended(o, z, i)
           w == Head(o.waiting)
           n == [done EXCEPT !.info[w] = prepare_notify_out(@),
                             !.notify_num = @ + 1, !.notifying[w] = @ + 1,
                             !.waiting = Tail(@), !.event = TRUE]
<1>0. /\ z \in Zones /\ o \in Objects /\ o.info[z] \in ZoneNotifyInfo
      /\ o.info[z].timeout # "none" /\ o.info[z].target <= Slaves[z]
  BY DEF InProgressOf, ObjectInv, Objects
<1>1. /\ i \in ZoneNotifyInfo /\ i.timeout = o.info[z].timeout
      /\ i.target <= Slaves[z]
  BY <1>0, NextInfo
<1>2. notify_next_target(o, z) = IF i.target # 0 THEN [o EXCEPT !.info[z] = i]
                                 ELSE IF o.waiting = <<>> THEN done ELSE n
  BY DEF notify_next_target, Advanced, Ended
<1> HIDE DEF i
<1>3. CASE i.target # 0
  <2>1. ObjectInv([o EXCEPT !.info[z] = i])
          /\ InProgressOf([o EXCEPT !.info[z] = i]) = InProgressOf(o)
    BY <1>0, <1>1, <1>3, ChangeInfo
  <2>2. [o EXCEPT !.info[z] = i].info = [o.info EXCEPT ![z] = i]
    BY <1>0 DEF Objects
  <2> QED
    BY Zenon, <1>0, <1>2, <1>3, <2>1, <2>2 DEF Objects
<1>4. CASE i.target = 0
  <2>1. /\ ObjectInv(done) /\ done.notify_num < MaxNotifyNum
        /\ InProgressOf(done) = InProgressOf(o) \ {z} /\ done.waiting = o.waiting
        /\ \A y \in Zones \ {z} : done.info[y] = o.info[y]
    BY <1>1, <1>4, EndZone
  <2> HIDE DEF done
  <2>2. CASE o.waiting = <<>>
    BY <1>2, <1>4, <2>1, <2>2
  <2>3. CASE o.waiting # <<>>
    <3>1. w \in Zones /\ Tail(o.waiting) \in Seq(Zones)
      BY <1>0, <2>3 DEF Objects
    <3> HIDE DEF w
    <3>2. done \in Objects /\ done.info[w] \in ZoneNotifyInfo
      BY Zenon, <2>1, <3>1 DEF ObjectInv, Objects
    <3>3. /\ prepare_notify_out(done.info[w]) \in ZoneNotifyInfo
          /\ Restarted(prepare_notify_out(done.info[w]))
      BY <3>2, PreparedInfo
    <3>4. /\ [done.info EXCEPT ![w] = prepare_notify_out(@)] \in [Zones -> ZoneNotifyInfo]
          /\ [done.notifying EXCEPT ![w] = @ + 1] \in [Zones -> Nat]
          /\ done.notify_num + 1 \in Nat
      BY <3>1, <3>2, <3>3 DEF Objects
    <3>5. n = [done EXCEPT !.info = [done.info EXCEPT ![w] = prepare_notify_out(@)],
                           !.notify_num = done.notify_num + 1,
                           !.notifying = [done.notifying EXCEPT ![w] = @ + 1],
                           !.waiting = Tail(done.waiting), !.event = TRUE]
      BY <3>2 DEF Objects
    <3>6. /\ n \in Objects /\ n.info = [done.info EXCEPT ![w] = prepare_notify_out(@)]
          /\ n.notify_num = done.notify_num + 1
          /\ n.notifying = [done.notifying EXCEPT ![w] = @ + 1]
      BY Zenon, <2>1, <3>1, <3>2, <3>4, <3>5 DEF Objects
    <3> HIDE DEF n
    <3>7. ObjectInv(n) /\ InProgressOf(n) = InProgressOf(done) \cup {w}
      BY ZenonT(30), <2>1, <3>1, <3>6, StartZone
    <3>8. \A y \in Zones \ {z} : n.info[y] = o.info[y] \/ Restarted(n.info[y])
      BY <2>1, <3>1, <3>2, <3>3, <3>6 DEF Objects
    <3> QED
      BY <1>2, <1>4, <2>1, <2>3, <3>7, <3>8
  <2> QED
    BY <2>2, <2>3
<1> QED
  BY <1>3, <1>4

(* The object after a step that takes it over from a record *)
LEMMA BecomesObject ==
  ASSUME NEW o \in Objects, Becomes(o)
  PROVE  Object' = o
BY DEF Objects, Becomes, Object

(* A message is sent to the current target of a zone in progress, or it    *)
(* cannot be sent.                                                         *)
LEMMA SendMessage ==
  ASSUME NEW o, ObjectInv(o), NEW z \in InProgressOf(o),
         o.info[z].tries < MaxNotifyTryNum, send_notify_message_udp(o, z)
  PROVE  /\ ObjectInv(Object') /\ InProgressOf(Object') = InProgressOf(o)
         /\ Object'.info[z].target = o.info[z].target
         /\ \A y \in Zones \ {z} : Object'.info[y] = o.info[y]
         /\ owed' \subseteq owed /\ pc' \in {pc, "dead"}
<1> DEFINE i == [o.info[z] EXCEPT !.tries = @ + 1, !.timeout = "later"]
           old == IF i.sock = "good" THEN "bad" ELSE i.sock
           Sent(k) == [o EXCEPT !.info[z] = k]
<1>0. z \in Zones /\ o \in Objects /\ o.info[z] \in ZoneNotifyInfo
        /\ o.info[z].timeout # "none" /\ o.info[z].target <= Slaves[z]
        /\ o.info[z].target # 0 /\ o.info \in [Zones -> ZoneNotifyInfo]
  BY DEF InProgressOf, ObjectInv, Objects
<1>1. /\ i \in ZoneNotifyInfo /\ i.timeout = "later" /\ i.target = o.info[z].target
      /\ old \in {"none", "silent", "good", "bad"}
  <2> DEFINE c == o.info[z]
  <2>1. c \in ZoneNotifyInfo /\ c.tries + 1 \in 0..MaxNotifyTryNum
    BY <1>0 DEF ZoneNotifyInfo
  <2>2. i = [c EXCEPT !.tries = @ + 1, !.timeout = "later"]
    OBVIOUS
  <2> HIDE DEF c, i
  <2>3. /\ i \in ZoneNotifyInfo /\ i.timeout = "later" /\ i.target = c.target
    BY Zenon, <2>1, <2>2 DEF ZoneNotifyInfo
  <2> QED
    BY <2>3 DEF c, ZoneNotifyInfo
<1>2. PICK k \in ZoneNotifyInfo :
        /\ k.timeout = "later" /\ k.target = o.info[z].target /\ Becomes(Sent(k))
        /\ owed' \subseteq owed /\ pc' \in {pc, "dead"}
  <2> DEFINE K(s, a) == [i EXCEPT !.sock = s, !.asked = a]
  <2>1. ASSUME NEW s \in {"none", "silent", "good", "bad"}, NEW a \in BOOLEAN
        PROVE  K(s, a) \in ZoneNotifyInfo /\ K(s, a).timeout = "later"
                 /\ K(s, a).target = o.info[z].target
    <3> HIDE DEF i
    <3> QED
      BY ZenonT(30), <1>1 DEF ZoneNotifyInfo
  <2>2. \/ Becomes(Sent(K("silent", TRUE))) /\ owed' \subseteq owed /\ pc' = pc
        \/ \E s \in {old, "silent"} :
             Becomes(Sent(K(s, FALSE))) /\ owed' \subseteq owed /\ pc' = pc
        \/ Becomes(Sent(i)) /\ owed' = owed /\ pc' = "dead"
    BY DEF send_notify_message_udp
  <2> HIDE DEF K, i, Sent, old
  <2> QED
    BY Zenon, <1>1, <2>1, <2>2
<1> HIDE DEF i
<1>3. ObjectInv(Sent(k)) /\ InProgressOf(Sent(k)) = InProgressOf(o)
  BY <1>0, <1>2, ChangeInfo
<1>4. Sent(k).info = [o.info EXCEPT ![z] = k]
  BY <1>0 DEF Objects
<1>5. Object' = Sent(k)
  BY <1>2, <1>3, BecomesObject DEF ObjectInv
<1> QED
  BY <1>0, <1>2, <1>3, <1>4, <1>5

(* The second half of _zone_notify_handler *)
LEMMA NotifyTarget ==
  ASSUME NEW o, ObjectInv(o), NEW z \in Zones, notify_target(o, z)
  PROVE  /\ ObjectInv(Object') /\ InProgressOf(o) \ {z} \subseteq InProgressOf(Object')
         /\ owed' \subseteq owed /\ pc' \in {pc, "dead"}
         /\ \A y \in Zones \ {z} :
              Object'.info[y] = o.info[y] \/ Restarted(Object'.info[y])
         /\ Object'.info[z].target # o.info[z].target => o.info[z].tries = MaxNotifyTryNum
<1>1. CASE o.info[z].target = 0
  BY <1>1, BecomesObject DEF notify_target, ObjectInv
<1>2. CASE o.info[z].target # 0 /\ o.info[z].tries < MaxNotifyTryNum
  <2>1. z \in InProgressOf(o) /\ send_notify_message_udp(o, z)
    BY <1>2 DEF notify_target, ObjectInv, InProgressOf
  <2> QED
    BY <1>2, <2>1, SendMessage
<1>3. CASE o.info[z].target # 0 /\ ~(o.info[z].tries < MaxNotifyTryNum)
  <2>1. /\ z \in InProgressOf(o) /\ Becomes(notify_next_target(o, z))
        /\ UNCHANGED <<owed, pc>>
    BY <1>3 DEF notify_target, ObjectInv, InProgressOf
  <2>2. /\ ObjectInv(notify_next_target(o, z))
        /\ InProgressOf(o) \ {z} \subseteq InProgressOf(notify_next_target(o, z))
        /\ \A y \in Zones \ {z} :
             LET i == notify_next_target(o, z).info[y]
             IN  i = o.info[y] \/ Restarted(i)
    BY SMTT(30), <2>1, NextTarget
  <2>3. Object' = notify_next_target(o, z)
    BY Zenon, <2>1, <2>2, BecomesObject DEF ObjectInv
  <2>4. o.info[z].tries = MaxNotifyTryNum
    BY <1>3 DEF ObjectInv, Objects, ZoneNotifyInfo
  <2> QED
    BY <2>1, <2>2, <2>3, <2>4
<1> QED
  BY Zenon, <1>1, <1>2, <1>3

-----------------------------------------------------------------------------
LEMMA InitInv == Init => IInv
<1> SUFFICES ASSUME Init PROVE IInv
  OBVIOUS
<1>1. Object \in Objects
  <2> DEFINE i == [timeout |-> "none", tries |-> 0, target |-> 0,
                   sock |-> "none", asked |-> FALSE]
  <2>1. i \in ZoneNotifyInfo
    BY DEF ZoneNotifyInfo
  <2>2. info = [z \in Zones |-> i]
    BY DEF Init
  <2> HIDE DEF i
  <2>3. info \in [Zones -> ZoneNotifyInfo]
    BY <2>1, <2>2
  <2>4. waiting \in Seq(Zones) /\ notifying \in [Zones -> Nat]
    BY Zenon, QueueOf DEF Init
  <2> QED
    BY ZenonT(30), <2>3, <2>4 DEF Init, Object, Objects
<1>2. InProgressOf(Object) = {}
  BY Zenon DEF Init, Object, InProgressOf
<1>3. ObjectInv(Object)
  <2>1. \A z \in Zones : /\ Object.info[z].timeout = "none" /\ Object.info[z].target = 0
                         /\ Slaves[z] \in Nat
    BY Zenon DEF Init, Object
  <2>2. Object.notify_num = 0 /\ Cardinality(InProgressOf(Object)) = 0
    BY Zenon, <1>2, FS_EmptySet DEF Init, Object
  <2> QED
    BY SMTT(30), <1>1, <1>2, <2>1, <2>2 DEF ObjectInv
<1>4. RestOK
  <2>1. requests \in 0..MaxRequests
    BY DEF Init
  <2> QED
    BY ZenonT(30), <2>1 DEF Init, RestOK
<1>5. RoundInv
  BY DEF Init, RoundInv
<1> QED
  BY <1>3, <1>4, <1>5 DEF IInv

(* A request is taken up at once, or waits. *)
LEMMA SendNotifyInv ==
  ASSUME IInv, NEW z \in Zones, SendNotify(z)
  PROVE  IInv'
<1>1. RestOK'
  BY DEF IInv, RestOK, SendNotify
<1>2. Object \in Objects
  BY DEF IInv, ObjectInv
<1>3. CASE notify_num >= MaxNotifyNum \/ notifying[z] > 0
  <2>1. waiting' \in Seq(Zones)
    <3>1. waiting' = waiting \/ waiting' = Append(waiting, z)
      BY <1>3 DEF SendNotify
    <3>2. waiting \in Seq(Zones)
      BY Zenon, <1>2 DEF Object, Objects
    <3> QED
      BY Zenon, <3>1, <3>2, QueueOf
  <2>2. /\ Object' \in Objects /\ Object'.info = Object.info
        /\ Object'.notifying = Object.notifying
        /\ Object'.notify_num = Object.notify_num
    BY Zenon, <1>2, <1>3, <2>1 DEF SendNotify, Object, Objects
  <2>3. InProgressOf(Object') = InProgressOf(Object)
    BY <2>2 DEF InProgressOf
  <2>4. ObjectInv(Object')
    BY Zenon, <2>2, <2>3 DEF IInv, ObjectInv
  <2> QED
    BY <1>1, <2>3, <2>4 DEF IInv, RoundInv, SendNotify
<1>4. CASE ~(notify_num >= MaxNotifyNum \/ notifying[z] > 0)
  <2>1. /\ info' = [info EXCEPT ![z] = prepare_notify_out(@)]
        /\ notify_num' = notify_num + 1
        /\ notifying' = [notifying EXCEPT ![z] = @ + 1]
        /\ event' = TRUE /\ waiting' = waiting
    BY <1>4 DEF SendNotify
  <2>2. prepare_notify_out(info[z]) \in ZoneNotifyInfo
    BY <1>2, PreparedInfo DEF Object, Objects
  <2>3. /\ info' \in [Zones -> ZoneNotifyInfo] /\ notifying' \in [Zones -> Nat]
        /\ notify_num' \in Nat /\ notify_num < MaxNotifyNum
    BY <1>2, <1>4, <2>1, <2>2 DEF Object, Objects
  <2>4. Object' \in Objects
    BY Zenon, <1>2, <2>1, <2>3 DEF Object, Objects
  <2>5. /\ Object'.info = [Object.info EXCEPT ![z] = prepare_notify_out(@)]
        /\ Object'.notify_num = Object.notify_num + 1
        /\ Object'.notifying = [Object.notifying EXCEPT ![z] = @ + 1]
        /\ Object.notify_num < MaxNotifyNum
    BY Zenon, <2>1, <2>3 DEF Object
  <2>6. ObjectInv(Object') /\ InProgressOf(Object') = InProgressOf(Object) \cup {z}
    BY Zenon, <2>4, <2>5, StartZone DEF IInv
  <2> QED
    BY Zenon, <1>1, <2>6 DEF IInv, RoundInv, SendNotify
<1> QED
  BY <1>3, <1>4

(* A reply comes or a timeout expires: the zone stays in progress or not. *)
LEMMA EnvironmentInv ==
  ASSUME IInv, NEW z \in Zones, Reply(z) \/ Tick(z)
  PROVE  IInv'
<1>1. Object \in Objects /\ info \in [Zones -> ZoneNotifyInfo]
        /\ info[z].target <= Slaves[z] /\ (info[z].timeout = "none" <=> info[z].target = 0)
  BY Zenon DEF IInv, ObjectInv, Object, Objects
<1>2. PICK i \in ZoneNotifyInfo :
        /\ info' = [info EXCEPT ![z] = i] /\ i.target = info[z].target
        /\ i.timeout = "none" <=> info[z].timeout = "none"
  <2>1. CASE Reply(z)
    <3>1. PICK kind \in {"good", "bad"} : info' = [info EXCEPT ![z].sock = kind]
      BY Zenon, <2>1 DEF Reply
    <3> DEFINE i == [info[z] EXCEPT !.sock = kind]
    <3>2. /\ i \in ZoneNotifyInfo /\ i.target = info[z].target
          /\ i.timeout = info[z].timeout
      BY <1>1 DEF ZoneNotifyInfo
    <3>3. info' = [info EXCEPT ![z] = i]
      BY <1>1, <3>1
    <3> QED
      BY Zenon, <3>2, <3>3
  <2>2. CASE Tick(z)
    <3> DEFINE i == [info[z] EXCEPT !.timeout = "due"]
    <3>1. /\ i \in ZoneNotifyInfo /\ i.target = info[z].target
          /\ i.timeout # "none" /\ info[z].timeout # "none"
      BY <1>1, <2>2 DEF ZoneNotifyInfo, Tick
    <3>2. info' = [info EXCEPT ![z] = i]
      BY <1>1, <2>2 DEF Tick
    <3> QED
      BY Zenon, <3>1, <3>2
  <2> QED
    BY <2>1, <2>2
<1>3. Object' = [Object EXCEPT !.info[z] = i]
  BY <1>1, <1>2 DEF Reply, Tick, Object
<1>4. ObjectInv(Object') /\ InProgressOf(Object') = InProgressOf(Object)
  BY <1>1, <1>2, <1>3, ChangeInfo DEF IInv, Object
<1> QED
  BY <1>4 DEF IInv, RestOK, RoundInv, Reply, Tick, mainVars

(* A round of the dispatcher, up to the handling of the zones *)
LEMMA RoundStepInv ==
  ASSUME IInv, Prepare \/ ClearEvent \/ WaitEvent \/ Select \/ EndRound \/ Shutdown
  PROVE  IInv'
<1>1. /\ info' = info /\ notify_num' = notify_num /\ notifying' = notifying
      /\ waiting' = waiting /\ event' \in BOOLEAN
  BY ZenonT(30)
     DEF IInv, ObjectInv, Object, Objects, Prepare, ClearEvent, WaitEvent, Select,
         EndRound, Shutdown, mainVars
<1>2. /\ Object' \in Objects /\ Object'.info = Object.info
      /\ Object'.notifying = Object.notifying /\ Object'.notify_num = Object.notify_num
  BY Zenon, <1>1 DEF IInv, ObjectInv, Object, Objects
<1>3. InProgressOf(Object') = InProgressOf(Object)
  BY <1>2 DEF InProgressOf
<1>4. ObjectInv(Object')
  BY Zenon, <1>2, <1>3 DEF IInv, ObjectInv
<1>5. RestOK' /\ RoundInv'
  <2>1. CASE Prepare
    <3>1. unreplied' = InProgressOf(Object) /\ replied' = {}
      BY Zenon, <2>1 DEF Prepare, InProgressOf, Object, IInv, RoundInv
    <3> QED
      BY Zenon, <1>3, <2>1, <3>1 DEF IInv, RestOK, RoundInv, Prepare, InProgressOf, mainVars
  <2>2. CASE ClearEvent \/ WaitEvent \/ EndRound \/ Shutdown
    BY Zenon, <1>3, <2>2 DEF IInv, RestOK, RoundInv, ClearEvent, WaitEvent, EndRound,
                      Shutdown, mainVars
  <2>3. CASE Select
    <3>1. /\ replied' \cup unreplied' \subseteq unreplied /\ replied' \cap unreplied' = {}
      BY Zenon, <2>3 DEF Select
    <3> QED
      BY ZenonT(30), <1>3, <2>3, <3>1 DEF IInv, RestOK, RoundInv, Select
  <2> QED
    BY <2>1, <2>2, <2>3
<1> QED
  BY <1>4, <1>5 DEF IInv

(* The dispatcher reads a reply. *)
LEMMA HandleReplyInv ==
  ASSUME IInv, NEW z \in Zones, HandleReply(z)
  PROVE  IInv'
<1> DEFINE i == [info[z] EXCEPT !.sock = "silent"]
           o == [Object EXCEPT !.info[z] = i]
           p == IF info[z].sock = "good" THEN notify_next_target(o, z) ELSE o
<1>1. /\ Object \in Objects /\ info[z] \in ZoneNotifyInfo /\ info[z].target <= Slaves[z]
      /\ Object.info = info /\ z \in InProgressOf(Object)
      /\ (info[z].timeout = "none" <=> info[z].target = 0)
  BY DEF IInv, ObjectInv, RoundInv, Object, Objects, HandleReply
<1>2. i \in ZoneNotifyInfo /\ i.target = info[z].target /\ i.timeout = info[z].timeout
  BY <1>1 DEF ZoneNotifyInfo
<1>3. notify_target(p, z) /\ replied' = replied \ {z} /\ UNCHANGED <<mainVars, unreplied>>
  BY DEF HandleReply, Object
<1> HIDE DEF i
<1>4. ObjectInv(o) /\ InProgressOf(o) = InProgressOf(Object)
  BY <1>1, <1>2, ChangeInfo DEF IInv
<1> HIDE DEF o
<1>5. ObjectInv(p) /\ InProgressOf(o) \ {z} \subseteq InProgressOf(p)
  BY Zenon, <1>1, <1>4, NextTarget
<1> HIDE DEF p
<1>6. /\ ObjectInv(Object') /\ InProgressOf(p) \ {z} \subseteq InProgressOf(Object')
      /\ owed' \subseteq owed /\ pc' \in {pc, "dead"}
  BY Zenon, <1>3, <1>5, NotifyTarget
<1>7. RestOK'
  BY Zenon, <1>3, <1>6 DEF IInv, RestOK, mainVars
<1>8. RoundInv'
  BY <1>3, <1>4, <1>5, <1>6 DEF IInv, RoundInv, HandleReply
<1> QED
  BY <1>6, <1>7, <1>8 DEF IInv

(* The dispatcher turns to a zone without a reply. *)
LEMMA HandleTimeoutInv ==
  ASSUME IInv, NEW z \in Zones, HandleTimeout(z)
  PROVE  IInv'
<1>1. /\ ObjectInv(Object') /\ InProgressOf(Object) \ {z} \subseteq InProgressOf(Object')
      /\ owed' \subseteq owed /\ pc' \in {pc, "dead"}
  <2>1. CASE info[z].timeout = "due"
    BY Zenon, <2>1, NotifyTarget DEF IInv, HandleTimeout
  <2>2. CASE info[z].timeout # "due"
    BY Zenon, <2>2, BecomesObject DEF IInv, ObjectInv, HandleTimeout
  <2> QED
    BY <2>1, <2>2
<1>2. RestOK'
  BY Zenon, <1>1 DEF IInv, RestOK, HandleTimeout, mainVars
<1>3. RoundInv'
  BY <1>1 DEF IInv, RoundInv, HandleTimeout
<1> QED
  BY <1>1, <1>2, <1>3 DEF IInv

LEMMA StepInv == IInv /\ [Next]_vars => IInv'
<1> SUFFICES ASSUME IInv, [Next]_vars PROVE IInv'
  OBVIOUS
<1>1. CASE UNCHANGED vars
  BY Zenon, <1>1 DEF vars, IInv, ObjectInv, RestOK, RoundInv, Object, InProgressOf
<1>2. CASE Next
  BY SMTT(30), <1>2, SendNotifyInv, EnvironmentInv,
     RoundStepInv, HandleReplyInv, HandleTimeoutInv
  DEF Next, Dispatcher
<1> QED
  BY <1>1, <1>2

LEMMA InvImplies == IInv => TypeOK /\ InProgressIsListed /\ LimitRespected
BY Zenon DEF IInv, ObjectInv, Object, Objects, RestOK, InProgressOf, InProgress, TypeOK,
       InProgressIsListed, LimitRespected

-----------------------------------------------------------------------------
(* The state of the service is always well typed; in particular no slave   *)
(* is tried more than _MAX_NOTIFY_TRY_NUM times and no zone has a target   *)
(* beyond its last slave.                                                  *)
THEOREM TypeCorrect == Spec => []TypeOK
<1>1. IInv => TypeOK
  BY InvImplies
<1> QED
  BY <1>1, InitInv, StepInv, PTL DEF Spec

(* A zone in progress is always in _notifying_zones, so that the main      *)
(* thread's send_notify() never restarts it under the dispatcher.          *)
THEOREM AlwaysListed == Spec => []InProgressIsListed
<1>1. IInv => InProgressIsListed
  BY InvImplies
<1> QED
  BY <1>1, InitInv, StepInv, PTL DEF Spec

(* However requests and replies interleave, never more than                *)
(* _MAX_NOTIFY_NUM zones are in progress.                                  *)
THEOREM NeverOverLimit == Spec => []LimitRespected
<1>1. IInv => LimitRespected
  BY InvImplies
<1> QED
  BY <1>1, InitInv, StepInv, PTL DEF Spec

-----------------------------------------------------------------------------
(* A slave that a zone leaves was answered, or tried often enough, or the  *)
(* zone has started again.                                                 *)
LeavesOnly(y) ==
  info[y].target \notin {0, info'[y].target} =>
    \/ info[y].sock = "good"
    \/ info[y].tries = MaxNotifyTryNum
    \/ Restarted(info'[y])

LEMMA ReplyLeaves ==
  ASSUME IInv, NEW z \in Zones, HandleReply(z), NEW y \in Zones
  PROVE  LeavesOnly(y)
<1> DEFINE i == [info[z] EXCEPT !.sock = "silent"]
           o == [Object EXCEPT !.info[z] = i]
           p == IF info[z].sock = "good" THEN notify_next_target(o, z) ELSE o
<1>1. /\ Object \in Objects /\ info[z] \in ZoneNotifyInfo /\ info[z].target <= Slaves[z]
      /\ Object.info = info /\ z \in InProgressOf(Object)
      /\ (info[z].timeout = "none" <=> info[z].target = 0)
      /\ info \in [Zones -> ZoneNotifyInfo]
  BY DEF IInv, ObjectInv, RoundInv, Object, Objects, HandleReply
<1>2. /\ i \in ZoneNotifyInfo /\ i.target = info[z].target /\ i.timeout = info[z].timeout
      /\ i.tries = info[z].tries
  BY <1>1 DEF ZoneNotifyInfo
<1>3. notify_target(p, z)
  BY DEF HandleReply, Object
<1> HIDE DEF i
<1>4. /\ ObjectInv(o) /\ InProgressOf(o) = InProgressOf(Object)
      /\ o.info = [info EXCEPT ![z] = i]
  <2>1. o.info = [info EXCEPT ![z] = i]
    BY <1>1 DEF Objects
  <2> QED
    BY <1>1, <1>2, <2>1, ChangeInfo DEF IInv
<1> HIDE DEF o
<1>5. /\ ObjectInv(p)
      /\ \A x \in Zones \ {z} : p.info[x] = o.info[x] \/ Restarted(p.info[x])
  BY ZenonT(30), <1>1, <1>4, NextTarget
<1>6. /\ \A x \in Zones \ {z} :
           Object'.info[x] = p.info[x] \/ Restarted(Object'.info[x])
      /\ Object'.info[z].target # p.info[z].target => p.info[z].tries = MaxNotifyTryNum
  <2> HIDE DEF p
  <2> QED
    BY <1>3, <1>5, NotifyTarget
<1>7. Object'.info = info'
  BY DEF Object
<1>8. CASE y # z
  <2> HIDE DEF p
  <2> QED
    BY Zenon, <1>1, <1>4, <1>5, <1>6, <1>7, <1>8 DEF LeavesOnly
<1>9. CASE y = z
  BY ZenonT(30), <1>1, <1>2, <1>4, <1>6, <1>7, <1>9 DEF LeavesOnly
<1> QED
  BY <1>8, <1>9

LEMMA StepLeaves ==
  ASSUME IInv, [Next]_vars, NEW y \in Zones
  PROVE  LeavesOnly(y)
<1>1. info \in [Zones -> ZoneNotifyInfo] /\ Object.info = info /\ Object'.info = info'
  BY Zenon DEF IInv, ObjectInv, Object, Objects
<1>2. CASE info' = info
  BY <1>2 DEF LeavesOnly
<1>3. ASSUME NEW z \in Zones, SendNotify(z), info' # info PROVE LeavesOnly(y)
  <2>1. info' = [info EXCEPT ![z] = prepare_notify_out(@)]
    BY <1>3 DEF SendNotify
  <2>2. Restarted(prepare_notify_out(info[z]))
    BY <1>1, PreparedInfo
  <2> QED
    BY <1>1, <2>1, <2>2 DEF LeavesOnly
<1>4. ASSUME NEW z \in Zones, Reply(z) \/ Tick(z) PROVE LeavesOnly(y)
  <2>1. info'[y].target = info[y].target
    BY <1>1, <1>4 DEF Reply, Tick, ZoneNotifyInfo
  <2> QED
    BY <2>1 DEF LeavesOnly
<1>5. ASSUME NEW z \in Zones, HandleTimeout(z) PROVE LeavesOnly(y)
  <2>1. CASE info[z].timeout = "due"
    <3>1. /\ \A x \in Zones \ {z} : info'[x] = info[x] \/ Restarted(info'[x])
          /\ info'[z].target # info[z].target => info[z].tries = MaxNotifyTryNum
      BY SMTT(30), <1>1, <1>5, <2>1, NotifyTarget DEF IInv, HandleTimeout
    <3> QED
      BY <3>1 DEF LeavesOnly
  <2>2. CASE info[z].timeout # "due"
    BY Zenon, <1>2, <1>5, <2>2 DEF HandleTimeout, Becomes, Object
  <2> QED
    BY <2>1, <2>2
<1> QED
  BY Zenon, <1>2, <1>3, <1>4, <1>5, ReplyLeaves
  DEF Next, Dispatcher, Prepare, ClearEvent, WaitEvent, Select, EndRound, Shutdown, vars

(* The dispatcher leaves a slave only after a reply or after               *)
(* _MAX_NOTIFY_TRY_NUM tries, or when the zone's round starts again.       *)
THEOREM NoSlaveLeftEarly == Spec => NoEarlyGiveUp
<1>1. IInv /\ [Next]_vars =>
        [\A z \in Zones :
           info[z].target \notin {0, info'[z].target} =>
             \/ info[z].sock = "good"
             \/ info[z].tries = MaxNotifyTryNum
             \/ info'[z].target = 1 /\ info'[z].tries = 0]_vars
  BY StepLeaves DEF LeavesOnly, Restarted
<1> QED
  BY <1>1, InitInv, StepInv, PTL DEF Spec, NoEarlyGiveUp
=============================================================================
