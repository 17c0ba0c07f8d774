------------------------- MODULE SegmentSyncProofs --------------------------
(***************************************************************************)
(* The safety of segment sharing, for any set of readers and zones: the    *)
(* inductive invariant of SegmentSync, what the methods of SegmentInfo     *)
(* return when it holds, that every step of the builder, the readers, the  *)
(* data source and memmgr's main thread preserves it, and the theorems     *)
(* that follow from it.                                                    *)
(***************************************************************************)
EXTENDS SegmentSync, Integers, TLAPS

(* Numbers and sequences, as the provers need to be told about them. *)
LEMMA MoreThanNone == \A n \in Nat : n + 1 > 0
OBVIOUS

LEMMA AtLeastItself == \A n \in Nat : n >= n
OBVIOUS

LEMMA NoneUpTo == \A n : n = 0 => \A i \in 1..n : FALSE
OBVIOUS

LEMMA OneUpTo == \A n : n = 1 => \A i \in 1..n : i = 1
OBVIOUS

LEMMA EmptyLength ==
  ASSUME NEW S
  PROVE  /\ <<>> \in Seq(S) /\ Len(<<>>) = 0
         /\ \A q \in Seq(S) : q # <<>> => Len(q) \in Nat \ {0}
OBVIOUS

LEMMA LengthOf ==
  ASSUME NEW S, NEW q \in Seq(S)
  PROVE  Len(q) \in Nat /\ DOMAIN q = 1..Len(q) /\ \A i \in 1..Len(q) : q[i] \in S
OBVIOUS

LEMMA HeadAndTail ==
  ASSUME NEW S, NEW q \in Seq(S), q # <<>>
  PROVE  /\ Head(q) \in S /\ Tail(q) \in Seq(S) /\ Len(Tail(q)) = Len(q) - 1
         /\ \A i \in 1..Len(Tail(q)) : Tail(q)[i] = q[i + 1]
OBVIOUS

LEMMA FirstOf ==
  ASSUME NEW S, NEW q \in Seq(S), q # <<>>
  PROVE  /\ Head(q) = q[1] /\ q[1] \in S /\ 1 \in 1..Len(q)
         /\ Len(q) \in Nat /\ Len(q) > 0
OBVIOUS

LEMMA AppendedTo ==
  ASSUME NEW S, NEW q \in Seq(S), NEW x \in S
  PROVE  /\ Append(q, x) \in Seq(S) /\ Append(q, x) # <<>>
         /\ Len(Append(q, x)) = Len(q) + 1 /\ Append(q, x)[Len(q) + 1] = x
         /\ \A i \in 1..Len(q) : Append(q, x)[i] = q[i]
OBVIOUS

Busy == {"R_VALIDATING", "W_VALIDATING", "UPDATING", "COPYING"}

OpOf(st) == IF st \in {"R_VALIDATING", "W_VALIDATING"} THEN "validate" ELSE "load"

(* The one command in flight is the one its state waits for, wherever it   *)
(* is between the two threads.                                             *)
TokenInv ==
  IF seg.state \in Busy
  THEN \/ /\ Len(commands) = 1 /\ commands[1].op = OpOf(seg.state)
          /\ working = None /\ responses = <<>>
       \/ /\ commands = <<>> /\ responses = <<>>
          /\ working # None /\ working.ver = seg.writer_ver
          /\ seg.state \in {"UPDATING", "COPYING"}
       \/ /\ commands = <<>> /\ working = None
          /\ Len(responses) = 1 /\ responses[1].op = OpOf(seg.state)
  ELSE commands = <<>> /\ working = None /\ responses = <<>>

(* The event queue ev holds what a segment in state st is about to need;   *)
(* ld loads have been completed.                                           *)
EventsOK(st, ld, ev) ==
  /\ st # "INIT"
  /\ st \in {"R_VALIDATING", "V_SYNCHRONIZING", "W_VALIDATING"} => ld = 0
  /\ st \in {"R_VALIDATING", "V_SYNCHRONIZING"} =>
       Len(ev) > 1 /\ ev[1].op = "validate"
  /\ st \in {"W_VALIDATING", "UPDATING", "SYNCHRONIZING"} => Len(ev) > 0
  /\ \A i \in 1..Len(ev) :
       ev[i].op = "load" \/ (i = 1 /\ st \in {"R_VALIDATING", "V_SYNCHRONIZING"})

(* The sets of readers: every known reader is in exactly one of them, and  *)
(* an unknown one is waited for in SYNCHRONIZING2 only.                    *)
ReadersInv ==
  /\ seg.state \notin SyncStates => seg.old_readers = {}
  /\ seg.readers \cap seg.old_readers = {}
  /\ seg.readers \subseteq known
  /\ known \subseteq seg.readers \cup seg.old_readers
  /\ seg.state # "SYNCHRONIZING2" => seg.old_readers \subseteq known

(* The life of a connection, as far as messages and notices tell. *)
LifeInv ==
  \A r \in Readers :
    /\ r \in joins \/ life[r] = "new" =>
         /\ r \notin known \cup seg.old_readers
         /\ mapped[r] = None /\ inbox[r] = <<>> /\ acks[r] = 0
    /\ life[r] = "new" => r \notin joins \cup leaves
    /\ life[r] = "subscribed" => r \in joins \cup known /\ r \notin leaves
    /\ life[r] = "gone" =>
         /\ mapped[r] = None /\ inbox[r] = <<>>
         /\ r \in joins \cup known => r \in leaves
    /\ r \in seg.old_readers \ known => life[r] = "gone"

(* The counter of outstanding acknowledgements. *)
CountInv ==
  \A r \in Readers :
    /\ r \notin known => outstanding[r] = 0
    /\ life[r] = "subscribed" => outstanding[r] = Len(inbox[r]) + acks[r]

Current(f) == f \in {None, seg.reader_ver}

(* What readers have mapped and are going to map. *)
MappingInv ==
  \A r \in Readers :
    /\ r \in seg.readers =>
         IF seg.state = "R_VALIDATING" THEN inbox[r] = <<>> /\ acks[r] = 0
         ELSE /\ Current(mapped[r])
              /\ \A i \in 1..Len(inbox[r]) : Current(inbox[r][i].file)
    /\ r \in seg.old_readers =>
         IF inbox[r] = <<>> THEN Current(mapped[r])
         ELSE Current(inbox[r][Len(inbox[r])].file)

(* The inductive invariant. *)
IInv == /\ TokenInv
        /\ EventsOK(seg.state, seg.loaded, seg.events)
        /\ seg.writer_ver = 1 - seg.reader_ver
        /\ ReadersInv
        /\ LifeInv
        /\ CountInv
        /\ MappingInv
        /\ ~failed

-----------------------------------------------------------------------------
(* What the methods of SegmentInfo return. *)

(* The call succeeded, and returned a command exactly if the segment now   *)
(* waits for the builder.                                                  *)
Answer(s, cmd) ==
  /\ s \in SegmentType /\ EventsOK(s.state, s.loaded, s.events)
  /\ cmd \in Command \cup {None}
  /\ IF s.state \in Busy THEN cmd # None /\ cmd.op = OpOf(s.state)
                         ELSE cmd = None

(* Becoming ready starts the next update, if one is waiting: used by       *)
(* complete_update() and __sync_reader_helper().                           *)
LEMMA CheckOnReady ==
  ASSUME NEW s \in SegmentType, EventsOK("READY", s.loaded, s.events),
         NEW res, res = check_on_ready(s)
  PROVE  /\ Answer(res.seg, res.cmd) /\ ~res.raised
         /\ res.seg.readers = s.readers /\ res.seg.old_readers = s.old_readers
         /\ res.seg.reader_ver = s.reader_ver
         /\ res.seg.writer_ver = s.writer_ver
         /\ res.seg.state \in {"READY", "UPDATING"}
<1> DEFINE t == [s EXCEPT !.state = "READY"]
           u == [s EXCEPT !.state = "UPDATING"]
<1>1. /\ t \in SegmentType /\ t.state = "READY"
      /\ u \in SegmentType /\ u.state = "UPDATING"
      /\ \A x \in {t, u} :
           /\ x.loaded = s.loaded /\ x.events = s.events
           /\ x.readers = s.readers /\ x.old_readers = s.old_readers
           /\ x.reader_ver = s.reader_ver /\ x.writer_ver = s.writer_ver
  BY Zenon DEF SegmentType, States
<1>2. s.events \in Seq(Command)
  BY DEF SegmentType
<1> HIDE DEF t, u
<1>3. CASE s.events = <<>>
  <2>1. res = [seg |-> t, cmd |-> None, raised |-> FALSE]
    BY <1>1, <1>3 DEF check_on_ready, start_update, Returns, t
  <2> QED
    BY <1>1, <2>1 DEF Answer, Busy
<1>4. CASE s.events # <<>>
  <2>1. res = [seg |-> u, cmd |-> Head(s.events), raised |-> FALSE]
    BY Zenon, <1>1, <1>4 DEF check_on_ready, start_update, Returns, t, u, SegmentType
  <2>2. /\ Head(s.events) \in Command /\ Head(s.events) = s.events[1]
        /\ Len(s.events) \in Nat /\ Len(s.events) > 0 /\ Head(s.events) # None
    BY <1>2, <1>4, NoneAssumption DEF NoneAssumption
  <2>3. EventsOK("UPDATING", s.loaded, s.events) /\ s.events[1].op = "load"
    BY <2>2 DEF EventsOK
  <2> QED
    BY <1>1, <2>1, <2>2, <2>3 DEF Answer, Busy, OpOf
<1> QED
  BY <1>3, <1>4

(* __sync_reader_helper() leaves a synchronizing state exactly when no     *)
(* reader of the old version is left, with a command for the builder       *)
(* unless the segment becomes ready with nothing to do.                    *)
LEMMA SyncReaderHelper ==
  ASSUME NEW s \in SegmentType, EventsOK(s.state, s.loaded, s.events),
         s.state \in SyncStates, NEW res, res = sync_reader_helper(s)
  PROVE  /\ Answer(res.seg, res.cmd) /\ ~res.raised
         /\ res.seg.readers = s.readers /\ res.seg.old_readers = s.old_readers
         /\ res.seg.reader_ver = s.reader_ver
         /\ res.seg.writer_ver = s.writer_ver
         /\ res.seg.state # "R_VALIDATING"
         /\ IF s.old_readers = {} THEN res.seg.state \notin SyncStates
                                  ELSE res.seg.state = s.state
<1>0. s.events \in Seq(Command)
  BY DEF SegmentType
<1>1. CASE s.old_readers # {}
  <2>1. res = [seg |-> s, cmd |-> None, raised |-> FALSE]
    BY <1>1 DEF sync_reader_helper, Returns
  <2> QED
    BY <1>1, <2>1 DEF Answer, Busy, SyncStates
<1>2. CASE s.old_readers = {} /\ s.state = "SYNCHRONIZING2"
  <2>1. res = check_on_ready(s)
    BY <1>2 DEF sync_reader_helper
  <2>2. EventsOK("READY", s.loaded, s.events)
    BY <1>0, <1>2 DEF EventsOK
  <2> QED
    BY <1>2, <2>1, <2>2, CheckOnReady DEF SyncStates
<1>3. CASE s.old_readers = {} /\ s.state # "SYNCHRONIZING2"
  <2> DEFINE next == IF s.state = "SYNCHRONIZING" THEN "COPYING"
                                                  ELSE "W_VALIDATING"
             t == [s EXCEPT !.state = next, !.events = Tail(@)]
  <2>1. /\ Len(s.events) \in Nat /\ Len(s.events) > 0 /\ s.events # <<>>
        /\ Head(s.events) \in Command /\ Head(s.events) = s.events[1]
        /\ Head(s.events) # None
    BY <1>0, <1>3, NoneAssumption DEF EventsOK, SyncStates, NoneAssumption
  <2>2. /\ Tail(s.events) \in Seq(Command)
        /\ Len(Tail(s.events)) = Len(s.events) - 1
        /\ \A i \in 1..Len(Tail(s.events)) : Tail(s.events)[i] = s.events[i + 1]
    BY <1>0, <2>1
  <2>3. /\ t \in SegmentType /\ t.state = next /\ t.events = Tail(s.events)
        /\ t.loaded = s.loaded
        /\ t.readers = s.readers /\ t.old_readers = s.old_readers
        /\ t.reader_ver = s.reader_ver /\ t.writer_ver = s.writer_ver
    BY Zenon, <2>2 DEF SegmentType, States
  <2>4. res = [seg |-> t, cmd |-> Head(s.events), raised |-> FALSE]
    BY <1>3, <2>1 DEF sync_reader_helper, Returns
  <2> HIDE DEF t
  <2>5. /\ EventsOK(next, s.loaded, Tail(s.events))
        /\ s.events[1].op = OpOf(next)
    <3>1. CASE s.state = "SYNCHRONIZING"
      BY <2>1, <2>2, <3>1 DEF EventsOK, OpOf
    <3>2. CASE s.state = "V_SYNCHRONIZING"
      BY <2>1, <2>2, <3>2 DEF EventsOK, OpOf
    <3> QED
      BY <1>3, <3>1, <3>2 DEF SyncStates
  <2> QED
    BY <1>3, <2>1, <2>3, <2>4, <2>5 DEF Answer, Busy, SyncStates
<1> QED
  BY <1>1, <1>2, <1>3

(* Entering a synchronizing state, as complete_validate() and              *)
(* complete_update() do: all current readers become old ones.              *)
LEMMA StartSync ==
  ASSUME NEW s \in SegmentType, NEW st \in SyncStates,
         EventsOK(st, s.loaded, s.events), NEW res, res = start_sync(s, st)
  PROVE  /\ Answer(res.seg, res.cmd) /\ ~res.raised
         /\ res.seg.readers = {} /\ res.seg.old_readers = s.readers
         /\ res.seg.reader_ver = s.reader_ver
         /\ res.seg.writer_ver = s.writer_ver
         /\ res.seg.state # "R_VALIDATING"
         /\ res.seg.state \notin SyncStates => s.readers = {}
<1> DEFINE t == [s EXCEPT !.state = st, !.old_readers = s.readers, !.readers = {}]
<1>1. /\ t \in SegmentType /\ t.state = st
      /\ t.readers = {} /\ t.old_readers = s.readers
      /\ t.loaded = s.loaded /\ t.events = s.events
      /\ t.reader_ver = s.reader_ver /\ t.writer_ver = s.writer_ver
  BY Zenon DEF SegmentType, States, SyncStates
<1>2. res = sync_reader_helper(t)
  BY DEF start_sync
<1> HIDE DEF t
<1> QED
  BY <1>1, <1>2, SyncReaderHelper

(* A completion either moves all readers to the old ones or leaves them    *)
(* where they are; it never stays in R_VALIDATING.                         *)
Completed(s, res) ==
  /\ Answer(res.seg, res.cmd) /\ ~res.raised
  /\ res.seg.state # "R_VALIDATING"
  /\ res.seg.writer_ver = 1 - res.seg.reader_ver
  /\ res.seg.state \notin SyncStates => res.seg.old_readers = {}
  /\ \/ res.seg.readers = {} /\ res.seg.old_readers = s.readers
     \/ /\ s.state # "R_VALIDATING"
        /\ res.seg.readers = s.readers /\ res.seg.old_readers = {}
        /\ res.seg.reader_ver = s.reader_ver

(* complete_validate(), called when the builder has answered a validate    *)
(* command.                                                                *)
LEMMA CompleteValidate ==
  ASSUME NEW s \in SegmentType, EventsOK(s.state, s.loaded, s.events),
         s.state \in {"R_VALIDATING", "W_VALIDATING"}, s.old_readers = {},
         s.writer_ver = 1 - s.reader_ver, NEW v \in BOOLEAN,
         NEW res, res = complete_validate(s, v)
  PROVE  Completed(s, res)
<1>0. s.events \in Seq(Command)
  BY DEF SegmentType
<1>1. CASE s.state = "R_VALIDATING"
  <2> DEFINE t == [s EXCEPT !.reader_file_validated = v \/ @]
  <2>1. /\ t \in SegmentType /\ t.readers = s.readers
        /\ t.loaded = s.loaded /\ t.events = s.events
        /\ t.reader_ver = s.reader_ver /\ t.writer_ver = s.writer_ver
    BY DEF SegmentType
  <2>2. res = start_sync(t, "V_SYNCHRONIZING")
    BY <1>1 DEF complete_validate
  <2> HIDE DEF t
  <2>3. EventsOK("V_SYNCHRONIZING", t.loaded, t.events)
    BY <1>1, <2>1 DEF EventsOK
  <2>4. "V_SYNCHRONIZING" \in SyncStates
    BY DEF SyncStates
  <2> QED
    BY <2>1, <2>2, <2>3, <2>4, StartSync DEF Completed
<1>2. CASE s.state = "W_VALIDATING"
  <2> DEFINE u == [s EXCEPT !.state = "UPDATING"]
  <2>1. /\ Len(s.events) \in Nat /\ Len(s.events) > 0 /\ s.events # <<>>
        /\ Head(s.events) \in Command /\ Head(s.events) = s.events[1]
        /\ Head(s.events) # None
    BY <1>0, <1>2, NoneAssumption DEF EventsOK, NoneAssumption
  <2>2. /\ u \in SegmentType /\ u.state = "UPDATING"
        /\ u.loaded = s.loaded /\ u.events = s.events
        /\ u.readers = s.readers /\ u.old_readers = s.old_readers
        /\ u.reader_ver = s.reader_ver /\ u.writer_ver = s.writer_ver
    BY DEF SegmentType, States
  <2>3. res = [seg |-> u, cmd |-> Head(s.events), raised |-> FALSE]
    BY <1>2, <2>1 DEF complete_validate, Returns
  <2> HIDE DEF u
  <2>4. EventsOK("UPDATING", s.loaded, s.events) /\ s.events[1].op = "load"
    BY <1>2, <2>1 DEF EventsOK
  <2> QED
    BY <1>2, <2>1, <2>2, <2>3, <2>4 DEF Completed, Answer, Busy, OpOf, SyncStates
<1> QED
  BY <1>1, <1>2

(* complete_update(), called when the builder has answered a load command. *)
LEMMA CompleteUpdate ==
  ASSUME NEW s \in SegmentType, EventsOK(s.state, s.loaded, s.events),
         s.state \in {"UPDATING", "COPYING"}, s.old_readers = {},
         s.writer_ver = 1 - s.reader_ver, NEW v \in BOOLEAN,
         NEW res, res = complete_update(s, v)
  PROVE  Completed(s, res)
<1> DEFINE n == IF s.loaded < LoadedCap THEN s.loaded + 1 ELSE s.loaded
           t == [s EXCEPT !.loaded = n]
<1>1. /\ t \in SegmentType /\ t.loaded = n
      /\ t.state = s.state /\ t.events = s.events
      /\ t.readers = s.readers /\ t.old_readers = s.old_readers
      /\ t.reader_ver = s.reader_ver /\ t.writer_ver = s.writer_ver
      /\ s.events \in Seq(Command)
  BY DEF SegmentType, LoadedCap
<1>2. CASE s.state = "UPDATING" /\ (v \/ n = 1)
  <2> DEFINE u == switch_versions(t)
  <2>2. res = start_sync(u, "SYNCHRONIZING")
    BY <1>2 DEF complete_update
  <2> HIDE DEF t, n
  <2>0. 1 - t.reader_ver \in Versions /\ 1 - t.writer_ver \in Versions
    BY <1>1 DEF SegmentType, Versions
  <2>1. /\ u \in SegmentType /\ u.readers = t.readers
        /\ u.loaded = t.loaded /\ u.events = t.events
        /\ u.reader_ver = 1 - t.reader_ver /\ u.writer_ver = 1 - t.writer_ver
    BY Zenon, <1>1, <2>0 DEF switch_versions, SegmentType
  <2> HIDE DEF u
  <2>3. EventsOK("SYNCHRONIZING", u.loaded, u.events)
    BY <1>1, <1>2, <2>1 DEF EventsOK
  <2>4. "SYNCHRONIZING" \in SyncStates
    BY DEF SyncStates
  <2> QED
    BY <1>1, <2>0, <2>1, <2>2, <2>3, <2>4, StartSync DEF Completed, Versions
<1>3. CASE s.state = "UPDATING" /\ ~(v \/ n = 1)
  <2> DEFINE u == [t EXCEPT !.events = Tail(@)]
  <2>1. Len(s.events) \in Nat /\ Len(s.events) > 0 /\ s.events # <<>>
    BY <1>1, <1>3 DEF EventsOK
  <2>2. /\ Tail(s.events) \in Seq(Command)
        /\ Len(Tail(s.events)) = Len(s.events) - 1
        /\ \A i \in 1..Len(Tail(s.events)) : Tail(s.events)[i] = s.events[i + 1]
    BY <1>1, <2>1
  <2>3. res = check_on_ready(u)
    BY <1>1, <1>3, <2>1 DEF complete_update
  <2> HIDE DEF t, n
  <2>4. /\ u \in SegmentType /\ u.events = Tail(s.events) /\ u.loaded = t.loaded
        /\ u.readers = s.readers /\ u.old_readers = s.old_readers
        /\ u.reader_ver = s.reader_ver /\ u.writer_ver = s.writer_ver
    BY Zenon, <1>1, <2>2 DEF SegmentType
  <2> HIDE DEF u
  <2>5. EventsOK("READY", u.loaded, u.events)
    BY <1>3, <2>1, <2>2, <2>4 DEF EventsOK
  <2> QED
    BY <1>3, <2>3, <2>4, <2>5, CheckOnReady DEF Completed, SyncStates
<1>4. CASE s.state = "COPYING" /\ n = 2
  <2>1. res = start_sync(t, "SYNCHRONIZING2")
    BY <1>1, <1>4 DEF complete_update
  <2> HIDE DEF t
  <2>2. EventsOK("SYNCHRONIZING2", t.loaded, t.events)
    BY <1>1, <1>4 DEF EventsOK
  <2>3. "SYNCHRONIZING2" \in SyncStates
    BY DEF SyncStates
  <2> QED
    BY <1>1, <2>1, <2>2, <2>3, StartSync DEF Completed
<1>5. CASE s.state = "COPYING" /\ n # 2
  <2>1. res = check_on_ready(t)
    BY <1>1, <1>5 DEF complete_update
  <2> HIDE DEF t, n
  <2>2. EventsOK("READY", t.loaded, t.events)
    BY <1>1, <1>5 DEF EventsOK
  <2> QED
    BY <1>1, <1>5, <2>1, <2>2, CheckOnReady DEF Completed, SyncStates
<1> QED
  BY <1>2, <1>3, <1>4, <1>5

(* The call changed nothing, which is also what an exception leaves. *)
NoEffect(s, res) == res.seg = s /\ res.cmd = None

(* A reader of the old version was taken out, and put among the current    *)
(* ones if it stays (rs).                                                  *)
OldReaderDone(s, r, rs, res) ==
  /\ s.state \in SyncStates /\ r \in s.old_readers /\ r \notin s.readers
  /\ Answer(res.seg, res.cmd) /\ ~res.raised
  /\ res.seg.readers = s.readers \cup rs
  /\ res.seg.old_readers = s.old_readers \ {r}
  /\ res.seg.reader_ver = s.reader_ver /\ res.seg.writer_ver = s.writer_ver
  /\ res.seg.state # "R_VALIDATING"
  /\ IF res.seg.old_readers = {} THEN res.seg.state \notin SyncStates
                                 ELSE res.seg.state = s.state

(* sync_reader(), called for the last outstanding acknowledgement. *)
LEMMA SyncReader ==
  ASSUME NEW s \in SegmentType, EventsOK(s.state, s.loaded, s.events),
         NEW r \in Readers, NEW res, res = sync_reader(s, r)
  PROVE  \/ NoEffect(s, res) /\ (r \notin s.old_readers \/ r \in s.readers
                                   \/ s.state \notin SyncStates)
         \/ OldReaderDone(s, r, {r}, res)
<1>1. CASE s.state \notin SyncStates
  BY <1>1 DEF sync_reader, Returns, NoEffect
<1>2. CASE s.state \in SyncStates /\ (r \notin s.old_readers \/ r \in s.readers)
  BY <1>2 DEF sync_reader, Raises, NoEffect
<1>3. CASE s.state \in SyncStates /\ r \in s.old_readers /\ r \notin s.readers
  <2> DEFINE t == [s EXCEPT !.old_readers = @ \ {r}, !.readers = @ \cup {r}]
  <2>1. /\ t \in SegmentType /\ t.state = s.state
        /\ t.readers = s.readers \cup {r} /\ t.old_readers = s.old_readers \ {r}
        /\ t.loaded = s.loaded /\ t.events = s.events
        /\ t.reader_ver = s.reader_ver /\ t.writer_ver = s.writer_ver
    BY Zenon DEF SegmentType
  <2>2. res = sync_reader_helper(t)
    BY <1>3 DEF sync_reader
  <2> HIDE DEF t
  <2> QED
    BY <1>3, <2>1, <2>2, SyncReaderHelper DEF OldReaderDone
<1> QED
  BY <1>1, <1>2, <1>3

(* remove_reader(), called for a reader that unsubscribed. *)
LEMMA RemoveReader ==
  ASSUME NEW s \in SegmentType, EventsOK(s.state, s.loaded, s.events),
         NEW r \in Readers, NEW res, res = remove_reader(s, r),
         r \notin s.readers \/ r \notin s.old_readers
  PROVE  \/ /\ NoEffect(s, res) /\ r \notin s.readers
            /\ r \in s.old_readers =>
                 s.state \notin {"V_SYNCHRONIZING", "SYNCHRONIZING"}
         \/ /\ res.cmd = None /\ r \in s.readers
            /\ res.seg = [s EXCEPT !.readers = @ \ {r}]
         \/ OldReaderDone(s, r, {}, res)
<1>1. CASE r \notin s.old_readers
  BY <1>1 DEF remove_reader, Returns, Raises, NoEffect
<1>2. CASE r \in s.old_readers /\ s.state \notin {"V_SYNCHRONIZING", "SYNCHRONIZING"}
  BY <1>2 DEF remove_reader, Raises, NoEffect
<1>3. CASE r \in s.old_readers /\ s.state \in {"V_SYNCHRONIZING", "SYNCHRONIZING"}
  <2> DEFINE t == [s EXCEPT !.old_readers = @ \ {r}]
  <2>1. /\ t \in SegmentType /\ t.state = s.state
        /\ t.readers = s.readers /\ t.old_readers = s.old_readers \ {r}
        /\ t.loaded = s.loaded /\ t.events = s.events
        /\ t.reader_ver = s.reader_ver /\ t.writer_ver = s.writer_ver
    BY DEF SegmentType
  <2>2. res = sync_reader_helper(t)
    BY <1>3 DEF remove_reader
  <2>3. s.state \in SyncStates
    BY <1>3 DEF SyncStates
  <2> HIDE DEF t
  <2> QED
    BY <1>3, <2>1, <2>2, <2>3, SyncReaderHelper DEF OldReaderDone
<1> QED
  BY <1>1, <1>2, <1>3

(* add_event() and start_update(), called for an updated zone: the event   *)
(* waits in the queue, or its load is started at once.                     *)
LoadAdded(s, res) ==
  /\ res.seg \in SegmentType
  /\ EventsOK(res.seg.state, res.seg.loaded, res.seg.events)
  /\ res.seg.readers = s.readers /\ res.seg.old_readers = s.old_readers
  /\ res.seg.reader_ver = s.reader_ver
  /\ res.seg.writer_ver = s.writer_ver
  /\ \/ res.seg.state = s.state /\ res.cmd = None
     \/ /\ s.state = "READY" /\ res.seg.state = "UPDATING"
        /\ res.cmd \in Command /\ res.cmd # None /\ res.cmd.op = "load"

LEMMA AddLoad ==
  ASSUME NEW s \in SegmentType, EventsOK(s.state, s.loaded, s.events),
         NEW z \in Zones, NEW res,
         res = start_update(add_event(s, [op |-> "load", arg |-> z]))
  PROVE  LoadAdded(s, res)
<1> DEFINE e == [op |-> "load", arg |-> z]
           ev == Append(s.events, e)
           t == add_event(s, e)
           u == [t EXCEPT !.state = "UPDATING"]
<1>1. e \in Command /\ e.op = "load" /\ s.events \in Seq(Command)
  BY DEF Command, SegmentType
<1> HIDE DEF e
<1>2. /\ ev \in Seq(Command) /\ ev # <<>> /\ Len(s.events) \in Nat
      /\ Len(ev) = Len(s.events) + 1 /\ Head(ev) = ev[1] /\ Head(ev) \in Command
      /\ \A i \in 1..Len(ev) : ev[i] = IF i <= Len(s.events) THEN s.events[i] ELSE e
  BY <1>1
<1>3. /\ t \in SegmentType /\ t.state = s.state /\ t.events = ev
      /\ u \in SegmentType /\ u.state = "UPDATING" /\ u.events = ev
      /\ \A x \in {t, u} :
           /\ x.readers = s.readers /\ x.old_readers = s.old_readers
           /\ x.loaded = s.loaded
           /\ x.reader_ver = s.reader_ver /\ x.writer_ver = s.writer_ver
  BY Zenon, <1>2 DEF add_event, SegmentType, States
<1>4. EventsOK(s.state, s.loaded, ev)
  BY <1>1, <1>2 DEF EventsOK
<1>5. res = start_update(t)
  BY DEF e
<1> HIDE DEF t
<1>6. CASE s.state # "READY"
  <2>1. res.seg = t /\ res.cmd = None
    BY <1>3, <1>5, <1>6 DEF start_update, Returns
  <2> HIDE DEF ev, u
  <2> QED
    BY <1>3, <1>4, <2>1 DEF LoadAdded
<1>7. CASE s.state = "READY"
  <2>1. res.seg = u /\ res.cmd = Head(ev)
    BY <1>2, <1>3, <1>5, <1>7 DEF start_update, Returns
  <2>2. Head(ev) # None
    BY <1>2, NoneAssumption DEF NoneAssumption
  <2> HIDE DEF u, ev
  <2>3. EventsOK("UPDATING", s.loaded, ev) /\ ev[1].op = "load"
    BY <1>2, <1>4, <1>7 DEF EventsOK
  <2> QED
    BY <1>2, <1>3, <1>7, <2>1, <2>2, <2>3 DEF LoadAdded
<1> QED
  BY Zenon, <1>6, <1>7

-----------------------------------------------------------------------------
(* Queues. *)

(* A queue of one element. *)
LEMMA OneElement ==
  ASSUME NEW S, NEW q \in Seq(S), Len(q) = 1
  PROVE  q # <<>> /\ Head(q) = q[1] /\ q[1] \in S /\ Tail(q) = <<>>
<1>1. q # <<>> /\ Head(q) = q[1] /\ q[1] \in S
  OBVIOUS
<1>2. Tail(q) \in Seq(S) /\ Len(Tail(q)) = 0
  BY <1>1, HeadAndTail
<1> QED
  BY Zenon, <1>1, <1>2, EmptyLength

(* A queue that has an element. *)
LEMMA NotEmpty ==
  ASSUME NEW S, NEW q \in Seq(S), Len(q) > 0
  PROVE  q # <<>>
  OBVIOUS

(* A queue that gets its first element. *)
LEMMA FirstElement ==
  ASSUME NEW S, NEW q \in Seq(S), q = <<>>, NEW x \in S
  PROVE  /\ Append(q, x) \in Seq(S)
         /\ Len(Append(q, x)) = 1 /\ Append(q, x)[1] = x
<1>1. Len(q) = 0
  OBVIOUS
<1> QED
  BY <1>1

(* A queue that gets its second element. *)
LEMMA SecondElement ==
  ASSUME NEW S, NEW q \in Seq(S), Len(q) = 1, NEW x \in S
  PROVE  /\ Append(q, x) \in Seq(S) /\ Len(Append(q, x)) = 2
         /\ Append(q, x)[1] = q[1] /\ Append(q, x)[2] = x
<1>1. Append(q, x) \in Seq(S) /\ Len(Append(q, x)) = 2
  OBVIOUS
<1>2. Append(q, x)[1] = q[1]
  OBVIOUS
<1>3. Append(q, x)[2] = x
  <2>1. Len(q) + 1 = 2
    OBVIOUS
  <2>2. Append(q, x)[Len(q) + 1] = x
    BY AppendedTo
  <2> QED
    BY <2>1, <2>2, Zenon
<1> QED
  BY <1>1, <1>2, <1>3

-----------------------------------------------------------------------------
(* Steps of the builder thread, the readers and the data source. *)

(* A change in the data source touches no part of the invariant. *)
LEMMA SourceChangesStep ==
  ASSUME TypeOK, IInv, NEW z \in Zones, SourceChanges(z)
  PROVE  TypeOK' /\ IInv'
<1>1. TypeOK'
  BY DEF TypeOK, SourceChanges, memmgrVars, builderVars, readerVars
<1>2. IInv'
  BY DEF IInv, TokenInv, ReadersInv, LifeInv, CountInv, MappingInv, Current,
     SourceChanges, memmgrVars, builderVars, readerVars
<1> QED
  BY <1>1, <1>2

(* The builder answers a validate command. *)
LEMMA BuilderValidateStep ==
  ASSUME TypeOK, IInv, BuilderValidate
  PROVE  TypeOK' /\ IInv'
<1> USE DEF BuilderValidate, BuilderIdle, memmgrVars, dataVars, readerVars
<1> DEFINE x == [op |-> "validate",
                 result |-> IF Head(commands).arg = None THEN FALSE
                            ELSE file[Head(commands).arg] # "absent"]
<1>1. x \in Response /\ x.op = "validate"
  BY Zenon DEF Response
<1>2. responses' = Append(responses, x) /\ commands' = Tail(commands)
  OBVIOUS
<1> HIDE DEF x
<1>3. /\ Len(commands) = 1 /\ commands[1].op = OpOf(seg.state)
      /\ responses = <<>> /\ seg.state \in Busy /\ Head(commands) = commands[1]
      /\ Tail(commands) = <<>>
  <2>1. Len(commands) = 1
    BY DEF IInv, TokenInv, TypeOK
  <2> QED
    BY <2>1, OneElement DEF IInv, TokenInv, TypeOK
<1>4. /\ commands' = <<>> /\ responses' \in Seq(Response)
      /\ Len(responses') = 1 /\ responses'[1] = x
  <2>1. responses \in Seq(Response)
    BY DEF TypeOK
  <2>2. /\ Append(responses, x) \in Seq(Response)
        /\ Len(Append(responses, x)) = 1 /\ Append(responses, x)[1] = x
    BY <1>1, <1>3, <2>1, FirstElement
  <2> QED
    BY Zenon, <1>2, <1>3, <2>2
<1>5. TypeOK'
  BY <1>1, <1>4 DEF TypeOK
<1>6. TokenInv'
  BY <1>1, <1>3, <1>4 DEF TokenInv
<1>7. (ReadersInv /\ LifeInv /\ CountInv /\ MappingInv)'
  BY Zenon DEF IInv, ReadersInv, LifeInv, CountInv, MappingInv, Current
<1> QED
  BY <1>5, <1>6, <1>7 DEF IInv

(* The builder opens the writer version. *)
LEMMA BuilderOpenStep ==
  ASSUME TypeOK, IInv, BuilderOpen
  PROVE  TypeOK' /\ IInv'
<1> USE DEF BuilderOpen, BuilderIdle, memmgrVars, readerVars
<1>1. /\ Len(commands) = 1 /\ commands[1].op = OpOf(seg.state)
      /\ responses = <<>> /\ seg.state \in Busy /\ Head(commands) = commands[1]
      /\ commands[1] \in Command /\ commands[1].op = "load"
      /\ Tail(commands) = <<>>
  <2>1. Len(commands) = 1
    BY DEF IInv, TokenInv, TypeOK
  <2> QED
    BY <2>1, OneElement DEF IInv, TokenInv, TypeOK
<1>2. /\ commands' = <<>> /\ responses' = <<>>
      /\ seg.state \in {"UPDATING", "COPYING"}
  BY <1>1 DEF TypeOK, OpOf, Busy
<1>3. commands[1].arg \in Zones \cup {None}
  BY <1>1 DEF Command
<1>4. working' \in Load /\ working'.ver = seg.writer_ver
  BY <1>1, <1>3 DEF TypeOK, SegmentType, Load, NewLoad, get_reset_param_writer
<1>5. working' # None
  BY Zenon, <1>4, NoneAssumption DEF NoneAssumption
<1>6. TypeOK'
  <2>1. file' \in [Versions -> FileStates] /\ content' \in [Versions -> [Zones -> Nat]]
    BY Zenon DEF TypeOK, FileStates, NoData
  <2>2. UNCHANGED <<memmgrVars, source, unnoticed, readerVars>>
    OBVIOUS
  <2>3. commands' \in Seq(Command) /\ responses' \in Seq(Response)
    BY ZenonT(30), <1>2, EmptyLength
  <2> HIDE DEF BuilderOpen
  <2> QED
    BY <1>4, <2>1, <2>2, <2>3 DEF TypeOK
<1>7. TokenInv'
  BY <1>1, <1>2, <1>4, <1>5 DEF TokenInv
<1>8. (ReadersInv /\ LifeInv /\ CountInv /\ MappingInv)'
  BY Zenon DEF IInv, ReadersInv, LifeInv, CountInv, MappingInv, Current
<1> QED
  BY <1>6, <1>7, <1>8 DEF IInv

(* The builder cannot open the writer version. *)
LEMMA BuilderOpenFailsStep ==
  ASSUME TypeOK, IInv, BuilderOpenFails
  PROVE  TypeOK' /\ IInv'
<1> USE DEF BuilderOpenFails, BuilderIdle, memmgrVars, dataVars, readerVars
<1> DEFINE x == [op |-> "load", result |-> FALSE]
<1>1. x \in Response /\ x.op = "load"
  BY DEF Response
<1>2. responses' = Append(responses, x) /\ commands' = Tail(commands)
  OBVIOUS
<1> HIDE DEF x
<1>3. /\ Len(commands) = 1 /\ commands[1].op = OpOf(seg.state)
      /\ responses = <<>> /\ seg.state \in Busy /\ Head(commands) = commands[1]
      /\ Tail(commands) = <<>>
  <2>1. Len(commands) = 1
    BY DEF IInv, TokenInv, TypeOK
  <2> QED
    BY <2>1, OneElement DEF IInv, TokenInv, TypeOK
<1>4. /\ commands' = <<>> /\ responses' \in Seq(Response)
      /\ Len(responses') = 1 /\ responses'[1] = x
  <2>1. responses \in Seq(Response)
    BY DEF TypeOK
  <2>2. /\ Append(responses, x) \in Seq(Response)
        /\ Len(Append(responses, x)) = 1 /\ Append(responses, x)[1] = x
    BY <1>1, <1>3, <2>1, FirstElement
  <2> QED
    BY ZenonT(30), <1>2, <1>3, <2>2
<1>5. TypeOK'
  BY <1>1, <1>4 DEF TypeOK
<1>6. TokenInv'
  BY <1>1, <1>3, <1>4 DEF TokenInv
<1>7. (ReadersInv /\ LifeInv /\ CountInv /\ MappingInv)'
  BY Zenon DEF IInv, ReadersInv, LifeInv, CountInv, MappingInv, Current
<1> QED
  BY <1>5, <1>6, <1>7 DEF IInv

(* The builder loads a zone. *)
LEMMA BuilderLoadZoneStep ==
  ASSUME TypeOK, IInv, NEW z \in Zones, BuilderLoadZone(z)
  PROVE  TypeOK' /\ IInv'
<1> USE DEF BuilderLoadZone, memmgrVars, readerVars
<1>1. PICK ok \in BOOLEAN :
        working' = [working EXCEPT !.todo = @ \ {z}, !.errors = @ \/ ~ok]
  BY Zenon
<1>2. working \in Load /\ working # None
  BY DEF TypeOK
<1>3. working' \in Load /\ working'.ver = working.ver
  BY Zenon, <1>1, <1>2 DEF Load
<1>4. working' # None
  BY <1>3, NoneAssumption DEF NoneAssumption
<1>5. content' \in [Versions -> [Zones -> Nat]]
  <2>1. PICK d \in Nat : content' = [content EXCEPT ![working.ver][z] = d]
    <3>1. source[z] \in Nat /\ content[working.ver][z] \in Nat /\ NoData \in Nat
      BY <1>2 DEF TypeOK, Load, NoData
    <3>2. \A ok1 \in BOOLEAN :
            (IF ok1 THEN {source[z]}
             ELSE {content[working.ver][z]}
                    \cup (IF working.zone = None THEN {NoData} ELSE {})) \subseteq Nat
      BY <3>1
    <3> QED
      BY Zenon, <3>2
  <2> QED
    BY <1>2, <2>1 DEF TypeOK, Load
<1>6. UNCHANGED <<memmgrVars, commands, responses, file, source, unnoticed, readerVars>>
  OBVIOUS
<1> HIDE DEF BuilderLoadZone
<1>7. TypeOK'
  BY <1>3, <1>5, <1>6 DEF TypeOK
<1>8. TokenInv'
  BY <1>2, <1>3, <1>4, <1>6 DEF IInv, TokenInv
<1>9. (ReadersInv /\ LifeInv /\ CountInv /\ MappingInv)'
  BY <1>6 DEF IInv, ReadersInv, LifeInv, CountInv, MappingInv, Current
<1> QED
  BY <1>6, <1>7, <1>8, <1>9 DEF IInv

(* The builder closes the file it has loaded. *)
LEMMA BuilderCloseStep ==
  ASSUME TypeOK, IInv, BuilderClose
  PROVE  TypeOK' /\ IInv'
<1> USE DEF BuilderClose, memmgrVars, readerVars
<1> DEFINE x == [op |-> "load", result |-> working.zone = None \/ ~working.errors]
<1>1. x \in Response /\ x.op = "load"
  BY DEF Response, TypeOK, Load
<1>2. responses' = Append(responses, x)
  BY Zenon
<1> HIDE DEF x
<1>3. /\ commands = <<>> /\ responses = <<>>
      /\ seg.state \in {"UPDATING", "COPYING"}
  BY DEF IInv, TokenInv
<1>4. /\ commands' = <<>> /\ responses' \in Seq(Response)
      /\ Len(responses') = 1 /\ responses'[1] = x /\ working' = None
  BY <1>1, <1>2, <1>3, FirstElement DEF TypeOK
<1>5. working \in Load
  BY DEF TypeOK
<1>6. TypeOK'
  <2>1. file' \in [Versions -> FileStates]
    BY <1>5 DEF TypeOK, FileStates, Load
  <2> QED
    BY <1>1, <1>4, <2>1 DEF TypeOK
<1>7. TokenInv'
  BY <1>1, <1>3, <1>4 DEF TokenInv, OpOf, Busy
<1>8. (ReadersInv /\ LifeInv /\ CountInv /\ MappingInv)'
  BY Zenon DEF IInv, ReadersInv, LifeInv, CountInv, MappingInv, Current
<1> QED
  BY ZenonT(30), <1>6, <1>7, <1>8 DEF IInv

(* A reader subscribes. *)
LEMMA SubscribeStep ==
  ASSUME TypeOK, IInv, NEW r \in Readers, Subscribe(r)
  PROVE  TypeOK' /\ IInv'
<1> USE DEF Subscribe, memmgrVars, builderVars, dataVars
<1>1. TypeOK'
  BY Zenon DEF TypeOK
<1>2. (TokenInv /\ ReadersInv /\ MappingInv)'
  BY Zenon DEF IInv, TokenInv, ReadersInv, MappingInv, Current
<1>3. LifeInv'
  BY Zenon DEF TypeOK, IInv, LifeInv
<1>4. CountInv'
  BY DEF TypeOK, IInv, LifeInv, CountInv
<1> QED
  BY <1>1, <1>2, <1>3, <1>4 DEF IInv

(* A reader handles its oldest message and acknowledges it. *)
LEMMA SegmentUpdateStep ==
  ASSUME TypeOK, IInv, NEW r \in Readers, SegmentUpdate(r)
  PROVE  TypeOK' /\ IInv'
<1> USE DEF SegmentUpdate, memmgrVars, builderVars, dataVars
<1> DEFINE q == inbox[r]
           f == mapped'[r]
<1>1. /\ q \in Seq(Message) /\ q # <<>> /\ Head(q) = q[1] /\ q[1] \in Message
      /\ Tail(q) \in Seq(Message) /\ Len(Tail(q)) = Len(q) - 1 /\ Len(q) \in Nat \ {0}
      /\ \A i \in 1..Len(Tail(q)) : Tail(q)[i] = q[i + 1]
  <2>1. q \in Seq(Message) /\ q # <<>>
    BY DEF TypeOK
  <2> HIDE DEF q
  <2> QED
    BY <2>1, HeadAndTail, EmptyLength
<1>2. /\ inbox' = [inbox EXCEPT ![r] = Tail(q)]
      /\ f \in {mapped[r], q[1].file}
      /\ f = q[1].file \/ (mapped[r] = None /\ f = None)
      /\ \A x \in Readers \ {r} : mapped'[x] = mapped[x]
      /\ inbox'[r] = Tail(q) /\ \A x \in Readers \ {r} : inbox'[x] = inbox[x]
      /\ acks'[r] = acks[r] + 1 /\ \A x \in Readers \ {r} : acks'[x] = acks[x]
      /\ mapped' \in [Readers -> Versions \cup {None}]
      /\ inbox' \in [Readers -> Seq(Message)] /\ acks' \in [Readers -> Nat]
  <2>1. /\ inbox' = [inbox EXCEPT ![r] = Tail(q)]
        /\ inbox'[r] = Tail(q) /\ \A x \in Readers \ {r} : inbox'[x] = inbox[x]
        /\ inbox' \in [Readers -> Seq(Message)]
    BY Zenon, <1>1 DEF TypeOK
  <2>2. /\ acks'[r] = acks[r] + 1 /\ \A x \in Readers \ {r} : acks'[x] = acks[x]
        /\ acks' \in [Readers -> Nat]
    BY DEF TypeOK
  <2>3. \/ mapped' = mapped /\ mapped[r] = None
        \/ mapped' = [mapped EXCEPT ![r] = q[1].file]
    BY Zenon, <1>1 DEF TypeOK
  <2>4. mapped \in [Readers -> Versions \cup {None}]
          /\ q[1].file \in Versions \cup {None}
    BY Zenon, <1>1 DEF TypeOK, Message
  <2> HIDE DEF q, SegmentUpdate
  <2> QED
    BY ZenonT(30), <2>1, <2>2, <2>3, <2>4
<1>3. /\ life[r] = "subscribed" /\ r \in known /\ r \notin joins
      /\ r \in seg.readers \cup seg.old_readers
  BY ZenonT(30), <1>1 DEF IInv, LifeInv, ReadersInv
<1>4. UNCHANGED <<memmgrVars, builderVars, dataVars, life, joins, leaves>>
  BY Zenon
<1> HIDE DEF q, f, SegmentUpdate
<1>5. TypeOK'
  BY Zenon, <1>2, <1>4 DEF TypeOK
<1>6. (TokenInv /\ ReadersInv)'
  BY Zenon, <1>4 DEF IInv, TokenInv, ReadersInv
<1>7. LifeInv'
  BY Zenon, <1>2, <1>3, <1>4 DEF IInv, LifeInv
<1>8. CountInv'
  <2>1. \A x \in Readers : acks[x] \in Nat /\ outstanding[x] \in Nat
    BY DEF TypeOK
  <2>2. outstanding[r] = Len(q) + acks[r]
    BY <1>3 DEF IInv, CountInv, q
  <2>3. outstanding[r] = Len(inbox'[r]) + acks'[r]
    <3>1. Len(q) \in Nat /\ Len(inbox'[r]) = Len(q) - 1 /\ acks'[r] = acks[r] + 1
      BY <1>1, <1>2, <2>1
    <3> QED
      BY <2>1, <2>2, <3>1
  <2> QED
    BY Zenon, <1>2, <1>3, <1>4, <2>3 DEF IInv, CountInv
<1>9. MappingInv'
  <2> SUFFICES ASSUME NEW x \in Readers
               PROVE  /\ x \in seg.readers =>
                          IF seg.state = "R_VALIDATING"
                          THEN inbox'[x] = <<>> /\ acks'[x] = 0
                          ELSE /\ Current(mapped'[x])
                               /\ \A i \in 1..Len(inbox'[x]) : Current(inbox'[x][i].file)
                      /\ x \in seg.old_readers =>
                          IF inbox'[x] = <<>> THEN Current(mapped'[x])
                          ELSE Current(inbox'[x][Len(inbox'[x])].file)
    BY Zenon, <1>4 DEF MappingInv, Current
  <2>1. CASE x # r
    BY ZenonT(30), <1>2, <2>1 DEF IInv, MappingInv, Current
  <2>2. CASE x = r /\ r \in seg.readers
    <3>1. /\ seg.state # "R_VALIDATING" /\ r \notin seg.old_readers
          /\ Current(mapped[r]) /\ \A i \in 1..Len(q) : Current(q[i].file)
      BY <1>1, <2>2 DEF IInv, MappingInv, ReadersInv, q
    <3>2. \A i \in 1..Len(Tail(q)) : Current(Tail(q)[i].file)
      BY <1>1, <3>1
    <3>3. Current(f)
      BY <1>1, <1>2, <3>1
    <3> QED
      BY Zenon, <1>2, <2>2, <3>1, <3>2, <3>3 DEF f
  <2>3. CASE x = r /\ r \in seg.old_readers
    <3>1. Current(q[Len(q)].file) /\ r \notin seg.readers
      BY Zenon, <1>1, <2>3 DEF IInv, MappingInv, ReadersInv, q
    <3>2. CASE Len(q) = 1
      <4>1. Tail(q) = <<>>
        BY <1>1, <3>2, OneElement
      <4> QED
        BY <1>2, <2>3, <3>1, <3>2, <4>1 DEF Current, f
    <3>3. CASE Len(q) > 1
      <4>1. Tail(q) # <<>> /\ Tail(q)[Len(Tail(q))] = q[Len(q)]
        <5>1. Len(Tail(q)) \in 1..Len(Tail(q)) /\ Len(Tail(q)) + 1 = Len(q)
          BY <1>1, <3>3
        <5> DEFINE u == Tail(q)
        <5>2. u # <<>>
          <6>1. u \in Seq(Message) /\ Len(u) > 0
            BY <1>1, <5>1
          <6> HIDE DEF u
          <6> QED
            BY <6>1, NotEmpty
        <5>3. Tail(q)[Len(Tail(q))] = q[Len(Tail(q)) + 1]
          BY <1>1, <5>1
        <5> QED
          BY <5>1, <5>2, <5>3
      <4> QED
        BY Zenon, <1>2, <2>3, <3>1, <4>1
    <3> QED
      BY <1>1, <3>2, <3>3
  <2> QED
    BY Zenon, <1>3, <2>1, <2>2, <2>3
<1> QED
  BY <1>4, <1>5, <1>6, <1>7, <1>8, <1>9 DEF IInv

(* Only reader r has changed: the mapping of the others is as it was. *)
LEMMA MappingOfOne ==
  ASSUME IInv, NEW r \in Readers, seg'.state = seg.state,
         seg'.reader_ver = seg.reader_ver, seg'.old_readers = seg.old_readers,
         \A x \in Readers \ {r} :
            /\ inbox'[x] = inbox[x] /\ acks'[x] = acks[x] /\ mapped'[x] = mapped[x]
            /\ x \in seg'.readers => x \in seg.readers,
         r \in seg'.readers =>
            IF seg'.state = "R_VALIDATING" THEN inbox'[r] = <<>> /\ acks'[r] = 0
            ELSE /\ Current(mapped'[r])
                 /\ \A i \in 1..Len(inbox'[r]) : Current(inbox'[r][i].file),
         r \in seg'.old_readers =>
            IF inbox'[r] = <<>> THEN Current(mapped'[r])
            ELSE Current(inbox'[r][Len(inbox'[r])].file)
  PROVE  MappingInv'
<1>1. ASSUME NEW x \in Readers
      PROVE  /\ x \in seg'.readers =>
                  IF seg'.state = "R_VALIDATING" THEN inbox'[x] = <<>> /\ acks'[x] = 0
                  ELSE /\ Current(mapped'[x])
                       /\ \A i \in 1..Len(inbox'[x]) : Current(inbox'[x][i].file)
             /\ x \in seg'.old_readers =>
                  IF inbox'[x] = <<>> THEN Current(mapped'[x])
                  ELSE Current(inbox'[x][Len(inbox'[x])].file)
  <2>1. CASE x = r
    BY Zenon, <2>1
  <2>2. CASE x # r
    <3>1. /\ inbox'[x] = inbox[x] /\ acks'[x] = acks[x] /\ mapped'[x] = mapped[x]
          /\ x \in seg'.readers => x \in seg.readers
      BY Zenon, <2>2
    <3> QED
      BY Zenon, <3>1 DEF IInv, MappingInv
  <2> QED
    BY Zenon, <2>1, <2>2
<1> QED
  BY Zenon, <1>1 DEF MappingInv, Current

(* A reader leaves. *)
LEMMA UnsubscribeStep ==
  ASSUME TypeOK, IInv, NEW r \in Readers, Unsubscribe(r)
  PROVE  TypeOK' /\ IInv'
<1> USE DEF Unsubscribe, memmgrVars, builderVars, dataVars
<1>1. TypeOK'
  BY DEF TypeOK
<1>2. (TokenInv /\ ReadersInv)'
  BY Zenon DEF IInv, TokenInv, ReadersInv
<1>3. LifeInv'
  BY Zenon DEF TypeOK, IInv, LifeInv
<1>4. CountInv'
  BY Zenon DEF TypeOK, IInv, CountInv
<1>5. MappingInv'
  <2>1. /\ mapped'[r] = None /\ inbox'[r] = <<>> /\ Len(inbox'[r]) = 0
        /\ \A x \in Readers \ {r} : mapped'[x] = mapped[x] /\ inbox'[x] = inbox[x]
        /\ seg' = seg /\ acks' = acks
    BY DEF TypeOK
  <2>2. \A i \in 1..Len(inbox'[r]) : FALSE
    BY Zenon, <2>1, NoneUpTo
  <2>3. Current(mapped'[r])
    BY Zenon, <2>1 DEF Current
  <2>4. r \in seg.readers /\ seg.state = "R_VALIDATING" => acks[r] = 0
    BY Zenon DEF IInv, MappingInv
  <2> QED
    BY Zenon, <2>1, <2>2, <2>3, <2>4, MappingOfOne
<1> QED
  BY <1>1, <1>2, <1>3, <1>4, <1>5 DEF IInv

-----------------------------------------------------------------------------
(* Handlers of the main thread. *)

(* The main thread gives the builder the command that its new state waits  *)
(* for.                                                                    *)
LEMMA CommandGiven ==
  ASSUME TypeOK, commands = <<>>, working' = None, responses' = <<>>,
         NEW c, Answer(seg', c), cmd_to_builder(c)
  PROVE  commands' \in Seq(Command) /\ TokenInv'
<1>1. CASE c = None
  BY Zenon, <1>1 DEF TypeOK, Answer, cmd_to_builder, TokenInv
<1>2. CASE c # None
  <2>1. c \in Command /\ seg'.state \in Busy /\ c.op = OpOf(seg'.state)
    BY <1>2 DEF Answer
  <2>2. commands' \in Seq(Command) /\ Len(commands') = 1 /\ commands'[1] = c
    BY <1>2, <2>1, FirstElement DEF TypeOK, cmd_to_builder
  <2> QED
    BY Zenon, <2>1, <2>2 DEF TokenInv
<1> QED
  BY <1>1, <1>2

(* memmgr learns that a reader has subscribed. *)
LEMMA ReaderSubscribedStep ==
  ASSUME TypeOK, IInv, NEW r \in Readers, ReaderSubscribed(r)
  PROVE  TypeOK' /\ IInv'
<1> DEFINE m == Update(seg)
<1>1. /\ r \in joins /\ r \notin known /\ r \notin seg.readers
      /\ r \notin seg.old_readers /\ life[r] # "new"
      /\ mapped[r] = None /\ inbox[r] = <<>> /\ acks[r] = 0 /\ outstanding[r] = 0
  BY Zenon DEF IInv, LifeInv, ReadersInv, CountInv, ReaderSubscribed
<1>2. /\ seg' = [seg EXCEPT !.readers = @ \cup {r}]
      /\ known' = known \cup {r} /\ joins' = joins \ {r}
      /\ UNCHANGED <<failed, builderVars, dataVars, life, leaves, acks, mapped>>
      /\ \/ loaded(seg) /\ notify_readers({r}, m)
         \/ inbox' = inbox /\ outstanding' = outstanding
  BY <1>1 DEF ReaderSubscribed, add_reader, Returns, Raises
<1>3. /\ seg' \in SegmentType /\ seg'.state = seg.state
      /\ seg'.loaded = seg.loaded /\ seg'.events = seg.events
      /\ seg'.readers = seg.readers \cup {r} /\ seg'.old_readers = seg.old_readers
      /\ seg'.reader_ver = seg.reader_ver /\ seg'.writer_ver = seg.writer_ver
  BY Zenon, <1>2 DEF TypeOK, SegmentType
<1>4. m \in Message /\ Current(m.file)
  BY Zenon DEF TypeOK, SegmentType, Message, Update, Current, get_reset_param_reader, loaded
<1> HIDE DEF m
<1>5. /\ inbox' \in [Readers -> Seq(Message)] /\ outstanding' \in [Readers -> Nat]
      /\ \A x \in Readers \ {r} : inbox'[x] = inbox[x] /\ outstanding'[x] = outstanding[x]
      /\ \/ inbox'[r] = <<>> /\ outstanding'[r] = 0
         \/ /\ loaded(seg) /\ life[r] # "subscribed"
            /\ inbox'[r] = <<>> /\ outstanding'[r] = 1
         \/ /\ loaded(seg) /\ Len(inbox'[r]) = 1 /\ inbox'[r][1] = m
            /\ life[r] = "subscribed" /\ outstanding'[r] = 1
  <2>1. CASE inbox' = inbox /\ outstanding' = outstanding
    BY Zenon, <1>1, <2>1 DEF TypeOK
  <2>2. CASE loaded(seg) /\ notify_readers({r}, m)
    <3>1. /\ inbox[r] \in Seq(Message) /\ Append(inbox[r], m) \in Seq(Message)
          /\ Len(Append(inbox[r], m)) = 1 /\ Append(inbox[r], m)[1] = m
      <4>1. inbox[r] \in Seq(Message) /\ inbox[r] = <<>>
        BY Zenon, <1>1 DEF TypeOK
      <4>2. m \in Message
        BY Zenon, <1>4
      <4> QED
        BY <4>1, <4>2, FirstElement
    <3>2. inbox' \in [Readers -> Seq(Message)]
      BY <2>2, <3>1 DEF TypeOK, notify_readers
    <3>3. outstanding' \in [Readers -> Nat] /\ outstanding'[r] = 1
      BY <1>1, <2>2 DEF TypeOK, notify_readers
    <3>4. \A x \in Readers \ {r} : inbox'[x] = inbox[x] /\ outstanding'[x] = outstanding[x]
      BY Zenon, <2>2 DEF notify_readers
    <3>5. inbox'[r] = IF life[r] = "subscribed" THEN Append(inbox[r], m) ELSE inbox[r]
      BY <2>2 DEF notify_readers
    <3> QED
      BY Zenon, <1>1, <2>2, <3>1, <3>2, <3>3, <3>4, <3>5
  <2> QED
    BY <1>2, <2>1, <2>2
<1>6. TypeOK'
  BY <1>2, <1>3, <1>5 DEF TypeOK, builderVars, dataVars
<1>7. TokenInv' /\ EventsOK(seg.state, seg.loaded, seg.events)'
  BY <1>2, <1>3 DEF IInv, TokenInv, builderVars
<1>8. ReadersInv'
  BY <1>1, <1>2, <1>3 DEF IInv, ReadersInv
<1>9. LifeInv'
  BY ZenonT(30), <1>1, <1>2, <1>3, <1>5 DEF IInv, LifeInv
<1>10. CountInv'
  <2>1. life[r] = "subscribed" => outstanding'[r] = Len(inbox'[r]) + acks'[r]
    <3>1. inbox'[r] = <<>> => Len(inbox'[r]) = 0
      OBVIOUS
    <3>2. acks'[r] = 0
      BY <1>1, <1>2
    <3>3. \/ Len(inbox'[r]) = 0 /\ outstanding'[r] = 0
          \/ life[r] # "subscribed"
          \/ Len(inbox'[r]) = 1 /\ outstanding'[r] = 1
      BY <1>5, <3>1
    <3>4. Len(inbox'[r]) \in Nat
      BY <1>5, LengthOf
    <3>5. outstanding'[r] \in Nat /\ acks'[r] \in Nat
      BY <1>2, <1>5 DEF TypeOK
    <3>6. CASE Len(inbox'[r]) = 0 /\ outstanding'[r] = 0
      BY <3>2, <3>4, <3>5, <3>6
    <3>7. CASE Len(inbox'[r]) = 1 /\ outstanding'[r] = 1
      BY <3>2, <3>4, <3>5, <3>7
    <3> QED
      BY <3>3, <3>6, <3>7
  <2> QED
    BY Zenon, <1>2, <1>5, <2>1 DEF IInv, CountInv
<1>11. MappingInv'
  <2>1. loaded(seg) => seg.state # "R_VALIDATING"
    <3>1. EventsOK(seg.state, seg.loaded, seg.events)
      BY Zenon DEF IInv
    <3> QED
      BY <3>1 DEF EventsOK, loaded
  <2>2. \A x \in Readers \ {r} : inbox'[x] = inbox[x] /\ acks'[x] = acks[x]
                                   /\ mapped'[x] = mapped[x]
    BY <1>2, <1>5
  <2>3. /\ seg.state = "R_VALIDATING" => inbox'[r] = <<>> /\ acks'[r] = 0
        /\ Current(mapped'[r])
        /\ \A i \in 1..Len(inbox'[r]) : Current(inbox'[r][i].file)
    BY <1>1, <1>2, <1>4, <1>5, <2>1 DEF Current
  <2>4. r \notin seg'.old_readers /\ \A x \in Readers \ {r} : x \in seg'.readers => x \in seg.readers
    BY Zenon, <1>1, <1>3
  <2> QED
    BY Zenon, <1>3, <2>2, <2>3, <2>4, MappingOfOne
<1> QED
  BY <1>2, <1>3, <1>6, <1>7, <1>8, <1>9, <1>10, <1>11 DEF IInv

(* memmgr is told that a zone has changed. *)
LEMMA UpdateZoneStep ==
  ASSUME TypeOK, IInv, NEW z \in Zones, UpdateZone(z)
  PROVE  TypeOK' /\ IInv'
<1> DEFINE res == start_update(add_event(seg, [op |-> "load", arg |-> z]))
<1>1. /\ seg' = res.seg /\ cmd_to_builder(res.cmd)
      /\ unnoticed' \in [Zones -> Nat]
      /\ UNCHANGED <<known, outstanding, failed, working, responses,
                     file, content, source, readerVars>>
  BY DEF UpdateZone, TypeOK
<1>2. /\ res.seg \in SegmentType
      /\ EventsOK(res.seg.state, res.seg.loaded, res.seg.events)
      /\ res.seg.readers = seg.readers /\ res.seg.old_readers = seg.old_readers
      /\ res.seg.reader_ver = seg.reader_ver
      /\ res.seg.writer_ver = seg.writer_ver
      /\ \/ res.seg.state = seg.state /\ res.cmd = None
         \/ /\ seg.state = "READY" /\ res.seg.state = "UPDATING"
            /\ res.cmd \in Command /\ res.cmd # None /\ res.cmd.op = "load"
  <2>1. seg \in SegmentType /\ EventsOK(seg.state, seg.loaded, seg.events)
    BY DEF TypeOK, IInv
  <2>2. res = start_update(add_event(seg, [op |-> "load", arg |-> z]))
    OBVIOUS
  <2> HIDE DEF res
  <2>3. LoadAdded(seg, res)
    BY Zenon, <2>1, <2>2, AddLoad
  <2> QED
    BY Zenon, <2>3 DEF LoadAdded
<1> HIDE DEF res
<1>3. commands' \in Seq(Command) /\ TokenInv'
  <2>1. CASE res.seg.state = seg.state /\ res.cmd = None
    BY Zenon, <1>1, <1>2, <2>1 DEF TypeOK, IInv, TokenInv, cmd_to_builder
  <2>2. CASE seg.state = "READY" /\ res.seg.state = "UPDATING"
    <3>1. commands = <<>> /\ working' = None /\ responses' = <<>>
      BY <1>1, <2>2 DEF IInv, TokenInv, Busy
    <3>2. Answer(seg', res.cmd)
      BY Zenon, <1>1, <1>2, <2>2 DEF Answer, Busy, OpOf
    <3> QED
      BY <1>1, <3>1, <3>2, CommandGiven
  <2> QED
    BY Zenon, <1>2, <2>1, <2>2
<1>4. TypeOK'
  BY Zenon, <1>1, <1>2, <1>3 DEF TypeOK, readerVars
<1>5. (ReadersInv /\ LifeInv /\ CountInv)'
  BY Zenon, <1>1, <1>2 DEF IInv, ReadersInv, LifeInv, CountInv, SyncStates, readerVars
<1>6. MappingInv'
  BY Zenon, <1>1, <1>2 DEF IInv, MappingInv, Current, readerVars
<1> QED
  BY Zenon, <1>1, <1>2, <1>3, <1>4, <1>5, <1>6 DEF IInv

(* A reader of the old version is done with: what the rest of the          *)
(* invariant needs after sync_reader() or remove_reader(), whichever of    *)
(* the sets rs and known' the reader ends up in.                           *)
LEMMA OldReaderDoneStep ==
  ASSUME TypeOK, IInv, NEW r \in Readers, NEW rs, rs = {} \/ rs = {r}, NEW res,
         OldReaderDone(seg, r, rs, res), seg' = res.seg, cmd_to_builder(res.cmd),
         working' = working, responses' = responses, r \in known,
         known' = IF rs = {} THEN known \ {r} ELSE known,
         inbox' = inbox, mapped' = mapped, rs = {r} => Current(mapped[r]) /\ inbox[r] = <<>>
  PROVE  /\ seg' \in SegmentType /\ commands' \in Seq(Command) /\ TokenInv'
         /\ EventsOK(seg'.state, seg'.loaded, seg'.events)
         /\ seg'.writer_ver = 1 - seg'.reader_ver
         /\ ReadersInv' /\ MappingInv' /\ seg'.old_readers \subseteq seg.old_readers
<1> DEFINE s == res.seg
<1>1. /\ s.state # "R_VALIDATING" /\ s.readers = seg.readers \cup rs
      /\ s.old_readers = seg.old_readers \ {r} /\ s.reader_ver = seg.reader_ver
      /\ s.writer_ver = seg.writer_ver /\ Answer(s, res.cmd)
      /\ IF s.old_readers = {} THEN s.state \notin SyncStates
                               ELSE s.state = seg.state
      /\ seg.state \in SyncStates /\ r \in seg.old_readers /\ r \notin seg.readers
  BY Zenon DEF OldReaderDone
<1> HIDE DEF s
<1>2. seg' = s
  BY DEF s
<1>3. commands = <<>> /\ working' = None /\ responses' = <<>>
  BY Zenon, <1>1 DEF IInv, TokenInv, Busy, SyncStates
<1>4. commands' \in Seq(Command) /\ TokenInv'
  BY Zenon, <1>1, <1>2, <1>3, CommandGiven
<1>5. ReadersInv'
  <2>1. seg'.state \notin SyncStates => seg'.old_readers = {}
    BY Zenon, <1>1, <1>2
  <2>2. seg'.readers \cap seg'.old_readers = {}
    BY Zenon, <1>1, <1>2 DEF IInv, ReadersInv
  <2>3. seg'.readers \subseteq known' /\ known' \subseteq seg'.readers \cup seg'.old_readers
    BY Zenon, <1>1, <1>2 DEF IInv, ReadersInv
  <2>4. seg'.state # "SYNCHRONIZING2" => seg'.old_readers \subseteq known'
    BY Zenon, <1>1, <1>2 DEF IInv, ReadersInv
  <2> QED
    BY Zenon, <2>1, <2>2, <2>3, <2>4 DEF ReadersInv
<1>6. MappingInv'
  <2> SUFFICES ASSUME NEW x \in Readers
               PROVE  /\ x \in s.readers =>
                           /\ Current(mapped[x])
                           /\ \A i \in 1..Len(inbox[x]) : Current(inbox[x][i].file)
                      /\ x \in s.old_readers =>
                           IF inbox[x] = <<>> THEN Current(mapped[x])
                           ELSE Current(inbox[x][Len(inbox[x])].file)
    BY Zenon, <1>1, <1>2 DEF MappingInv, Current
  <2>1. CASE x \in seg.readers
    BY Zenon, <1>1, <2>1 DEF IInv, MappingInv, ReadersInv, SyncStates
  <2>2. CASE x \in rs
    <3>1. x = r /\ Len(inbox[x]) = 0 /\ x \notin s.old_readers
      BY Zenon, <1>1, <2>2, EmptyLength
    <3>2. \A i \in 1..Len(inbox[x]) : FALSE
      BY Zenon, <3>1, NoneUpTo
    <3> QED
      BY Zenon, <2>2, <3>1, <3>2
  <2>3. CASE x \in s.old_readers
    BY Zenon, <1>1, <2>3 DEF IInv, MappingInv, ReadersInv
  <2> QED
    BY Zenon, <1>1, <2>1, <2>2, <2>3
<1> QED
  BY Zenon, <1>1, <1>2, <1>4, <1>5, <1>6 DEF Answer, IInv

(* memmgr handles an acknowledgement. *)
LEMMA SegmentInfoUpdateAckStep ==
  ASSUME TypeOK, IInv, NEW r \in Readers, SegmentInfoUpdateAck(r)
  PROVE  TypeOK' /\ IInv'
<1> DEFINE res == sync_reader(seg, r)
<1>1. /\ acks[r] > 0 /\ acks' \in [Readers -> Nat] /\ acks'[r] = acks[r] - 1
      /\ \A x \in Readers \ {r} : acks'[x] = acks[x]
  BY DEF SegmentInfoUpdateAck, TypeOK
<1>2. UNCHANGED <<known, failed, working, responses, dataVars,
                  life, joins, leaves, inbox, mapped>>
  BY DEF SegmentInfoUpdateAck
<1>3. /\ outstanding' \in [Readers -> Nat]
      /\ \A x \in Readers \ {r} : outstanding'[x] = outstanding[x]
      /\ r \notin known => outstanding'[r] = outstanding[r]
      /\ r \in known /\ outstanding[r] > 0 => outstanding'[r] = outstanding[r] - 1
  <2>1. CASE r \in known /\ outstanding[r] > 0
    <3>1. outstanding' = [outstanding EXCEPT ![r] = @ - 1]
      BY <2>1 DEF SegmentInfoUpdateAck
    <3>2. outstanding \in [Readers -> Nat] /\ outstanding[r] - 1 \in Nat
      BY <2>1 DEF TypeOK
    <3> QED
      BY <2>1, <3>1, <3>2
  <2>2. CASE ~(r \in known /\ outstanding[r] > 0)
    BY Zenon, <2>2 DEF SegmentInfoUpdateAck, TypeOK
  <2> QED
    BY <2>1, <2>2
<1>4. /\ r \notin joins /\ life[r] # "new" /\ acks[r] \in Nat /\ outstanding[r] \in Nat
      /\ inbox[r] \in Seq(Message) /\ Len(inbox[r]) \in Nat
  <2>1. acks[r] \in Nat /\ outstanding[r] \in Nat /\ inbox[r] \in Seq(Message)
    BY DEF TypeOK
  <2>2. Len(inbox[r]) \in Nat
    BY <2>1, LengthOf
  <2>3. acks[r] # 0
    BY <1>1, <2>1
  <2>4. r \in joins \/ life[r] = "new" => acks[r] = 0
    BY DEF IInv, LifeInv
  <2> QED
    BY Zenon, <2>1, <2>2, <2>3, <2>4
<1>5. \/ seg' = seg /\ commands' = commands
      \/ /\ r \in known /\ outstanding[r] = 1
         /\ seg' = res.seg /\ cmd_to_builder(res.cmd)
  <2>1. CASE r \in known /\ outstanding[r] > 0 /\ outstanding[r] = 1
    <3>1. seg' = res.seg /\ cmd_to_builder(res.cmd)
      BY <2>1 DEF SegmentInfoUpdateAck
    <3> HIDE DEF res
    <3> QED
      BY <2>1, <3>1
  <2>2. CASE ~(r \in known /\ outstanding[r] > 0 /\ outstanding[r] = 1)
    <3>1. seg' = seg /\ commands' = commands
      BY <2>2 DEF SegmentInfoUpdateAck
    <3> QED
      BY <3>1
  <2> HIDE DEF res
  <2> QED
    BY <2>1, <2>2
<1>res. res = sync_reader(seg, r)
  OBVIOUS
<1> HIDE DEF res
<1>6. life[r] = "subscribed" =>
        /\ r \in known /\ outstanding[r] = Len(inbox[r]) + acks[r]
        /\ outstanding[r] > 0
  <2>1. life[r] = "subscribed" =>
          r \in joins \cup known /\ outstanding[r] = Len(inbox[r]) + acks[r]
    BY DEF IInv, LifeInv, CountInv
  <2> QED
    BY <1>1, <1>4, <2>1
<1>7. CountInv'
  <2>1. ASSUME life[r] = "subscribed"
        PROVE  outstanding'[r] = Len(inbox[r]) + acks'[r]
    <3>1. outstanding'[r] = outstanding[r] - 1 /\ outstanding[r] = Len(inbox[r]) + acks[r]
      BY Zenon, <1>3, <1>6, <2>1
    <3> QED
      BY <1>1, <1>4, <3>1
  <2> QED
    BY Zenon, <1>1, <1>2, <1>3, <2>1 DEF IInv, CountInv
<1>8. \/ seg' = seg /\ commands' = commands
      \/ /\ OldReaderDone(seg, r, {r}, res) /\ r \in known /\ outstanding[r] = 1
         /\ seg' = res.seg /\ cmd_to_builder(res.cmd)
  <2>1. NoEffect(seg, res) \/ OldReaderDone(seg, r, {r}, res)
    <3>1. seg \in SegmentType /\ EventsOK(seg.state, seg.loaded, seg.events)
      BY DEF TypeOK, IInv
    <3> QED
      BY Zenon, <1>res, <3>1, SyncReader
  <2> QED
    BY <1>5, <2>1 DEF NoEffect, cmd_to_builder
<1>9. CASE seg' = seg /\ commands' = commands
  <2>1. TypeOK'
    BY Zenon, <1>1, <1>2, <1>3, <1>9 DEF TypeOK, dataVars
  <2>2. (TokenInv /\ ReadersInv)'
    BY Zenon, <1>2, <1>9 DEF IInv, TokenInv, ReadersInv
  <2>3. LifeInv'
    BY Zenon, <1>1, <1>2, <1>4, <1>9 DEF IInv, LifeInv
  <2>4. MappingInv'
    <3>1. \A x \in Readers \ {r} : acks'[x] = acks[x]
      BY Zenon, <1>1
    <3>2. acks[r] # 0
      BY <1>1, <1>4
    <3>3. /\ r \in seg.readers => /\ seg.state # "R_VALIDATING" /\ Current(mapped[r])
                                 /\ \A i \in 1..Len(inbox[r]) : Current(inbox[r][i].file)
          /\ r \in seg.old_readers =>
               IF inbox[r] = <<>> THEN Current(mapped[r])
               ELSE Current(inbox[r][Len(inbox[r])].file)
      BY Zenon, <3>2 DEF IInv, MappingInv
    <3>4. seg' = seg /\ inbox' = inbox /\ mapped' = mapped
      BY Zenon, <1>2, <1>9
    <3> QED
      BY ZenonT(30), <3>1, <3>3, <3>4, MappingOfOne
  <2> QED
    BY <1>2, <1>7, <1>9, <2>1, <2>2, <2>3, <2>4 DEF IInv
<1>10. CASE /\ OldReaderDone(seg, r, {r}, res) /\ r \in known /\ outstanding[r] = 1
            /\ seg' = res.seg /\ cmd_to_builder(res.cmd)
  <2>1. inbox[r] = <<>>
    <3>1. CASE life[r] = "subscribed"
      <4>1. Len(inbox[r]) = 0
        BY <1>1, <1>4, <1>6, <1>10, <3>1
      <4> QED
        BY <1>4, <4>1, EmptyLength
    <3>2. CASE life[r] = "gone"
      BY Zenon, <3>2 DEF IInv, LifeInv
    <3> QED
      BY Zenon, <1>4, <3>1, <3>2 DEF TypeOK
  <2>2. Current(mapped[r])
    BY Zenon, <1>10, <2>1 DEF OldReaderDone, IInv, MappingInv
  <2>3. /\ seg' \in SegmentType /\ commands' \in Seq(Command) /\ TokenInv'
        /\ EventsOK(seg'.state, seg'.loaded, seg'.events)
        /\ seg'.writer_ver = 1 - seg'.reader_ver
        /\ ReadersInv' /\ MappingInv' /\ seg'.old_readers \subseteq seg.old_readers
    BY Zenon, <1>2, <1>10, <2>1, <2>2, OldReaderDoneStep
  <2>4. TypeOK'
    BY Zenon, <1>1, <1>2, <1>3, <2>3 DEF TypeOK, dataVars
  <2>5. LifeInv'
    BY Zenon, <1>1, <1>2, <1>4, <2>3 DEF IInv, LifeInv
  <2> QED
    BY Zenon, <1>2, <1>7, <2>3, <2>4, <2>5 DEF IInv
<1> QED
  BY <1>8, <1>9, <1>10

(* memmgr learns that a reader has left. *)
LEMMA ReaderUnsubscribedStep ==
  ASSUME TypeOK, IInv, NEW r \in Readers, ReaderUnsubscribed(r)
  PROVE  TypeOK' /\ IInv'
<1> DEFINE res == remove_reader(seg, r)
<1>1. /\ r \in leaves /\ r \notin joins /\ leaves' = leaves \ {r}
      /\ UNCHANGED <<failed, working, responses, dataVars, life, joins, inbox, acks, mapped>>
  BY DEF ReaderUnsubscribed
<1>2. /\ known' = known \ {r} /\ outstanding' = [outstanding EXCEPT ![r] = 0]
      /\ \/ seg' = seg /\ commands' = commands /\ r \notin known
         \/ seg' = res.seg /\ cmd_to_builder(res.cmd) /\ r \in known
  <2>1. CASE r \notin known
    <3>1. outstanding[r] = 0
      BY Zenon, <2>1 DEF IInv, CountInv
    <3> QED
      BY Zenon, <2>1, <3>1 DEF ReaderUnsubscribed, TypeOK
  <2>2. CASE r \in known
    BY <2>2 DEF ReaderUnsubscribed
  <2> QED
    BY <2>1, <2>2
<1> HIDE DEF res
<1>3. /\ outstanding' \in [Readers -> Nat] /\ outstanding'[r] = 0
      /\ \A x \in Readers \ {r} : outstanding'[x] = outstanding[x]
  BY <1>2 DEF TypeOK
<1>4. life[r] = "gone"
  BY Zenon, <1>1 DEF TypeOK, IInv, LifeInv
<1>5. CountInv'
  BY Zenon, <1>1, <1>2, <1>3, <1>4 DEF IInv, CountInv
<1>6. /\ seg' \in SegmentType /\ commands' \in Seq(Command) /\ TokenInv'
      /\ EventsOK(seg'.state, seg'.loaded, seg'.events)
      /\ seg'.writer_ver = 1 - seg'.reader_ver
      /\ ReadersInv' /\ MappingInv' /\ seg'.old_readers \subseteq seg.old_readers
  <2>1. CASE seg' = seg /\ commands' = commands /\ r \notin known
    <3>1. known' = known
      BY <1>2, <2>1
    <3> QED
      BY Zenon, <1>1, <2>1, <3>1 DEF TypeOK, IInv, TokenInv, ReadersInv, MappingInv, Current
  <2>2. CASE /\ seg' = seg /\ commands' = commands /\ r \in known /\ r \notin seg.readers
             /\ r \in seg.old_readers =>
                  seg.state \notin {"V_SYNCHRONIZING", "SYNCHRONIZING"}
    <3>1. ReadersInv'
      BY Zenon, <1>2, <2>2 DEF IInv, ReadersInv, SyncStates
    <3> QED
      BY Zenon, <1>1, <2>2, <3>1 DEF TypeOK, IInv, TokenInv, MappingInv, Current
  <2>3. CASE /\ seg' = [seg EXCEPT !.readers = @ \ {r}] /\ commands' = commands
             /\ r \in seg.readers
    <3>1. /\ seg' \in SegmentType /\ seg'.state = seg.state
          /\ seg'.loaded = seg.loaded /\ seg'.events = seg.events
          /\ seg'.readers = seg.readers \ {r} /\ seg'.old_readers = seg.old_readers
          /\ seg'.reader_ver = seg.reader_ver /\ seg'.writer_ver = seg.writer_ver
      BY ZenonT(30), <2>3 DEF TypeOK, SegmentType
    <3>2. TokenInv'
      BY <1>1, <2>3, <3>1 DEF IInv, TokenInv
    <3>3. ReadersInv'
      BY <1>2, <2>3, <3>1 DEF IInv, ReadersInv
    <3>4. MappingInv'
      BY Zenon, <1>1, <3>1 DEF IInv, MappingInv, Current
    <3> QED
      BY <2>3, <3>1, <3>2, <3>3, <3>4 DEF TypeOK, IInv
  <2>4. CASE /\ OldReaderDone(seg, r, {}, res) /\ r \in known
             /\ seg' = res.seg /\ cmd_to_builder(res.cmd)
    BY Zenon, <1>1, <1>2, <2>4, OldReaderDoneStep
  <2>5. ASSUME r \in known, seg' = res.seg, cmd_to_builder(res.cmd)
        PROVE  \/ /\ NoEffect(seg, res) /\ r \notin seg.readers
                  /\ r \in seg.old_readers =>
                       seg.state \notin {"V_SYNCHRONIZING", "SYNCHRONIZING"}
               \/ /\ res.cmd = None /\ r \in seg.readers
                  /\ res.seg = [seg EXCEPT !.readers = @ \ {r}]
               \/ OldReaderDone(seg, r, {}, res)
    <3>1. r \notin seg.readers \/ r \notin seg.old_readers
      BY Zenon DEF IInv, ReadersInv
    <3> QED
      BY Zenon, <3>1, RemoveReader DEF TypeOK, IInv, res
  <2> QED
    BY <1>2, <2>1, <2>2, <2>3, <2>4, <2>5 DEF NoEffect, cmd_to_builder
<1>7. TypeOK'
  BY Zenon, <1>1, <1>2, <1>3, <1>6 DEF TypeOK, dataVars
<1>8. LifeInv'
  BY Zenon, <1>1, <1>2, <1>4, <1>6 DEF IInv, LifeInv
<1> QED
  BY Zenon, <1>1, <1>5, <1>6, <1>7, <1>8 DEF IInv

(* memmgr handles the builder's answer and tells the readers. *)
LEMMA NotifyFromBuilderStep ==
  ASSUME TypeOK, IInv, NotifyFromBuilder
  PROVE  TypeOK' /\ IInv'
<1> DEFINE n == Head(responses)
           res == IF n.op = "validate" THEN complete_validate(seg, n.result)
                                       ELSE complete_update(seg, n.result)
           s == res.seg
           m == Update(s)
<1>1. /\ responses # <<>> /\ seg' = s /\ cmd_to_builder(res.cmd)
      /\ failed' = (res.raised \/ ~(s.old_readers \subseteq known))
      /\ IF failed' THEN UNCHANGED <<inbox, outstanding>>
         ELSE notify_readers(s.old_readers, m)
      /\ responses' = Tail(responses)
      /\ UNCHANGED <<known, working, dataVars, life, joins, leaves, acks, mapped>>
  BY Zenon DEF NotifyFromBuilder
<1>2. /\ Len(responses) = 1 /\ responses[1].op = OpOf(seg.state)
      /\ commands = <<>> /\ working = None /\ seg.state \in Busy
  BY Zenon, <1>1 DEF IInv, TokenInv, TypeOK
<1>3. n = responses[1] /\ n \in Response /\ Tail(responses) = <<>>
  BY <1>2, OneElement DEF TypeOK
<1>4. seg.old_readers = {}
  BY Zenon, <1>2 DEF IInv, ReadersInv, Busy, SyncStates
<1>5. Completed(seg, res)
  <2>1. n.result \in BOOLEAN /\ n.op = OpOf(seg.state)
    BY <1>2, <1>3 DEF Response
  <2>2. CASE seg.state \in {"R_VALIDATING", "W_VALIDATING"}
    <3>1. res = complete_validate(seg, n.result)
      BY <2>1, <2>2 DEF OpOf
    <3> HIDE DEF res, n
    <3> QED
      BY Zenon, <1>4, <2>1, <2>2, <3>1, CompleteValidate DEF TypeOK, IInv
  <2>3. CASE seg.state \in {"UPDATING", "COPYING"}
    <3>1. res = complete_update(seg, n.result)
      BY <2>1, <2>3 DEF OpOf
    <3> HIDE DEF res, n
    <3> QED
      BY ZenonT(30), <1>4, <2>1, <2>3, <3>1, CompleteUpdate DEF TypeOK, IInv
  <2> QED
    BY Zenon, <1>2, <2>2, <2>3 DEF Busy
<1> HIDE DEF n, res
<1>6. /\ s \in SegmentType /\ Answer(s, res.cmd) /\ ~res.raised
      /\ s.state # "R_VALIDATING" /\ s.writer_ver = 1 - s.reader_ver
      /\ s.state \notin SyncStates => s.old_readers = {}
      /\ \/ s.readers = {} /\ s.old_readers = seg.readers
         \/ /\ seg.state # "R_VALIDATING"
            /\ s.readers = seg.readers /\ s.old_readers = {}
            /\ s.reader_ver = seg.reader_ver
  BY Zenon, <1>5 DEF Completed, Answer
<1>7. m \in Message /\ m.file \in {None, s.reader_ver}
  BY Zenon, <1>6 DEF SegmentType, Message, Update, get_reset_param_reader, loaded
<1> HIDE DEF s, m
<1>8. s.old_readers \subseteq known /\ s.old_readers \subseteq seg.readers /\ ~failed'
  BY Zenon, <1>1, <1>6 DEF IInv, ReadersInv
<1>9. notify_readers(s.old_readers, m)
  BY Zenon, <1>1, <1>8
<1>10. /\ commands' \in Seq(Command) /\ TokenInv'
  <2>1. Answer(seg', res.cmd) /\ working' = None /\ responses' = <<>>
    BY Zenon, <1>1, <1>2, <1>3, <1>6
  <2> QED
    BY Zenon, <1>1, <1>2, <2>1, CommandGiven
<1>11. /\ inbox' \in [Readers -> Seq(Message)] /\ outstanding' \in [Readers -> Nat]
       /\ \A x \in Readers : x \notin s.old_readers =>
            inbox'[x] = inbox[x] /\ outstanding'[x] = outstanding[x]
       /\ \A x \in s.old_readers : outstanding'[x] = outstanding[x] + 1
       /\ \A x \in s.old_readers :
            IF life[x] = "subscribed"
            THEN /\ inbox'[x] # <<>> /\ Len(inbox'[x]) = Len(inbox[x]) + 1
                 /\ inbox'[x][Len(inbox'[x])] = m
            ELSE inbox'[x] = inbox[x]
  <2>1. s.old_readers \subseteq Readers
    BY Zenon, <1>6 DEF SegmentType
  <2>2. \A x \in Readers : /\ inbox[x] \in Seq(Message) /\ Len(inbox[x]) \in Nat
                           /\ Append(inbox[x], m) \in Seq(Message)
                           /\ Append(inbox[x], m) # <<>>
                           /\ Len(Append(inbox[x], m)) = Len(inbox[x]) + 1
                           /\ Append(inbox[x], m)[Len(inbox[x]) + 1] = m
    <3>1. \A x \in Readers : inbox[x] \in Seq(Message)
      BY Zenon DEF TypeOK
    <3>2. m \in Message
      BY Zenon, <1>7
    <3> QED
      BY <3>1, <3>2, AppendedTo, LengthOf
  <2>3. inbox' \in [Readers -> Seq(Message)]
    BY Zenon, <1>9, <2>2 DEF notify_readers
  <2>4. outstanding' \in [Readers -> Nat]
    BY <1>9 DEF notify_readers, TypeOK
  <2>5. \A x \in Readers :
          /\ inbox'[x] = IF x \in s.old_readers /\ life[x] = "subscribed"
                         THEN Append(inbox[x], m) ELSE inbox[x]
          /\ outstanding'[x] = IF x \in s.old_readers THEN outstanding[x] + 1
                                                      ELSE outstanding[x]
    BY <1>9 DEF notify_readers
  <2> QED
    BY Zenon, <2>1, <2>2, <2>3, <2>4, <2>5
<1>12. TypeOK'
  <2>1. responses' \in Seq(Response)
    BY Zenon, <1>1, <1>3, EmptyLength
  <2> QED
    BY Zenon, <1>1, <1>6, <1>8, <1>10, <1>11, <2>1 DEF TypeOK, dataVars
<1>13. ReadersInv'
  BY Zenon, <1>1, <1>4, <1>6, <1>8 DEF IInv, ReadersInv
<1>14. LifeInv'
  <2>1. \A x \in Readers : x \in joins \/ life[x] \in {"new", "gone"} => inbox'[x] = inbox[x]
    BY Zenon, <1>8, <1>11 DEF IInv, LifeInv
  <2> QED
    BY Zenon, <1>1, <1>8, <2>1 DEF IInv, LifeInv
<1>15. CountInv'
  <2>1. \A x \in Readers : Len(inbox[x]) \in Nat /\ acks[x] \in Nat /\ outstanding[x] \in Nat
    BY LengthOf DEF TypeOK
  <2>2. \A x \in Readers : x \notin known => outstanding'[x] = 0
    BY Zenon, <1>8, <1>11 DEF IInv, CountInv
  <2>3. ASSUME NEW x \in Readers, life[x] = "subscribed"
        PROVE  outstanding'[x] = Len(inbox'[x]) + acks[x]
    <3>1. outstanding[x] = Len(inbox[x]) + acks[x]
      BY <2>3 DEF IInv, CountInv
    <3>2. CASE x \in s.old_readers
      <4>1. /\ Len(inbox'[x]) = Len(inbox[x]) + 1
            /\ outstanding'[x] = outstanding[x] + 1
        BY Zenon, <1>11, <2>3, <3>2
      <4> QED
        BY <2>1, <3>1, <4>1
    <3>3. CASE x \notin s.old_readers
      BY Zenon, <1>11, <3>1, <3>3
    <3> QED
      BY <3>2, <3>3
  <2> QED
    BY Zenon, <1>1, <2>2, <2>3 DEF CountInv
<1>16. MappingInv'
  <2> SUFFICES ASSUME NEW x \in Readers
               PROVE  /\ x \in s.readers =>
                           /\ mapped[x] \in {None, s.reader_ver}
                           /\ \A i \in 1..Len(inbox'[x]) :
                                inbox'[x][i].file \in {None, s.reader_ver}
                      /\ x \in s.old_readers =>
                           IF inbox'[x] = <<>> THEN mapped[x] \in {None, s.reader_ver}
                           ELSE inbox'[x][Len(inbox'[x])].file \in {None, s.reader_ver}
    BY Zenon, <1>1, <1>6 DEF MappingInv, Current
  <2>1. CASE x \in s.readers
    <3>1. /\ x \notin s.old_readers /\ inbox'[x] = inbox[x] /\ x \in seg.readers
          /\ s.reader_ver = seg.reader_ver /\ seg.state # "R_VALIDATING"
      BY Zenon, <1>6, <1>11, <2>1
    <3> QED
      BY Zenon, <3>1 DEF IInv, MappingInv, Current
  <2>2. CASE x \in s.old_readers /\ life[x] = "subscribed"
    <3>1. x \notin s.readers
      BY Zenon, <1>6, <2>2
    <3> QED
      BY Zenon, <1>7, <1>11, <2>2, <3>1
  <2>3. CASE x \in s.old_readers /\ life[x] # "subscribed"
    <3>1. x \notin s.readers /\ life[x] = "gone"
      BY Zenon, <1>6, <1>8, <2>3 DEF TypeOK, IInv, LifeInv
    <3>2. inbox[x] = <<>> /\ mapped[x] = None
      BY Zenon, <3>1 DEF IInv, LifeInv
    <3> QED
      BY Zenon, <1>11, <2>3, <3>1, <3>2
  <2> QED
    BY Zenon, <2>1, <2>2, <2>3
<1> QED
  BY Zenon, <1>1, <1>6, <1>8, <1>10, <1>12, <1>13, <1>14, <1>15, <1>16 DEF IInv, Answer

-----------------------------------------------------------------------------
(* The theorems. *)

(* memmgr starts with the invariant: one validate command is queued, and   *)
(* the validation of the other version and the first load wait.            *)
LEMMA InitIInv ==
  ASSUME Init
  PROVE  TypeOK /\ IInv /\ seg.old_readers = {}
<1>0. PICK rver \in Versions, vknown \in BOOLEAN, old \in SUBSET Readers :
      LET varg(v) == IF vknown THEN v ELSE None
          s0 == start_validate([NewSegment(rver, 1 - rver) EXCEPT !.readers = old])
      IN  /\ seg = add_event(add_event(s0.seg,
                     [op |-> "validate", arg |-> varg(1 - rver)]),
                     [op |-> "load", arg |-> None])
          /\ commands = <<[op |-> "validate", arg |-> varg(rver)]>>
          /\ file \in [Versions -> FileStates]
          /\ known = old
          /\ life = [r \in Readers |-> IF r \in old THEN "subscribed" ELSE "new"]
          /\ mapped \in [Readers -> Versions \cup {None}]
          /\ \A r \in Readers : mapped[r] # None => r \in old
          /\ content = [v \in Versions |-> [z \in Zones |->
               IF file[v] = "complete" THEN OldData ELSE NoData]]
          /\ outstanding = [r \in Readers |-> 0]
          /\ failed = FALSE
          /\ working = None /\ responses = <<>>
          /\ source = [z \in Zones |-> FirstData]
          /\ unnoticed = [z \in Zones |-> 0]
          /\ joins = {} /\ leaves = {}
          /\ inbox = [r \in Readers |-> <<>>] /\ acks = [r \in Readers |-> 0]
  BY ZenonT(30) DEF Init
<1> DEFINE varg(v) == IF vknown THEN v ELSE None
           e1 == [op |-> "validate", arg |-> varg(1 - rver)]
           e2 == [op |-> "load", arg |-> None]
           c  == [op |-> "validate", arg |-> varg(rver)]
<1>1. /\ e1 \in Command /\ e1.op = "validate" /\ e2 \in Command /\ e2.op = "load"
      /\ c \in Command /\ c.op = "validate" /\ 1 - rver \in Versions
  BY DEF Command, Versions
<1>2. commands = <<c>>
  BY <1>0
<1> DEFINE ev == Append(Append(<<>>, e1), e2)
<1>3. seg = [state |-> "R_VALIDATING", readers |-> old, old_readers |-> {},
             events |-> ev, loaded |-> 0, reader_ver |-> rver,
             writer_ver |-> 1 - rver, reader_file_validated |-> FALSE]
  BY Zenon, <1>0 DEF add_event, start_validate, NewSegment, Returns, Raises
<1> HIDE DEF varg, e1, e2, c
<1>4. /\ ev \in Seq(Command) /\ Len(ev) = 2 /\ ev[1] = e1 /\ ev[2] = e2
  <2> DEFINE q == Append(<<>>, e1)
  <2>1. q \in Seq(Command) /\ Len(q) = 1 /\ q[1] = e1
    <3>1. <<>> \in Seq(Command)
      BY EmptyLength
    <3> QED
      BY <1>1, <3>1, FirstElement
  <2> HIDE DEF q
  <2>2. Append(q, e2) \in Seq(Command) /\ Len(Append(q, e2)) = 2
          /\ Append(q, e2)[1] = e1 /\ Append(q, e2)[2] = e2
    BY <1>1, <2>1, SecondElement
  <2> QED
    BY <2>2 DEF q
<1> HIDE DEF ev
<1>5. /\ seg.state = "R_VALIDATING" /\ seg.readers = old /\ seg.old_readers = {}
      /\ seg.events = ev /\ seg.loaded = 0
      /\ seg.reader_ver = rver /\ seg.writer_ver = 1 - rver
  BY Zenon, <1>3
<1>6. TypeOK
  <2>0. "R_VALIDATING" \in States /\ 0 \in 0..LoadedCap
    BY DEF States, LoadedCap
  <2>1. seg \in SegmentType
    BY Zenon, <1>1, <1>3, <1>4, <2>0 DEF SegmentType
  <2>2. commands \in Seq(Command) /\ responses \in Seq(Response)
    BY <1>0, <1>1, <1>2
  <2>3. content \in [Versions -> [Zones -> Nat]] /\ source \in [Zones -> Nat]
    BY <1>0 DEF OldData, NoData, FirstData
  <2>4. inbox \in [Readers -> Seq(Message)]
    BY <1>0, EmptyLength
  <2> QED
    BY Zenon, <1>0, <2>1, <2>2, <2>3, <2>4 DEF TypeOK
<1>7. TokenInv
  BY <1>0, <1>1, <1>2, <1>5 DEF TokenInv, Busy, OpOf
<1>8. EventsOK(seg.state, seg.loaded, seg.events)
  <2>1. \A i \in 1..2 : i = 1 \/ i = 2
    OBVIOUS
  <2>2. \A i \in 1..Len(ev) : ev[i].op = "load" \/ i = 1
    BY <1>1, <1>4, <2>1
  <2>3. EventsOK("R_VALIDATING", 0, ev)
    BY <1>1, <1>4, <2>2 DEF EventsOK
  <2> QED
    BY <1>5, <2>3
<1>9. ReadersInv
  BY Zenon, <1>0, <1>5 DEF ReadersInv
<1>10. LifeInv
  BY Zenon, <1>0, <1>5 DEF LifeInv
<1>11. CountInv
  <2>1. \A r \in Readers : Len(inbox[r]) = 0
    BY <1>0
  <2> QED
    BY <1>0, <2>1 DEF CountInv
<1>12. MappingInv
  BY Zenon, <1>0, <1>5 DEF MappingInv
<1> QED
  BY Zenon, <1>0, <1>5, <1>6, <1>7, <1>8, <1>9, <1>10, <1>11, <1>12 DEF IInv

(* Every step of the two threads, the readers and the data source keeps    *)
(* the invariant.                                                          *)
LEMMA NextIInv ==
  ASSUME TypeOK, IInv, [Next]_vars
  PROVE  TypeOK' /\ IInv'
<1>1. CASE UNCHANGED vars
  BY ZenonT(30), <1>1 DEF TypeOK, IInv, TokenInv, ReadersInv, LifeInv, CountInv,
     MappingInv, Current, vars, memmgrVars, builderVars, dataVars, readerVars
<1>2. CASE MainNext
  BY <1>2, NotifyFromBuilderStep, SegmentInfoUpdateAckStep, ReaderSubscribedStep,
     ReaderUnsubscribedStep, UpdateZoneStep DEF MainNext
<1>3. CASE BuilderNext
  BY <1>3, BuilderValidateStep, BuilderOpenStep, BuilderOpenFailsStep,
     BuilderLoadZoneStep, BuilderCloseStep DEF BuilderNext
<1>4. CASE \E r \in Readers : ReaderNext(r)
  BY <1>4, SubscribeStep, SegmentUpdateStep, UnsubscribeStep DEF ReaderNext
<1>5. CASE \E z \in Zones : SourceChanges(z)
  BY <1>5, SourceChangesStep
<1> QED
  BY <1>1, <1>2, <1>3, <1>4, <1>5 DEF Next

(* The inductive invariant holds in every reachable state. *)
THEOREM Invariance == Spec => [](TypeOK /\ IInv)
<1>1. Init => TypeOK /\ IInv
  BY InitIInv
<1>2. TypeOK /\ IInv /\ [Next]_vars => (TypeOK /\ IInv)'
  BY NextIInv
<1> QED
  BY <1>1, <1>2, PTL DEF Spec

(* Type correctness of the whole protocol state: no method of SegmentInfo, *)
(* no queue and no channel ever holds a value of a wrong kind.             *)
THEOREM TypeCorrect == Spec => []TypeOK
  BY Invariance, PTL

(* The promise of the two-version scheme: for any number of readers and    *)
(* zones, whichever resets and loads fail, and whatever the order of       *)
(* messages, acknowledgements and notices, the builder thread never has a  *)
(* version of the mapped file open for update that a reader has mapped.    *)
THEOREM WriterNeverMapped == Spec => []NoWriteWhileMapped
<1>1. TypeOK /\ IInv => NoWriteWhileMapped
  <2> SUFFICES ASSUME TypeOK, IInv, working # None, NEW r \in Readers
               PROVE  mapped[r] # working.ver
    BY DEF NoWriteWhileMapped
  <2>1. working.ver = seg.writer_ver /\ seg.state \in {"UPDATING", "COPYING"}
    BY DEF IInv, TokenInv
  <2>2. seg.writer_ver # seg.reader_ver /\ seg.writer_ver # None
    BY NoneAssumption DEF NoneAssumption, TypeOK, SegmentType, IInv, Versions
  <2>3. mapped[r] \in {None, seg.reader_ver}
    <3>1. seg.old_readers = {}
      BY Zenon, <2>1 DEF IInv, ReadersInv, SyncStates
    <3>2. CASE r \in known
      BY Zenon, <2>1, <3>1, <3>2 DEF IInv, ReadersInv, MappingInv, Current
    <3>3. CASE r \notin known
      BY Zenon, <3>3 DEF TypeOK, IInv, LifeInv
    <3> QED
      BY <3>2, <3>3
  <2> QED
    BY <2>1, <2>2, <2>3
<1> QED
  BY <1>1, Invariance, PTL

(* _notify_from_builder() never raises: the builder's answers find the     *)
(* segment in a state that accepts them, and the readers to notify are     *)
(* known ones.                                                             *)
THEOREM MainThreadNeverFails == Spec => []NeverFails
<1>1. IInv => NeverFails
  BY DEF IInv, NeverFails
<1> QED
  BY <1>1, Invariance, PTL

(* The main thread waits for the builder exactly when one command or       *)
(* response of the segment is between the two threads.                     *)
THEOREM ExactlyOneCommandInFlight == Spec => []OneCommandInFlight
<1>1. TypeOK /\ IInv => OneCommandInFlight
  <2> SUFFICES ASSUME TypeOK, IInv PROVE OneCommandInFlight
    OBVIOUS
  <2>1. /\ commands = <<>> => Len(commands) = 0
        /\ responses = <<>> => Len(responses) = 0
    OBVIOUS
  <2>2. CASE seg.state \in Busy
    <3>1. InFlight = 1
      <4>1. CASE Len(commands) = 1 /\ working = None /\ responses = <<>>
        BY <2>1, <4>1 DEF InFlight
      <4>2. CASE commands = <<>> /\ responses = <<>> /\ working # None
        BY <2>1, <4>2 DEF InFlight
      <4>3. CASE commands = <<>> /\ working = None /\ Len(responses) = 1
        BY <2>1, <4>3 DEF InFlight
      <4> QED
        BY <2>2, <4>1, <4>2, <4>3 DEF IInv, TokenInv
    <3> QED
      BY <2>2, <3>1 DEF OneCommandInFlight, Busy
  <2>3. CASE seg.state \notin Busy
    BY <2>1, <2>3 DEF IInv, TokenInv, OneCommandInFlight, InFlight, Busy
  <2> QED
    BY <2>2, <2>3
<1> QED
  BY <1>1, Invariance, PTL

(* A reader that is waited for has an update to acknowledge. *)
WaitInv == \A r \in seg.old_readers \cap known : outstanding[r] > 0

(* The step of WaitInv: a completion sends every old reader an update, and *)
(* the last acknowledgement takes a reader out of the old ones.            *)
LEMMA NextWaitInv ==
  ASSUME TypeOK, IInv, WaitInv, [Next]_vars
  PROVE  WaitInv'
<1>1. CASE UNCHANGED memmgrVars
  BY <1>1 DEF WaitInv, memmgrVars
<1>2. ASSUME NEW z \in Zones, UpdateZone(z) PROVE WaitInv'
  <2> DEFINE res == start_update(add_event(seg, [op |-> "load", arg |-> z]))
  <2>1. seg' = res.seg /\ known' = known /\ outstanding' = outstanding
    BY <1>2 DEF UpdateZone
  <2>2. res.seg.old_readers = seg.old_readers
    BY Zenon, AddLoad DEF TypeOK, IInv, LoadAdded
  <2> HIDE DEF res
  <2> QED
    BY <2>1, <2>2 DEF WaitInv
<1>3. ASSUME NEW r \in Readers, ReaderSubscribed(r) PROVE WaitInv'
  <2>1. r \in joins /\ r \notin known /\ r \notin seg.old_readers
    BY Zenon, <1>3 DEF IInv, LifeInv, ReaderSubscribed
  <2>2. seg' = [seg EXCEPT !.readers = @ \cup {r}] \/ seg' = seg
    BY <1>3, <2>1 DEF ReaderSubscribed, add_reader, Returns, Raises
  <2>3. seg'.old_readers = seg.old_readers
    BY <2>2 DEF TypeOK, SegmentType
  <2>4. known' = known \cup {r} /\ \A x \in Readers \ {r} : outstanding'[x] = outstanding[x]
    BY <1>3, <2>1 DEF ReaderSubscribed, notify_readers
  <2> QED
    BY Zenon, <2>1, <2>3, <2>4 DEF WaitInv, TypeOK
<1>4. ASSUME NEW r \in Readers, ReaderUnsubscribed(r) PROVE WaitInv'
  <2> DEFINE res == remove_reader(seg, r)
  <2>1. CASE r \notin known
    BY Zenon, <1>4, <2>1 DEF ReaderUnsubscribed, WaitInv
  <2>2. CASE r \in known
    <3>1. known' = known \ {r} /\ seg' = res.seg
          /\ outstanding' = [outstanding EXCEPT ![r] = 0]
      BY <1>4, <2>2 DEF ReaderUnsubscribed
    <3>2. r \notin seg.readers \/ r \notin seg.old_readers
      BY Zenon DEF IInv, ReadersInv
    <3>3. \/ res.seg = seg
          \/ res.seg = [seg EXCEPT !.readers = @ \ {r}]
          \/ OldReaderDone(seg, r, {}, res)
      BY Zenon, <3>2, RemoveReader DEF TypeOK, IInv, NoEffect
    <3> HIDE DEF res
    <3>4. res.seg.old_readers \subseteq seg.old_readers
      BY Zenon, <3>3 DEF OldReaderDone, TypeOK, SegmentType
    <3> QED
      BY Zenon, <3>1, <3>4 DEF WaitInv, TypeOK
  <2> QED
    BY <2>1, <2>2
<1>5. ASSUME NEW r \in Readers, SegmentInfoUpdateAck(r) PROVE WaitInv'
  <2> DEFINE res == sync_reader(seg, r)
  <2>1. known' = known
    BY <1>5 DEF SegmentInfoUpdateAck
  <2>2. CASE r \in known /\ outstanding[r] = 1
    <3>1. outstanding' = [outstanding EXCEPT ![r] = @ - 1] /\ seg' = res.seg
      BY <1>5, <2>2 DEF SegmentInfoUpdateAck
    <3>2. \/ res.seg = seg /\ (r \notin seg.old_readers \/ r \in seg.readers
                                 \/ seg.state \notin SyncStates)
          \/ OldReaderDone(seg, r, {r}, res)
      BY Zenon, SyncReader DEF TypeOK, IInv, NoEffect
    <3> HIDE DEF res
    <3>3. res.seg.old_readers \subseteq seg.old_readers /\ r \notin res.seg.old_readers
      BY Zenon, <3>2 DEF OldReaderDone, IInv, ReadersInv
    <3> QED
      BY Zenon, <2>1, <3>1, <3>3 DEF WaitInv, TypeOK
  <2>3. CASE r \in known /\ outstanding[r] > 1
    <3>1. outstanding' = [outstanding EXCEPT ![r] = @ - 1] /\ seg' = seg
      BY <1>5, <2>3 DEF SegmentInfoUpdateAck, TypeOK
    <3>2. \A x \in Readers : outstanding[x] > 0 => outstanding'[x] > 0
      <4>1. outstanding[r] \in Nat /\ outstanding'[r] = outstanding[r] - 1
        BY Zenon, <2>1, <3>1 DEF TypeOK
      <4>2. outstanding'[r] > 0
        BY <2>3, <4>1
      <4> QED
        BY Zenon, <3>1, <4>2 DEF TypeOK
    <3> QED
      BY Zenon, <2>1, <3>1, <3>2 DEF WaitInv, TypeOK
  <2>4. CASE ~(r \in known /\ outstanding[r] > 0)
    BY Zenon, <1>5, <2>1, <2>4 DEF SegmentInfoUpdateAck, WaitInv
  <2> QED
    BY <2>2, <2>3, <2>4 DEF TypeOK
<1>6. CASE NotifyFromBuilder
  <2>1. TypeOK' /\ IInv'
    BY <1>6, NotifyFromBuilderStep
  <2>2. outstanding' = [x \in Readers |-> IF x \in seg'.old_readers
                          THEN outstanding[x] + 1 ELSE outstanding[x]]
    <3>1. ~failed'
      BY Zenon, <2>1 DEF IInv
    <3> QED
      BY Zenon, <1>6, <3>1 DEF NotifyFromBuilder, notify_readers
  <2>3. seg'.old_readers \subseteq Readers
    BY Zenon, <2>1 DEF TypeOK, SegmentType
  <2>4. \A x \in seg'.old_readers : outstanding'[x] = outstanding[x] + 1 /\ outstanding[x] \in Nat
    BY Zenon, <2>2, <2>3 DEF TypeOK
  <2> QED
    BY Zenon, <2>4, MoreThanNone DEF WaitInv
<1>7. CASE BuilderNext
  BY Zenon, <1>1, <1>7 DEF BuilderNext, BuilderValidate, BuilderOpen, BuilderOpenFails,
     BuilderLoadZone, BuilderClose
<1>8. CASE \E r \in Readers : ReaderNext(r)
  BY <1>1, <1>8 DEF ReaderNext, Subscribe, SegmentUpdate, Unsubscribe
<1>9. CASE \E z \in Zones : SourceChanges(z)
  BY <1>1, <1>9 DEF SourceChanges
<1> QED
  BY <1>1, <1>2, <1>3, <1>4, <1>5, <1>6, <1>7, <1>8, <1>9
     DEF Next, MainNext, vars

(* The main thread never waits in vain for a reader it knows: either the   *)
(* reader's answer is on its way (and the count of outstanding updates is  *)
(* exact), or the notice that it has left.                                 *)
THEOREM NeverWaitsInVain == Spec => []WaitsForAnswer
<1>1. Init => WaitInv
  BY InitIInv DEF WaitInv
<1>2. TypeOK /\ IInv /\ WaitInv /\ [Next]_vars => WaitInv'
  BY NextWaitInv
<1>3. TypeOK /\ IInv /\ WaitInv => WaitsForAnswer
  <2> SUFFICES ASSUME TypeOK, IInv, WaitInv, NEW r \in seg.old_readers \cap known
               PROVE  \/ /\ life[r] = "subscribed"
                         /\ outstanding[r] = Len(inbox[r]) + acks[r]
                         /\ outstanding[r] > 0
                      \/ life[r] = "gone" /\ r \in leaves
    BY Zenon DEF WaitsForAnswer
  <2>1. r \in Readers /\ r \in known /\ outstanding[r] > 0
    BY Zenon DEF TypeOK, WaitInv
  <2>2. life[r] = "subscribed" \/ life[r] = "gone"
    BY Zenon, <2>1 DEF TypeOK, IInv, LifeInv
  <2>3. life[r] = "subscribed" => outstanding[r] = Len(inbox[r]) + acks[r]
    BY Zenon, <2>1 DEF IInv, CountInv
  <2>4. life[r] = "gone" => r \in leaves
    BY Zenon, <2>1 DEF IInv, LifeInv
  <2> QED
    BY <2>1, <2>2, <2>3, <2>4
<1> QED
  BY <1>1, <1>2, <1>3, Invariance, PTL DEF Spec
=============================================================================
