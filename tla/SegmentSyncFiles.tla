-------------------------- MODULE SegmentSyncFiles --------------------------
(***************************************************************************)
(* The versions and the files of a segment, for any set of readers and     *)
(* zones and any number of changes.  FileInv, which rests on the invariant *)
(* of SegmentSyncProofs, says which files are complete, if the builder can *)
(* always open the file it writes.  At the end is what the methods of      *)
(* SegmentInfo keep of the data that still has to reach the files.         *)
(***************************************************************************)
EXTENDS SegmentSyncProofs

(* The versions and what is known of the reader version are the same. *)
SameVersions(s, t) ==
  /\ t.reader_ver = s.reader_ver /\ t.writer_ver = s.writer_ver
  /\ t.reader_file_validated = s.reader_file_validated

(* Becoming ready leaves the versions alone. *)
LEMMA CheckOnReadyVersions ==
  ASSUME NEW s \in SegmentType
  PROVE  SameVersions(s, check_on_ready(s).seg)
<1> DEFINE t == [s EXCEPT !.state = "READY"]
           u == [t EXCEPT !.state = "UPDATING"]
<1>1. SameVersions(s, t) /\ SameVersions(s, u)
  BY Zenon DEF SegmentType, SameVersions
<1>2. check_on_ready(s).seg = t \/ check_on_ready(s).seg = u
  BY DEF check_on_ready, start_update, Returns
<1> HIDE DEF t, u
<1> QED
  BY <1>1, <1>2, Zenon

(* So does leaving a synchronizing state, *)
LEMMA SyncReaderHelperVersions ==
  ASSUME NEW s \in SegmentType
  PROVE  SameVersions(s, sync_reader_helper(s).seg)
<1> DEFINE t(st) == [s EXCEPT !.state = st, !.events = Tail(@)]
           u(st) == [s EXCEPT !.state = st]
<1>1. \A st \in States : SameVersions(s, t(st)) /\ SameVersions(s, u(st))
  BY Zenon DEF SegmentType, SameVersions
<1>2. \/ sync_reader_helper(s).seg = s
      \/ sync_reader_helper(s).seg = check_on_ready(s).seg
      \/ \E st \in States : sync_reader_helper(s).seg \in {t(st), u(st)}
  BY Zenon DEF sync_reader_helper, Returns, States
<1> HIDE DEF t, u
<1>3. SameVersions(s, s)
  BY DEF SameVersions
<1> QED
  BY <1>1, <1>2, <1>3, CheckOnReadyVersions, Zenon

(* and entering one. *)
LEMMA StartSyncVersions ==
  ASSUME NEW s \in SegmentType, NEW st \in SyncStates
  PROVE  SameVersions(s, start_sync(s, st).seg)
<1> DEFINE t == [s EXCEPT !.state = st, !.old_readers = s.readers, !.readers = {}]
<1>1. t \in SegmentType /\ SameVersions(s, t)
  BY Zenon DEF SegmentType, SyncStates, States, SameVersions
<1>2. start_sync(s, st) = sync_reader_helper(t)
  BY DEF start_sync
<1> HIDE DEF t
<1> QED
  BY <1>1, <1>2, SyncReaderHelperVersions DEF SameVersions

(* complete_validate() learns whether the reader version is usable. *)
LEMMA CompleteValidateVersions ==
  ASSUME NEW s \in SegmentType, s.state \in {"R_VALIDATING", "W_VALIDATING"},
         NEW v \in BOOLEAN, NEW res, res = complete_validate(s, v)
  PROVE  /\ res.seg.reader_ver = s.reader_ver
         /\ res.seg.reader_file_validated =>
              s.reader_file_validated \/ (v /\ s.state = "R_VALIDATING")
<1>1. CASE s.state = "R_VALIDATING"
  <2> DEFINE t == [s EXCEPT !.reader_file_validated = v \/ @]
  <2>1. /\ t \in SegmentType /\ t.reader_ver = s.reader_ver
        /\ t.reader_file_validated = (v \/ s.reader_file_validated)
    BY Zenon DEF SegmentType
  <2>2. res = start_sync(t, "V_SYNCHRONIZING") /\ "V_SYNCHRONIZING" \in SyncStates
    BY <1>1 DEF complete_validate, SyncStates
  <2> HIDE DEF t
  <2> QED
    BY <1>1, <2>1, <2>2, StartSyncVersions DEF SameVersions
<1>2. CASE s.state = "W_VALIDATING"
  <2> DEFINE u == [s EXCEPT !.state = "UPDATING"]
  <2>1. SameVersions(s, u) /\ SameVersions(s, s)
    BY Zenon DEF SegmentType, SameVersions
  <2>2. res.seg = u \/ res.seg = s
    BY <1>2 DEF complete_validate, Returns, Raises
  <2> HIDE DEF u
  <2> QED
    BY <2>1, <2>2 DEF SameVersions
<1> QED
  BY <1>1, <1>2

(* complete_update() switches the versions after an update of the writer   *)
(* version, and leaves them alone otherwise.                               *)
LEMMA CompleteUpdateVersions ==
  ASSUME NEW s \in SegmentType, NEW v \in BOOLEAN,
         NEW res, res = complete_update(s, v)
  PROVE  \/ SameVersions(s, res.seg)
         \/ s.state = "UPDATING" /\ res.seg.reader_ver = 1 - s.reader_ver
<1> DEFINE n == IF s.loaded < LoadedCap THEN s.loaded + 1 ELSE s.loaded
           t == [s EXCEPT !.loaded = n]
<1>0. n \in 0..LoadedCap
  BY DEF SegmentType, LoadedCap
<1>1. t \in SegmentType /\ SameVersions(s, t) /\ SameVersions(t, t) /\ t.state = s.state
  BY Zenon, <1>0 DEF SegmentType, SameVersions
<1>2. \/ s.state = "UPDATING" /\ res = start_sync(switch_versions(t), "SYNCHRONIZING")
      \/ t.events # <<>> /\ res = check_on_ready([t EXCEPT !.events = Tail(@)])
      \/ res = start_sync(t, "SYNCHRONIZING2")
      \/ res = check_on_ready(t)
      \/ res.seg = t
  BY DEF complete_update, Raises
<1> HIDE DEF t
<1>3. CASE s.state = "UPDATING" /\ res = start_sync(switch_versions(t), "SYNCHRONIZING")
  <2> DEFINE u == switch_versions(t)
  <2>0. 1 - t.reader_ver \in Versions /\ 1 - t.writer_ver \in Versions
    BY <1>1 DEF SegmentType, Versions
  <2>1. u \in SegmentType /\ u.reader_ver = 1 - t.reader_ver
    BY Zenon, <1>1, <2>0 DEF switch_versions, SegmentType
  <2>2. res = start_sync(u, "SYNCHRONIZING") /\ "SYNCHRONIZING" \in SyncStates
    BY <1>3 DEF SyncStates
  <2> HIDE DEF u
  <2> QED
    BY <1>1, <1>3, <2>1, <2>2, StartSyncVersions DEF SameVersions
<1>4. CASE t.events # <<>> /\ res = check_on_ready([t EXCEPT !.events = Tail(@)])
  <2> DEFINE u == [t EXCEPT !.events = Tail(@)]
  <2>0. Tail(t.events) \in Seq(Command)
    BY <1>1, <1>4 DEF SegmentType
  <2>1. u \in SegmentType /\ SameVersions(t, u)
    BY Zenon, <1>1, <2>0 DEF SegmentType, SameVersions
  <2>2. res = check_on_ready(u)
    BY <1>4
  <2> HIDE DEF u
  <2> QED
    BY <1>1, <2>1, <2>2, CheckOnReadyVersions DEF SameVersions
<1>5. CASE res = start_sync(t, "SYNCHRONIZING2")
  <2>1. "SYNCHRONIZING2" \in SyncStates
    BY DEF SyncStates
  <2> QED
    BY <1>1, <1>5, <2>1, StartSyncVersions DEF SameVersions
<1>6. CASE res = check_on_ready(t)
  BY <1>1, <1>6, CheckOnReadyVersions DEF SameVersions
<1> QED
  BY <1>1, <1>2, <1>3, <1>4, <1>5, <1>6

(* sync_reader() and remove_reader() leave the versions alone, *)
LEMMA SyncReaderVersions ==
  ASSUME NEW s \in SegmentType, NEW r \in Readers
  PROVE  /\ SameVersions(s, sync_reader(s, r).seg)
         /\ SameVersions(s, remove_reader(s, r).seg)
<1> DEFINE t == [s EXCEPT !.old_readers = @ \ {r}, !.readers = @ \cup {r}]
           u == [s EXCEPT !.old_readers = @ \ {r}]
           w == [s EXCEPT !.readers = @ \ {r}]
<1>1. /\ t \in SegmentType /\ u \in SegmentType
      /\ SameVersions(s, t) /\ SameVersions(s, u) /\ SameVersions(s, w)
      /\ SameVersions(s, s)
  BY Zenon DEF SegmentType, SameVersions
<1>2. /\ \/ sync_reader(s, r).seg = s
         \/ sync_reader(s, r) = sync_reader_helper(t)
      /\ \/ remove_reader(s, r).seg \in {s, w}
         \/ remove_reader(s, r) = sync_reader_helper(u)
  BY DEF sync_reader, remove_reader, Returns, Raises
<1> HIDE DEF t, u, w
<1> QED
  BY <1>1, <1>2, SyncReaderHelperVersions DEF SameVersions

(* and so do add_event() and start_update(). *)
LEMMA AddLoadVersions ==
  ASSUME NEW s \in SegmentType, NEW e
  PROVE  SameVersions(s, start_update(add_event(s, e)).seg)
<1> DEFINE t == add_event(s, e)
           u == [t EXCEPT !.state = "UPDATING"]
<1>1. SameVersions(s, t) /\ SameVersions(s, u)
  BY Zenon DEF SegmentType, SameVersions, add_event
<1>2. start_update(t).seg \in {t, u}
  BY DEF start_update, Returns
<1> HIDE DEF t, u
<1> QED
  BY <1>1, <1>2 DEF t

-----------------------------------------------------------------------------
(* Which files are complete. *)

Complete(f) == f # None => file[f] = "complete"

(* What is validated, or going to be reported as validated or loaded, is   *)
(* complete; so is what a reader has mapped or is told to map.             *)
FileInv ==
  /\ seg.reader_file_validated => file[seg.reader_ver] = "complete"
  /\ seg.state = "R_VALIDATING" =>
       /\ \A i \in 1..Len(commands) :
            commands[i].arg # None => file[seg.reader_ver] = "complete"
       /\ \A i \in 1..Len(responses) :
            responses[i].result => file[seg.reader_ver] = "complete"
  /\ seg.state \in {"UPDATING", "COPYING"} /\ responses # <<>> =>
       file[seg.writer_ver] = "complete"
  /\ \A r \in Readers :
       Complete(mapped[r]) /\ \A i \in 1..Len(inbox[r]) : Complete(inbox[r][i].file)

(* No reader has the version that the builder may write mapped, nor is it  *)
(* told to map it.                                                         *)
LEMMA WriterVersionUnused ==
  ASSUME TypeOK, IInv, seg.state \in {"UPDATING", "COPYING"}, NEW r \in Readers
  PROVE  /\ Current(mapped[r])
         /\ \A i \in 1..Len(inbox[r]) : Current(inbox[r][i].file)
         /\ seg.writer_ver # seg.reader_ver /\ seg.writer_ver # None
<1>1. seg.old_readers = {}
  BY DEF IInv, ReadersInv, SyncStates
<1>2. seg.writer_ver # seg.reader_ver /\ seg.writer_ver # None
  BY NoneAssumption DEF NoneAssumption, TypeOK, SegmentType, IInv, Versions
<1>3. CASE r \in known
  BY <1>1, <1>2, <1>3 DEF IInv, ReadersInv, MappingInv
<1>4. CASE r \notin known
  <2>1. mapped[r] = None /\ inbox[r] = <<>>
    BY <1>4 DEF TypeOK, IInv, LifeInv
  <2> QED
    BY <1>2, <2>1 DEF Current
<1> QED
  BY <1>3, <1>4

(* The builder's steps: only the writer version changes, and it is         *)
(* complete when its load is reported.                                     *)
LEMMA BuilderFiles ==
  ASSUME ~ResetMayFail, TypeOK, IInv, FileInv, BuilderNext
  PROVE  FileInv'
<1>0. TypeOK' /\ IInv'
  BY BuilderValidateStep, BuilderOpenStep, BuilderOpenFailsStep,
     BuilderLoadZoneStep, BuilderCloseStep DEF BuilderNext
<1>1. CASE BuilderValidate
  <2> USE DEF BuilderValidate, BuilderIdle, memmgrVars, dataVars, readerVars
  <2> DEFINE x == [op |-> "validate",
                   result |-> IF Head(commands).arg = None THEN FALSE
                              ELSE file[Head(commands).arg] # "absent"]
  <2>1. /\ Len(commands) = 1 /\ Head(commands) = commands[1]
        /\ responses = <<>> /\ seg.state \in {"R_VALIDATING", "W_VALIDATING"}
        /\ Tail(commands) = <<>>
    <3>1. Len(commands) = 1 /\ seg.state \in Busy
      BY <1>1 DEF IInv, TokenInv, TypeOK
    <3>2. Head(commands) = commands[1] /\ Tail(commands) = <<>>
      BY <3>1, OneElement DEF TypeOK
    <3> QED
      BY <1>1, <3>1, <3>2 DEF IInv, TokenInv, Busy, OpOf
  <2>2. responses' = Append(responses, x) /\ commands' = Tail(commands)
    BY <1>1
  <2>3. x.result => commands[1].arg # None
    BY <2>1
  <2>4. x \in Response
    BY Zenon DEF Response
  <2> HIDE DEF x
  <2>5. Len(responses') = 1 /\ responses'[1] = x /\ Len(commands') = 0
    BY <2>1, <2>2, <2>4, FirstElement DEF TypeOK
  <2>6. UNCHANGED <<seg, file, mapped, inbox>>
    BY <1>1
  <2> HIDE DEF BuilderValidate
  <2>7. seg.state = "R_VALIDATING" =>
          \A i \in 1..Len(responses') :
            responses'[i].result => file[seg.reader_ver] = "complete"
    BY <2>1, <2>3, <2>5 DEF FileInv
  <2> QED
    BY <2>1, <2>5, <2>6, <2>7 DEF FileInv, Complete
<1>2. CASE BuilderOpen
  <2> USE DEF BuilderOpen, BuilderIdle, memmgrVars, readerVars
  <2>1. /\ seg' = seg /\ mapped' = mapped /\ inbox' = inbox /\ responses' = responses
        /\ file' = [file EXCEPT ![seg.writer_ver] = "partial"]
    BY <1>2 DEF get_reset_param_writer
  <2>2. /\ seg.state \in {"UPDATING", "COPYING"} /\ responses = <<>>
    <3>1. Len(commands) = 1 /\ seg.state \in Busy
      BY <1>2 DEF IInv, TokenInv, TypeOK
    <3>2. Head(commands) = commands[1]
      BY <3>1, OneElement DEF TypeOK
    <3> QED
      BY <1>2, <3>1, <3>2 DEF IInv, TokenInv, Busy, OpOf
  <2> HIDE DEF BuilderOpen
  <2>3. /\ file'[seg.reader_ver] = file[seg.reader_ver]
        /\ \A f : Current(f) /\ Complete(f) => Complete(f)'
    BY <2>1, NoneAssumption DEF TypeOK, IInv, SegmentType, Versions, Current, Complete
  <2>4. ASSUME NEW r \in Readers
        PROVE  /\ Complete(mapped[r])'
               /\ \A i \in 1..Len(inbox[r]) : Complete(inbox[r][i].file)'
    <3>1. /\ Complete(mapped[r]) /\ \A i \in 1..Len(inbox[r]) : Complete(inbox[r][i].file)
      BY DEF FileInv
    <3> QED
      BY <2>1, <2>2, <2>3, <3>1, WriterVersionUnused
  <2> QED
    BY <2>1, <2>2, <2>3, <2>4 DEF FileInv
<1>3. CASE \E z \in Zones : BuilderLoadZone(z)
  BY <1>3 DEF BuilderLoadZone, memmgrVars, readerVars, FileInv, Complete
<1>4. CASE BuilderClose
  <2>1. /\ seg' = seg /\ mapped' = mapped /\ inbox' = inbox
        /\ commands' = commands /\ commands = <<>>
        /\ seg.state \in {"UPDATING", "COPYING"} /\ working.ver = seg.writer_ver
        /\ file' = [file EXCEPT ![seg.writer_ver] = "complete"]
    BY Zenon, <1>4 DEF BuilderClose, memmgrVars, readerVars, IInv, TokenInv
  <2>2. /\ file'[seg.writer_ver] = "complete"
        /\ \A v \in Versions : file[v] = "complete" => file'[v] = "complete"
    BY <2>1 DEF TypeOK, SegmentType
  <2>3. \A r \in Readers : /\ mapped[r] \in Versions \cup {None}
                           /\ \A i \in 1..Len(inbox[r]) :
                                inbox[r][i].file \in Versions \cup {None}
    <3>1. \A r \in Readers : inbox[r] \in Seq(Message)
      BY DEF TypeOK
    <3>2. \A r \in Readers : \A i \in 1..Len(inbox[r]) : inbox[r][i] \in Message
      BY <3>1
    <3> QED
      BY <3>2 DEF TypeOK, Message
  <2>4. seg.reader_ver \in Versions
    BY DEF TypeOK, SegmentType
  <2> QED
    BY <2>1, <2>2, <2>3, <2>4 DEF FileInv, Complete
<1> QED
  BY <1>1, <1>2, <1>3, <1>4 DEF BuilderNext, BuilderOpenFails

(* The readers' steps: what is mapped was named by a message. *)
LEMMA ReaderFiles ==
  ASSUME TypeOK, IInv, FileInv, NEW r \in Readers, ReaderNext(r)
  PROVE  FileInv'
<1>1. CASE Subscribe(r)
  BY <1>1 DEF Subscribe, memmgrVars, builderVars, dataVars, FileInv, Complete
<1>2. CASE SegmentUpdate(r)
  <2> DEFINE q == inbox[r]
  <2>1. /\ q \in Seq(Message) /\ q # <<>> /\ Head(q) = q[1]
        /\ Len(Tail(q)) = Len(q) - 1 /\ Len(q) \in Nat \ {0}
        /\ \A i \in 1..Len(Tail(q)) : Tail(q)[i] = q[i + 1]
    <3>1. q \in Seq(Message) /\ q # <<>>
      BY <1>2 DEF TypeOK, SegmentUpdate
    <3> HIDE DEF q
    <3> QED
      BY <3>1, HeadAndTail, EmptyLength
  <2>2. /\ mapped'[r] \in {mapped[r], q[1].file} /\ inbox'[r] = Tail(q)
        /\ \A x \in Readers \ {r} : mapped'[x] = mapped[x] /\ inbox'[x] = inbox[x]
        /\ UNCHANGED <<seg, commands, responses, file>>
    BY <1>2, <2>1 DEF SegmentUpdate, memmgrVars, builderVars, dataVars, TypeOK
  <2>3. \A i \in 1..Len(q) : Complete(q[i].file)
    BY DEF FileInv
  <2>4. Complete(mapped'[r]) /\ \A i \in 1..Len(Tail(q)) : Complete(Tail(q)[i].file)
    <3>1. Complete(mapped[r])
      BY DEF FileInv
    <3> QED
      BY <2>1, <2>2, <2>3, <3>1
  <2> HIDE DEF q
  <2>5. \A x \in Readers : /\ Complete(mapped'[x])
                           /\ \A i \in 1..Len(inbox'[x]) : Complete(inbox'[x][i].file)
    BY Zenon, <2>2, <2>4 DEF FileInv
  <2> QED
    BY <2>2, <2>5 DEF FileInv, Complete
<1>3. CASE Unsubscribe(r)
  <2>1. /\ mapped'[r] = None /\ inbox'[r] = <<>>
        /\ \A x \in Readers \ {r} : mapped'[x] = mapped[x] /\ inbox'[x] = inbox[x]
        /\ UNCHANGED <<seg, commands, responses, file>>
    BY <1>3 DEF Unsubscribe, memmgrVars, builderVars, dataVars, TypeOK
  <2> QED
    BY <2>1 DEF FileInv, Complete
<1> QED
  BY <1>1, <1>2, <1>3 DEF ReaderNext

(* The handlers that send nothing keep the versions, and either leave the  *)
(* builder alone or give it a command it did not have.                     *)
LEMMA SilentHandlers ==
  ASSUME TypeOK, IInv,
         \/ \E z \in Zones : UpdateZone(z)
         \/ \E r \in Readers : SegmentInfoUpdateAck(r) \/ ReaderUnsubscribed(r)
  PROVE  /\ SameVersions(seg, seg')
         /\ UNCHANGED <<responses, working, file, content, source, mapped, inbox>>
         /\ \/ seg'.state = seg.state /\ commands' = commands
            \/ seg.state \notin Busy /\ seg'.state # "R_VALIDATING"
<1>1. ASSUME NEW z \in Zones, UpdateZone(z)
      PROVE  /\ SameVersions(seg, seg')
             /\ UNCHANGED <<responses, working, file, content, source, mapped, inbox>>
             /\ \/ seg'.state = seg.state /\ commands' = commands
                \/ seg.state \notin Busy /\ seg'.state # "R_VALIDATING"
  <2> DEFINE res == start_update(add_event(seg, [op |-> "load", arg |-> z]))
  <2>1. /\ seg' = res.seg /\ cmd_to_builder(res.cmd)
        /\ UNCHANGED <<responses, working, file, content, source, mapped, inbox>>
    BY <1>1 DEF UpdateZone, readerVars
  <2>2. /\ SameVersions(seg, res.seg)
        /\ \/ res.seg.state = seg.state /\ res.cmd = None
           \/ seg.state = "READY" /\ res.seg.state = "UPDATING"
    <3>1. seg \in SegmentType /\ EventsOK(seg.state, seg.loaded, seg.events)
      BY DEF TypeOK, IInv
    <3>2. LoadAdded(seg, res)
      BY Zenon, <3>1, AddLoad
    <3>3. SameVersions(seg, res.seg)
      BY Zenon, <3>1, AddLoadVersions
    <3> QED
      BY Zenon, <3>2, <3>3 DEF LoadAdded
  <2> HIDE DEF res
  <2> QED
    BY <2>1, <2>2 DEF cmd_to_builder, Busy
<1>2. ASSUME NEW r \in Readers, SegmentInfoUpdateAck(r)
      PROVE  /\ SameVersions(seg, seg')
             /\ UNCHANGED <<responses, working, file, content, source, mapped, inbox>>
             /\ \/ seg'.state = seg.state /\ commands' = commands
                \/ seg.state \notin Busy /\ seg'.state # "R_VALIDATING"
  <2> DEFINE res == sync_reader(seg, r)
  <2>1. UNCHANGED <<responses, working, file, content, source, mapped, inbox>>
    BY <1>2 DEF SegmentInfoUpdateAck, dataVars
  <2>2. \/ seg' = seg /\ commands' = commands
        \/ seg' = res.seg /\ cmd_to_builder(res.cmd)
    BY <1>2 DEF SegmentInfoUpdateAck
  <2>3. /\ SameVersions(seg, res.seg) /\ SameVersions(seg, seg)
        /\ NoEffect(seg, res) \/ OldReaderDone(seg, r, {r}, res)
    BY Zenon, SyncReader, SyncReaderVersions DEF TypeOK, IInv, SameVersions
  <2> HIDE DEF res
  <2> QED
    BY <2>1, <2>2, <2>3 DEF NoEffect, OldReaderDone, cmd_to_builder, Busy, SyncStates
<1>3. ASSUME NEW r \in Readers, ReaderUnsubscribed(r)
      PROVE  /\ SameVersions(seg, seg')
             /\ UNCHANGED <<responses, working, file, content, source, mapped, inbox>>
             /\ \/ seg'.state = seg.state /\ commands' = commands
                \/ seg.state \notin Busy /\ seg'.state # "R_VALIDATING"
  <2> DEFINE res == remove_reader(seg, r)
             t == [seg EXCEPT !.readers = @ \ {r}]
  <2>1. UNCHANGED <<responses, working, file, content, source, mapped, inbox>>
    BY <1>3 DEF ReaderUnsubscribed, dataVars
  <2>2. \/ seg' = seg /\ commands' = commands
        \/ seg' = res.seg /\ cmd_to_builder(res.cmd)
    BY <1>3 DEF ReaderUnsubscribed
  <2>3. /\ SameVersions(seg, res.seg) /\ SameVersions(seg, seg)
        /\ \/ NoEffect(seg, res)
           \/ res.cmd = None /\ res.seg = t
           \/ OldReaderDone(seg, r, {}, res)
    <3>1. r \notin seg.readers \/ r \notin seg.old_readers
      BY DEF IInv, ReadersInv
    <3> QED
      BY Zenon, <3>1, RemoveReader, SyncReaderVersions DEF TypeOK, IInv, SameVersions
  <2>4. t.state = seg.state
    BY DEF TypeOK, SegmentType
  <2> HIDE DEF res, t
  <2> QED
    BY Zenon, <2>1, <2>2, <2>3, <2>4 DEF NoEffect, OldReaderDone, cmd_to_builder, Busy, SyncStates
<1> QED
  BY <1>1, <1>2, <1>3

(* What the readers are told is complete, whatever the builder has         *)
(* answered: a version becomes the readers' one after it has been loaded.  *)
LEMMA MainFiles ==
  ASSUME TypeOK, IInv, FileInv, MainNext
  PROVE  FileInv'
<1>1. CASE \/ \E z \in Zones : UpdateZone(z)
           \/ \E r \in Readers : SegmentInfoUpdateAck(r) \/ ReaderUnsubscribed(r)
  <2>1. /\ SameVersions(seg, seg')
        /\ UNCHANGED <<responses, file, mapped, inbox>>
        /\ \/ seg'.state = seg.state /\ commands' = commands
           \/ seg.state \notin Busy /\ seg'.state # "R_VALIDATING"
    BY <1>1, SilentHandlers
  <2>2. seg.state \notin Busy => responses = <<>>
    BY DEF IInv, TokenInv
  <2> QED
    BY <2>1, <2>2 DEF FileInv, Complete, SameVersions
<1>2. ASSUME NEW r \in Readers, ReaderSubscribed(r) PROVE FileInv'
  <2> DEFINE m == Update(seg)
  <2>1. r \in joins /\ r \notin known /\ r \notin seg.readers /\ inbox[r] = <<>>
    BY <1>2 DEF IInv, LifeInv, ReadersInv, ReaderSubscribed
  <2>2. /\ seg' = [seg EXCEPT !.readers = @ \cup {r}]
        /\ UNCHANGED <<commands, responses, file, mapped>>
        /\ \/ notify_readers({r}, m)
           \/ inbox' = inbox
    BY <1>2, <2>1 DEF ReaderSubscribed, add_reader, Returns, Raises, builderVars, dataVars
  <2>3. SameVersions(seg, seg') /\ seg'.state = seg.state
    BY <2>2 DEF TypeOK, SegmentType, SameVersions
  <2>4. m \in Message /\ Complete(m.file)
    BY Zenon DEF TypeOK, SegmentType, Message, Update, get_reset_param_reader, loaded,
       Complete, FileInv
  <2> HIDE DEF m
  <2>5. ASSUME NEW x \in Readers, NEW i \in 1..Len(inbox'[x])
        PROVE  Complete(inbox'[x][i].file)
    <3>1. CASE inbox'[x] = inbox[x]
      BY Zenon, <2>5, <3>1 DEF FileInv
    <3>2. CASE x = r /\ inbox'[x] = Append(inbox[x], m)
      <4>1. Len(inbox'[x]) = 1 /\ inbox'[x][1] = m
        BY <2>1, <2>4, <3>2, FirstElement DEF TypeOK
      <4> QED
        BY <2>4, <2>5, <4>1
    <3> QED
      BY <2>2, <3>1, <3>2 DEF notify_readers
  <2> QED
    BY <2>2, <2>3, <2>5 DEF FileInv, Complete, SameVersions
<1>3. CASE NotifyFromBuilder
  <2>0. TypeOK' /\ IInv'
    BY <1>3, NotifyFromBuilderStep
  <2> DEFINE n == Head(responses)
             m == Update(seg')
  <2>1. /\ responses # <<>> /\ responses' = Tail(responses)
        /\ IF n.op = "validate" THEN seg' = complete_validate(seg, n.result).seg
                                ELSE seg' = complete_update(seg, n.result).seg
        /\ UNCHANGED <<file, mapped>>
    BY Zenon, <1>3 DEF NotifyFromBuilder, dataVars
  <2>2. notify_readers(seg'.old_readers, m)
    <3>1. ~failed'
      BY <2>0 DEF IInv
    <3> QED
      BY Zenon, <1>3, <3>1 DEF NotifyFromBuilder
  <2>3. /\ Len(responses) = 1 /\ responses[1].op = OpOf(seg.state)
        /\ seg.state \in Busy
    BY Zenon, <2>1 DEF IInv, TokenInv, TypeOK
  <2>4. n = responses[1] /\ n \in Response /\ responses' = <<>>
    BY <2>1, <2>3, OneElement DEF TypeOK
  <2> HIDE DEF n
  <2>5. seg'.state # "R_VALIDATING" /\ seg'.reader_file_validated =>
          file[seg'.reader_ver] = "complete"
    <3>1. n.result \in BOOLEAN /\ n.op = OpOf(seg.state) /\ seg \in SegmentType
      BY <2>3, <2>4 DEF Response, TypeOK
    <3>2. CASE seg.state \in {"R_VALIDATING", "W_VALIDATING"}
      <4>1. seg' = complete_validate(seg, n.result).seg
        BY <2>1, <3>1, <3>2 DEF OpOf
      <4>2. /\ seg'.reader_ver = seg.reader_ver
            /\ seg'.reader_file_validated =>
                 seg.reader_file_validated \/ (n.result /\ seg.state = "R_VALIDATING")
        BY <3>1, <3>2, <4>1, CompleteValidateVersions
      <4> QED
        BY <2>3, <2>4, <4>2 DEF FileInv
    <3>3. CASE seg.state \in {"UPDATING", "COPYING"}
      <4>1. seg' = complete_update(seg, n.result).seg
        BY <2>1, <3>1, <3>3 DEF OpOf
      <4>2. \/ SameVersions(seg, seg')
            \/ seg'.reader_ver = 1 - seg.reader_ver
        BY <3>1, <4>1, CompleteUpdateVersions
      <4>3. file[seg.writer_ver] = "complete" /\ seg.writer_ver = 1 - seg.reader_ver
        BY <2>1, <3>3 DEF FileInv, IInv
      <4> QED
        BY Zenon, <4>2, <4>3 DEF FileInv, SameVersions
    <3> QED
      BY <2>3, <3>2, <3>3 DEF Busy
  <2>6. seg'.state # "R_VALIDATING"
    <3>1. PICK res : /\ seg' = res.seg
                     /\ res = IF n.op = "validate" THEN complete_validate(seg, n.result)
                                                   ELSE complete_update(seg, n.result)
      BY <2>1
    <3>2. n.result \in BOOLEAN /\ n.op = OpOf(seg.state) /\ seg.old_readers = {}
      BY <2>3, <2>4 DEF Response, IInv, ReadersInv, Busy, SyncStates
    <3>3. Completed(seg, res)
      <4>1. CASE seg.state \in {"R_VALIDATING", "W_VALIDATING"}
        <5>1. res = complete_validate(seg, n.result)
          BY <3>1, <3>2, <4>1 DEF OpOf
        <5> QED
          BY Zenon, <3>2, <4>1, <5>1, CompleteValidate DEF TypeOK, IInv
      <4>2. CASE seg.state \in {"UPDATING", "COPYING"}
        <5>1. res = complete_update(seg, n.result)
          BY <3>1, <3>2, <4>2 DEF OpOf
        <5> QED
          BY ZenonT(30), <3>2, <4>2, <5>1, CompleteUpdate DEF TypeOK, IInv
      <4> QED
        BY <2>3, <4>1, <4>2 DEF Busy
    <3> QED
      BY Zenon, <3>1, <3>3 DEF Completed
  <2>7. m \in Message /\ Complete(m.file)
    BY Zenon, <2>0, <2>5, <2>6 DEF TypeOK, SegmentType, Message, Update,
       get_reset_param_reader, loaded, Complete
  <2> HIDE DEF m
  <2>8. ASSUME NEW x \in Readers, NEW i \in 1..Len(inbox'[x])
        PROVE  Complete(inbox'[x][i].file)
    <3>1. CASE inbox'[x] = inbox[x]
      BY Zenon, <2>8, <3>1 DEF FileInv
    <3>2. CASE inbox'[x] = Append(inbox[x], m)
      <4>1. inbox[x] \in Seq(Message)
        BY DEF TypeOK
      <4>2. inbox'[x][i] = m \/ (i \in 1..Len(inbox[x]) /\ inbox'[x][i] = inbox[x][i])
        BY <2>7, <2>8, <3>2, <4>1
      <4> QED
        BY <2>7, <4>2 DEF FileInv
    <3> QED
      BY Zenon, <2>2, <3>1, <3>2 DEF notify_readers
  <2> QED
    BY Zenon, <2>1, <2>4, <2>5, <2>6, <2>8 DEF FileInv, Complete
<1> QED
  BY <1>1, <1>2, <1>3 DEF MainNext

(* The state memmgr starts in: what an earlier life left behind, with the  *)
(* facts about it that the two invariants need.                            *)
LEMMA InitData ==
  ASSUME Init
  PROVE  \E rver \in Versions, vknown \in BOOLEAN :
           /\ seg.state = "R_VALIDATING" /\ ~seg.reader_file_validated
           /\ seg.reader_ver = rver /\ seg.old_readers = {}
           /\ Len(seg.events) = 2 /\ seg.events[2] = [op |-> "load", arg |-> None]
           /\ commands = <<[op |-> "validate", arg |-> IF vknown THEN rver ELSE None]>>
           /\ vknown => file[rver] = "complete"
           /\ \A r \in Readers : mapped[r] # None => file[mapped[r]] = "complete"
           /\ content = [v \in Versions |-> [z \in Zones |->
                IF file[v] = "complete" THEN OldData ELSE NoData]]
           /\ working = None /\ responses = <<>>
           /\ source = [z \in Zones |-> FirstData]
           /\ inbox = [r \in Readers |-> <<>>]
<1>0. PICK rver \in Versions, vknown \in BOOLEAN, old \in SUBSET Readers :
      LET varg(v) == IF vknown THEN v ELSE None
          s0 == start_validate([NewSegment(rver, 1 - rver) EXCEPT !.readers = old])
      IN  /\ seg = add_event(add_event(s0.seg,
                     [op |-> "validate", arg |-> varg(1 - rver)]),
                     [op |-> "load", arg |-> None])
          /\ commands = <<[op |-> "validate", arg |-> varg(rver)]>>
          /\ vknown => file[rver] = "complete"
          /\ \A r \in Readers : mapped[r] # None => file[mapped[r]] = "complete"
          /\ content = [v \in Versions |-> [z \in Zones |->
               IF file[v] = "complete" THEN OldData ELSE NoData]]
          /\ working = None /\ responses = <<>>
          /\ source = [z \in Zones |-> FirstData]
          /\ inbox = [r \in Readers |-> <<>>]
  BY ZenonT(30) DEF Init
<1> DEFINE e1 == [op |-> "validate", arg |-> IF vknown THEN 1 - rver ELSE None]
           e2 == [op |-> "load", arg |-> None]
           ev == Append(Append(<<>>, e1), e2)
<1>1. seg = [state |-> "R_VALIDATING", readers |-> old, old_readers |-> {},
             events |-> ev, loaded |-> 0, reader_ver |-> rver,
             writer_ver |-> 1 - rver, reader_file_validated |-> FALSE]
  BY Zenon, <1>0 DEF add_event, start_validate, NewSegment, Returns, Raises
<1>2. e1 \in Command /\ e2 \in Command
  BY DEF Command, Versions
<1>3. Len(ev) = 2 /\ ev[2] = e2
  <2> HIDE DEF e1, e2
  <2> DEFINE q == Append(<<>>, e1)
  <2>1. q \in Seq(Command) /\ Len(q) = 1 /\ q[1] = e1
    <3>1. <<>> \in Seq(Command)
      BY EmptyLength
    <3> QED
      BY <1>2, <3>1, FirstElement
  <2> HIDE DEF q
  <2>2. Len(Append(q, e2)) = 2 /\ Append(q, e2)[2] = e2
    BY <1>2, <2>1, SecondElement
  <2> QED
    BY <2>2 DEF q
<1> HIDE DEF ev
<1>4. /\ seg.state = "R_VALIDATING" /\ ~seg.reader_file_validated
      /\ seg.reader_ver = rver /\ seg.old_readers = {} /\ seg.events = ev
  BY <1>1
<1> QED
  BY Zenon, <1>0, <1>3, <1>4

(* memmgr starts with it: what the versions file names is complete. *)
LEMMA InitFileInv ==
  ASSUME Init
  PROVE  FileInv
<1>1. PICK rver \in Versions, vknown \in BOOLEAN :
           /\ seg.state = "R_VALIDATING" /\ ~seg.reader_file_validated
           /\ seg.reader_ver = rver
           /\ commands = <<[op |-> "validate", arg |-> IF vknown THEN rver ELSE None]>>
           /\ vknown => file[rver] = "complete"
           /\ \A r \in Readers : mapped[r] # None => file[mapped[r]] = "complete"
           /\ responses = <<>>
           /\ inbox = [r \in Readers |-> <<>>]
  BY InitData
<1>2. /\ \A r \in Readers : \A i \in 1..Len(inbox[r]) : FALSE
      /\ \A i \in 1..Len(responses) : FALSE
  BY <1>1
<1>3. \A i \in 1..Len(commands) : commands[i].arg # None => vknown
  BY <1>1
<1> QED
  BY <1>1, <1>2, <1>3 DEF FileInv, Complete

(* Every step keeps it, if the builder can open the files it writes. *)
LEMMA NextFileInv ==
  ASSUME ~ResetMayFail, TypeOK, IInv, FileInv, [Next]_vars
  PROVE  FileInv'
<1>1. CASE UNCHANGED <<seg, commands, responses, file, mapped, inbox>>
  BY Zenon, <1>1 DEF FileInv, Complete
<1>2. CASE \E z \in Zones : SourceChanges(z)
  BY <1>1, <1>2 DEF SourceChanges, memmgrVars, builderVars, readerVars
<1>3. CASE UNCHANGED vars
  BY <1>1, <1>3 DEF vars, memmgrVars, builderVars, dataVars, readerVars
<1> QED
  BY <1>2, <1>3, MainFiles, BuilderFiles, ReaderFiles DEF Next

(* What the mapped files are worth to a reader: if the builder can always  *)
(* open or create the version it is to write, every file a reader has      *)
(* mapped is complete, so no reset makes bundy-auth terminate.             *)
THEOREM MappedFilesAreComplete ==
  ASSUME ~ResetMayFail
  PROVE  Spec => []MappedFileComplete
<1>1. Init => FileInv
  BY InitFileInv
<1>2. TypeOK /\ IInv /\ FileInv /\ [Next]_vars => FileInv'
  BY NextFileInv
<1>3. FileInv => MappedFileComplete
  BY DEF FileInv, Complete, MappedFileComplete
<1> QED
  BY <1>1, <1>2, <1>3, Invariance, PTL DEF Spec

(* Under the same condition a segment_info_update in flight never names a  *)
(* file that is missing, or that the builder has begun to write.           *)
THEOREM UpdatesNameCompleteFiles ==
  ASSUME ~ResetMayFail
  PROVE  Spec => []UpdatesNameUsableFile
<1>1. Init => FileInv
  BY InitFileInv
<1>2. TypeOK /\ IInv /\ FileInv /\ [Next]_vars => FileInv'
  BY NextFileInv
<1>3. TypeOK /\ FileInv => UpdatesNameUsableFile
  <2>1. TypeOK => \A r \in Readers : DOMAIN inbox[r] = 1..Len(inbox[r])
    BY DEF TypeOK
  <2> QED
    BY <2>1 DEF FileInv, Complete, UpdatesNameUsableFile
<1> QED
  BY <1>1, <1>2, <1>3, Invariance, PTL DEF Spec

-----------------------------------------------------------------------------
(* Which version holds the latest data of which zone. *)

(* One of the events of queue ev, from position k on, loads zone z. *)
WaitsFrom(ev, k, z) == \E i \in k..Len(ev) : Covers(ev[i], z)

(* Version v has the latest data of zone z, or memmgr still has to be told *)
(* of a change of z, or an event from position k on will load z.           *)
Reached(v, ev, k, z) ==
  content[v][z] = source[z] \/ unnoticed[z] > 0 \/ WaitsFrom(ev, k, z)

(* The zones a command loads. *)
ZonesOf(c) == {z \in Zones : c # None /\ Covers(c, z)}

(* In a segment in state st with events ev, readers' version rv and        *)
(* writer's version wv, every zone has reached both versions, apart from   *)
(* the zones L that the builder is loading into wv.  The first event has   *)
(* been loaded into rv in SYNCHRONIZING, and is being loaded into wv in    *)
(* UPDATING.                                                               *)
Fresh(st, ev, rv, wv, L) ==
  \A z \in Zones :
    /\ Reached(rv, ev, IF st = "SYNCHRONIZING" THEN 2 ELSE 1, z)
    /\ Reached(wv, ev, IF st = "UPDATING" THEN 2 ELSE 1, z) \/ z \in L

Absent == \E v \in Versions : file[v] = "absent"

(* While a file is missing, the event or command that is going to create   *)
(* it loads all zones; c is the command in the builder's queue, if any.    *)
FirstLoad(st, ev, rv, wv, c) ==
  /\ st \in {"R_VALIDATING", "V_SYNCHRONIZING"} => ev[2].arg = None
  /\ st = "W_VALIDATING" => ev[1].arg = None
  /\ st \in {"UPDATING", "SYNCHRONIZING"} => ev[1].arg = None \/ ~Absent
  /\ st \in {"SYNCHRONIZING", "COPYING"} => file[rv] # "absent"
  /\ st = "COPYING" /\ c # None => c.arg = None \/ ~Absent
  /\ st \in {"UPDATING", "COPYING"} /\ c = None => file[wv] # "absent"
  /\ st = "UPDATING" /\ c # None => c = ev[1]
  /\ st \in {"SYNCHRONIZING2", "READY"} => ~Absent

(* What a method of SegmentInfo keeps: object s with command c. *)
DataOK(s, c) ==
  /\ Fresh(s.state, s.events, s.reader_ver, s.writer_ver, ZonesOf(c))
  /\ FirstLoad(s.state, s.events, s.reader_ver, s.writer_ver, c)

(* Taking the first event from the queue. *)
LEMMA QueueHead ==
  ASSUME NEW ev \in Seq(Command), Len(ev) > 0, NEW z
  PROVE  /\ ev # <<>> /\ Head(ev) = ev[1]
         /\ WaitsFrom(ev, 2, z) => WaitsFrom(Tail(ev), 1, z)
         /\ WaitsFrom(ev, 1, z) => Covers(ev[1], z) \/ WaitsFrom(ev, 2, z)
<1>1. /\ ev # <<>> /\ Head(ev) = ev[1] /\ Len(ev) \in Nat
      /\ Len(Tail(ev)) = Len(ev) - 1
      /\ \A i \in 1..Len(Tail(ev)) : Tail(ev)[i] = ev[i + 1]
  OBVIOUS
<1>2. ASSUME WaitsFrom(ev, 2, z) PROVE WaitsFrom(Tail(ev), 1, z)
  <2>1. PICK i \in 2..Len(ev) : Covers(ev[i], z)
    BY <1>2 DEF WaitsFrom
  <2>2. i - 1 \in 1..Len(Tail(ev)) /\ Tail(ev)[i - 1] = ev[i]
    <3>1. i - 1 \in 1..Len(Tail(ev)) /\ (i - 1) + 1 = i
      BY <1>1, <2>1
    <3> QED
      BY <1>1, <3>1
  <2> QED
    BY <2>1, <2>2 DEF WaitsFrom
<1>3. ASSUME WaitsFrom(ev, 1, z) PROVE Covers(ev[1], z) \/ WaitsFrom(ev, 2, z)
  <2>1. PICK i \in 1..Len(ev) : Covers(ev[i], z)
    BY <1>3 DEF WaitsFrom
  <2>2. i = 1 \/ i \in 2..Len(ev)
    BY <1>1
  <2> QED
    BY <2>1, <2>2 DEF WaitsFrom
<1> QED
  BY <1>1, <1>2, <1>3

(* Appending a load of zone z. *)
LEMMA QueueAppend ==
  ASSUME NEW ev \in Seq(Command), NEW z \in Zones, NEW e, NEW k \in {1, 2},
         e = [op |-> "load", arg |-> z]
  PROVE  /\ \A x : WaitsFrom(ev, k, x) => WaitsFrom(Append(ev, e), k, x)
         /\ k <= Len(ev) + 1 => WaitsFrom(Append(ev, e), k, z)
<1>1. /\ Len(ev) \in Nat /\ Len(Append(ev, e)) = Len(ev) + 1
      /\ \A i \in 1..Len(ev) : Append(ev, e)[i] = ev[i]
      /\ Append(ev, e)[Len(ev) + 1] = e
  <2>1. e \in Command
    BY DEF Command
  <2> QED
    BY <2>1, AppendedTo, LengthOf
<1>2. Covers(e, z)
  BY DEF Covers
<1> HIDE DEF Covers
<1> QED
  BY <1>1, <1>2 DEF WaitsFrom

(* Becoming ready with both versions up to date. *)
LEMMA ReadyData ==
  ASSUME NEW s \in SegmentType, EventsOK("READY", s.loaded, s.events), ~Absent,
         \A z \in Zones : /\ Reached(s.reader_ver, s.events, 1, z)
                          /\ Reached(s.writer_ver, s.events, 1, z),
         NEW res, res = check_on_ready(s)
  PROVE  DataOK(res.seg, res.cmd)
<1> DEFINE t == [s EXCEPT !.state = "READY"]
           u == [s EXCEPT !.state = "UPDATING"]
<1>1. /\ t.state = "READY" /\ u.state = "UPDATING"
      /\ t.events = s.events /\ t.reader_ver = s.reader_ver /\ t.writer_ver = s.writer_ver
      /\ u.events = s.events /\ u.reader_ver = s.reader_ver /\ u.writer_ver = s.writer_ver
      /\ s.events \in Seq(Command)
  BY DEF SegmentType
<1>2. \/ res.seg = t /\ res.cmd = None
      \/ res.seg = u /\ res.cmd = Head(s.events) /\ s.events # <<>>
  BY Zenon, <1>1 DEF check_on_ready, start_update, Returns, SegmentType
<1> HIDE DEF t, u
<1>3. CASE res.seg = t /\ res.cmd = None
  BY Zenon, <1>1, <1>3 DEF DataOK, Fresh, FirstLoad
<1>4. CASE res.seg = u /\ res.cmd = Head(s.events) /\ s.events # <<>>
  <2>1. Len(s.events) > 0 /\ Head(s.events) \in Command
    BY <1>1, <1>4
  <2>2. Head(s.events) # None
    BY <2>1, NoneAssumption DEF NoneAssumption
  <2>3. Head(s.events) = s.events[1]
    BY <1>1, <2>1, QueueHead
  <2>4. ASSUME NEW z \in Zones
        PROVE  Reached(s.writer_ver, s.events, 2, z) \/ z \in ZonesOf(res.cmd)
    <3>1. WaitsFrom(s.events, 1, z) => Covers(s.events[1], z) \/ WaitsFrom(s.events, 2, z)
      BY Zenon, <1>1, <2>1, QueueHead
    <3> QED
      BY <1>4, <2>2, <2>3, <3>1 DEF Reached, ZonesOf
  <2> QED
    BY Zenon, <1>1, <1>4, <2>2, <2>3, <2>4 DEF DataOK, Fresh, FirstLoad
<1> QED
  BY <1>2, <1>3, <1>4

(* __sync_reader_helper(): the copy of SYNCHRONIZING loads the first event *)
(* into the version the readers have left.                                 *)
LEMMA HelperData ==
  ASSUME NEW s \in SegmentType, EventsOK(s.state, s.loaded, s.events),
         s.state \in SyncStates, DataOK(s, None),
         NEW res, res = sync_reader_helper(s)
  PROVE  DataOK(res.seg, res.cmd)
<1>0. s.events \in Seq(Command) /\ ZonesOf(None) = {}
  BY DEF SegmentType, ZonesOf
<1>1. CASE s.old_readers # {}
  <2>1. res.seg = s /\ res.cmd = None
    BY <1>1 DEF sync_reader_helper, Returns
  <2> QED
    BY <2>1
<1>2. CASE s.old_readers = {} /\ s.state = "SYNCHRONIZING2"
  <2>1. res = check_on_ready(s)
    BY <1>2 DEF sync_reader_helper
  <2>2. EventsOK("READY", s.loaded, s.events)
    BY <1>0, <1>2 DEF EventsOK
  <2>3. /\ ~Absent
        /\ \A z \in Zones : /\ Reached(s.reader_ver, s.events, 1, z)
                            /\ Reached(s.writer_ver, s.events, 1, z)
    BY <1>0, <1>2 DEF DataOK, Fresh, FirstLoad
  <2> QED
    BY <2>1, <2>2, <2>3, ReadyData
<1>3. CASE s.old_readers = {} /\ s.state # "SYNCHRONIZING2"
  <2> DEFINE next == IF s.state = "SYNCHRONIZING" THEN "COPYING" ELSE "W_VALIDATING"
             t == [s EXCEPT !.state = next, !.events = Tail(@)]
  <2>1. Len(s.events) > 0
    BY <1>0, <1>3 DEF EventsOK, SyncStates
  <2>2. s.events # <<>> /\ Head(s.events) = s.events[1] /\ Head(s.events) \in Command
    BY <1>0, <2>1
  <2>3. Head(s.events) # None
    BY <2>2, NoneAssumption DEF NoneAssumption
  <2>4. /\ t.state = next /\ t.events = Tail(s.events)
        /\ t.reader_ver = s.reader_ver /\ t.writer_ver = s.writer_ver
    BY Zenon DEF SegmentType
  <2>5. res.seg = t /\ res.cmd = Head(s.events)
    BY <1>3, <2>2 DEF sync_reader_helper, Returns
  <2> HIDE DEF t
  <2>6. \A z \in Zones :
          /\ WaitsFrom(s.events, 2, z) => WaitsFrom(Tail(s.events), 1, z)
          /\ WaitsFrom(s.events, 1, z) => Covers(s.events[1], z) \/ WaitsFrom(s.events, 2, z)
    BY <1>0, <2>1, QueueHead
  <2>7. CASE s.state = "SYNCHRONIZING"
    <3>1. Fresh("COPYING", Tail(s.events), s.reader_ver, s.writer_ver, ZonesOf(res.cmd))
      BY Zenon, <1>0, <2>2, <2>3, <2>5, <2>6, <2>7 DEF DataOK, Fresh, Reached, ZonesOf
    <3>2. FirstLoad("COPYING", Tail(s.events), s.reader_ver, s.writer_ver, res.cmd)
      BY <2>2, <2>3, <2>5, <2>7 DEF DataOK, FirstLoad
    <3> QED
      BY <2>4, <2>5, <2>7, <3>1, <3>2 DEF DataOK
  <2>8. CASE s.state = "V_SYNCHRONIZING"
    <3>1. s.events[1].op = "validate" /\ Len(s.events) > 1
      BY <2>8 DEF EventsOK
    <3>2. \A z \in Zones : ~Covers(s.events[1], z)
      BY <3>1 DEF Covers
    <3>3. Fresh("W_VALIDATING", Tail(s.events), s.reader_ver, s.writer_ver, ZonesOf(res.cmd))
      BY Zenon, <1>0, <2>6, <2>8, <3>2 DEF DataOK, Fresh, Reached
    <3>4. Tail(s.events)[1] = s.events[2]
      BY <1>0, <3>1
    <3>5. FirstLoad("W_VALIDATING", Tail(s.events), s.reader_ver, s.writer_ver, res.cmd)
      BY Zenon, <2>8, <3>4 DEF DataOK, FirstLoad
    <3> QED
      BY Zenon, <2>4, <2>5, <2>8, <3>3, <3>5 DEF DataOK
  <2> QED
    BY <1>3, <2>7, <2>8 DEF SyncStates
<1> QED
  BY <1>1, <1>2, <1>3

(* Entering a synchronizing state. *)
LEMMA StartSyncData ==
  ASSUME NEW s \in SegmentType, NEW st \in SyncStates,
         EventsOK(st, s.loaded, s.events),
         Fresh(st, s.events, s.reader_ver, s.writer_ver, {}),
         FirstLoad(st, s.events, s.reader_ver, s.writer_ver, None),
         NEW res, res = start_sync(s, st)
  PROVE  DataOK(res.seg, res.cmd)
<1> DEFINE t == [s EXCEPT !.state = st, !.old_readers = s.readers, !.readers = {}]
<1>1. /\ t \in SegmentType /\ t.state = st
      /\ t.loaded = s.loaded /\ t.events = s.events
      /\ t.reader_ver = s.reader_ver /\ t.writer_ver = s.writer_ver
  BY Zenon DEF SegmentType, States, SyncStates
<1>2. res = sync_reader_helper(t)
  BY DEF start_sync
<1>3. ZonesOf(None) = {}
  BY DEF ZonesOf
<1> HIDE DEF t
<1>4. DataOK(t, None)
  BY <1>1, <1>3 DEF DataOK
<1> QED
  BY <1>1, <1>2, <1>4, HelperData

(* complete_validate(): the first load, of all zones, is still to come. *)
LEMMA CompleteValidateData ==
  ASSUME NEW s \in SegmentType, EventsOK(s.state, s.loaded, s.events),
         s.state \in {"R_VALIDATING", "W_VALIDATING"}, DataOK(s, None),
         NEW v \in BOOLEAN, NEW res, res = complete_validate(s, v)
  PROVE  DataOK(res.seg, res.cmd)
<1>0. s.events \in Seq(Command) /\ ZonesOf(None) = {}
  BY DEF SegmentType, ZonesOf
<1>1. CASE s.state = "R_VALIDATING"
  <2> DEFINE t == [s EXCEPT !.reader_file_validated = v \/ @]
  <2>1. /\ t \in SegmentType /\ t.loaded = s.loaded /\ t.events = s.events
        /\ t.reader_ver = s.reader_ver /\ t.writer_ver = s.writer_ver
    BY DEF SegmentType
  <2>2. res = start_sync(t, "V_SYNCHRONIZING")
    BY <1>1 DEF complete_validate
  <2> HIDE DEF t
  <2>3. EventsOK("V_SYNCHRONIZING", t.loaded, t.events)
    BY <1>1, <2>1 DEF EventsOK
  <2>4. /\ Fresh("V_SYNCHRONIZING", s.events, s.reader_ver, s.writer_ver, {})
        /\ FirstLoad("V_SYNCHRONIZING", s.events, s.reader_ver, s.writer_ver, None)
    BY <1>0, <1>1 DEF DataOK, Fresh, FirstLoad
  <2>5. "V_SYNCHRONIZING" \in SyncStates
    BY DEF SyncStates
  <2> QED
    BY Zenon, <2>1, <2>2, <2>3, <2>4, <2>5, StartSyncData
<1>2. CASE s.state = "W_VALIDATING"
  <2> DEFINE u == [s EXCEPT !.state = "UPDATING"]
  <2>1. Len(s.events) > 0
    BY Zenon, <1>0, <1>2 DEF EventsOK
  <2>2. /\ s.events # <<>> /\ Head(s.events) = s.events[1] /\ Head(s.events) \in Command
    BY <1>0, <2>1
  <2>3. Head(s.events) # None
    BY <2>2, NoneAssumption DEF NoneAssumption
  <2>4. /\ u.state = "UPDATING" /\ u.events = s.events
        /\ u.reader_ver = s.reader_ver /\ u.writer_ver = s.writer_ver
    BY DEF SegmentType
  <2>5. res.seg = u /\ res.cmd = Head(s.events)
    BY <1>2, <2>2 DEF complete_validate, Returns
  <2> HIDE DEF u
  <2>6. \A z \in Zones :
          WaitsFrom(s.events, 1, z) => Covers(s.events[1], z) \/ WaitsFrom(s.events, 2, z)
    BY <1>0, <2>1, QueueHead
  <2>7. Fresh("UPDATING", s.events, s.reader_ver, s.writer_ver, ZonesOf(res.cmd))
    BY Zenon, <1>0, <1>2, <2>2, <2>3, <2>5, <2>6 DEF DataOK, Fresh, Reached, ZonesOf
  <2>8. FirstLoad("UPDATING", s.events, s.reader_ver, s.writer_ver, res.cmd)
    BY <1>2, <2>2, <2>3, <2>5 DEF DataOK, FirstLoad
  <2> QED
    BY Zenon, <2>4, <2>5, <2>7, <2>8 DEF DataOK
<1> QED
  BY <1>1, <1>2

(* complete_update(), for a load that succeeded. *)
LEMMA CompleteUpdateData ==
  ASSUME NEW s \in SegmentType, EventsOK(s.state, s.loaded, s.events),
         s.state \in {"UPDATING", "COPYING"}, s.writer_ver = 1 - s.reader_ver,
         DataOK(s, None), NEW res, res = complete_update(s, TRUE)
  PROVE  DataOK(res.seg, res.cmd)
<1> DEFINE n == IF s.loaded < LoadedCap THEN s.loaded + 1 ELSE s.loaded
           t == [s EXCEPT !.loaded = n]
<1>0. ZonesOf(None) = {}
  BY DEF ZonesOf
<1>1. /\ t \in SegmentType /\ t.state = s.state /\ t.events = s.events
      /\ t.reader_ver = s.reader_ver /\ t.writer_ver = s.writer_ver
      /\ s.events \in Seq(Command)
  BY DEF SegmentType, LoadedCap
<1>2. CASE s.state = "UPDATING"
  <2> DEFINE u == switch_versions(t)
  <2>1. res = start_sync(u, "SYNCHRONIZING")
    BY <1>2 DEF complete_update
  <2> HIDE DEF t
  <2>2. /\ 1 - t.reader_ver = t.writer_ver /\ 1 - t.writer_ver = t.reader_ver
        /\ t.reader_ver \in Versions /\ t.writer_ver \in Versions
    BY <1>1 DEF SegmentType, Versions
  <2>3. /\ u \in SegmentType /\ u.loaded = t.loaded /\ u.events = s.events
        /\ u.reader_ver = s.writer_ver /\ u.writer_ver = s.reader_ver
    BY Zenon, <1>1, <2>2 DEF switch_versions, SegmentType
  <2> HIDE DEF u
  <2>4. EventsOK("SYNCHRONIZING", u.loaded, u.events)
    BY <1>1, <1>2, <2>3 DEF EventsOK
  <2>5. /\ Fresh("SYNCHRONIZING", s.events, s.writer_ver, s.reader_ver, {})
        /\ FirstLoad("SYNCHRONIZING", s.events, s.writer_ver, s.reader_ver, None)
    BY <1>0, <1>2 DEF DataOK, Fresh, FirstLoad
  <2>6. "SYNCHRONIZING" \in SyncStates
    BY DEF SyncStates
  <2> QED
    BY Zenon, <2>1, <2>3, <2>4, <2>5, <2>6, StartSyncData
<1>3. CASE s.state = "COPYING"
  <2>1. res = start_sync(t, "SYNCHRONIZING2") \/ res = check_on_ready(t)
    BY <1>3 DEF complete_update
  <2> HIDE DEF t
  <2>2. EventsOK("SYNCHRONIZING2", t.loaded, t.events) /\ EventsOK("READY", t.loaded, t.events)
    BY Zenon, <1>1, <1>3 DEF EventsOK
  <2>3. ~Absent
    BY <1>3 DEF DataOK, FirstLoad, Absent, SegmentType, Versions
  <2>4. \A z \in Zones : /\ Reached(s.reader_ver, s.events, 1, z)
                        /\ Reached(s.writer_ver, s.events, 1, z)
    BY <1>0, <1>3 DEF DataOK, Fresh
  <2>5. /\ Fresh("SYNCHRONIZING2", s.events, s.reader_ver, s.writer_ver, {})
        /\ FirstLoad("SYNCHRONIZING2", s.events, s.reader_ver, s.writer_ver, None)
    BY <2>3, <2>4 DEF Fresh, FirstLoad
  <2>6. "SYNCHRONIZING2" \in SyncStates
    BY DEF SyncStates
  <2> QED
    BY Zenon, <1>1, <2>1, <2>2, <2>3, <2>4, <2>5, <2>6, StartSyncData, ReadyData
<1> QED
  BY Zenon, <1>2, <1>3

(* sync_reader() and remove_reader(). *)
LEMMA SyncReaderData ==
  ASSUME NEW s \in SegmentType, EventsOK(s.state, s.loaded, s.events),
         s.state \in SyncStates, DataOK(s, None), NEW r \in Readers
  PROVE  /\ DataOK(sync_reader(s, r).seg, sync_reader(s, r).cmd)
         /\ DataOK(remove_reader(s, r).seg, remove_reader(s, r).cmd)
<1> DEFINE t == [s EXCEPT !.old_readers = @ \ {r}, !.readers = @ \cup {r}]
           u == [s EXCEPT !.old_readers = @ \ {r}]
           w == [s EXCEPT !.readers = @ \ {r}]
<1>1. \A x \in {t, u, w} :
        /\ x \in SegmentType /\ x.state = s.state /\ x.loaded = s.loaded
        /\ x.events = s.events
        /\ x.reader_ver = s.reader_ver /\ x.writer_ver = s.writer_ver
  <2>1. t \in SegmentType /\ u \in SegmentType /\ w \in SegmentType
    BY Zenon DEF SegmentType
  <2>2. /\ t.state = s.state /\ t.loaded = s.loaded /\ t.events = s.events
        /\ t.reader_ver = s.reader_ver /\ t.writer_ver = s.writer_ver
        /\ u.state = s.state /\ u.loaded = s.loaded /\ u.events = s.events
        /\ u.reader_ver = s.reader_ver /\ u.writer_ver = s.writer_ver
        /\ w.state = s.state /\ w.loaded = s.loaded /\ w.events = s.events
        /\ w.reader_ver = s.reader_ver /\ w.writer_ver = s.writer_ver
    BY Zenon DEF SegmentType
  <2> HIDE DEF t, u, w
  <2> QED
    BY <2>1, <2>2
<1>2. /\ \/ sync_reader(s, r).seg = s /\ sync_reader(s, r).cmd = None
         \/ sync_reader(s, r) = sync_reader_helper(t)
      /\ \/ remove_reader(s, r).seg \in {s, w} /\ remove_reader(s, r).cmd = None
         \/ remove_reader(s, r) = sync_reader_helper(u)
  BY DEF sync_reader, remove_reader, Returns, Raises
<1> HIDE DEF t, u, w
<1>3. \A x \in {t, u, w} : DataOK(x, None)
  BY <1>1 DEF DataOK
<1>4. \A x \in {t, u} : DataOK(sync_reader_helper(x).seg, sync_reader_helper(x).cmd)
  BY <1>1, <1>3, HelperData
<1> QED
  BY <1>2, <1>3, <1>4
=============================================================================
