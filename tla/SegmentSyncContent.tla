------------------------- MODULE SegmentSyncContent -------------------------
(***************************************************************************)
(* What the mapped files hold, for any set of readers and zones and any    *)
(* number of changes.  Two more invariants rest on those of                *)
(* SegmentSyncProofs and SegmentSyncFiles.  ContentInv says which version  *)
(* holds the latest data of which zone, if loading never fails.  OrderInv  *)
(* says in which order a reader is told of the versions.                   *)
(***************************************************************************)
EXTENDS SegmentSyncFiles

(* The command in the builder's queue, and the zones it is loading. *)
Cmd == IF commands = <<>> THEN None ELSE commands[1]

Loading == ZonesOf(Cmd) \cup (IF working = None THEN {} ELSE working.todo)

(* No load has failed, every zone has reached both versions or is going    *)
(* to, and no version holds data the source has not had.                   *)
ContentInv ==
  /\ Fresh(seg.state, seg.events, seg.reader_ver, seg.writer_ver, Loading)
  /\ FirstLoad(seg.state, seg.events, seg.reader_ver, seg.writer_ver, Cmd)
  /\ working # None => ~working.errors
  /\ \A i \in 1..Len(responses) : responses[i].op = "load" => responses[i].result
  /\ \A v \in Versions, z \in Zones : content[v][z] <= source[z]

(* The main thread gives the builder a command it did not have. *)
LEMMA GivenContent ==
  ASSUME TypeOK, ContentInv, UNCHANGED <<dataVars, working>>, commands = <<>>,
         working = None, responses' = <<>>, NEW c \in Command \cup {None},
         cmd_to_builder(c), DataOK(seg', c)
  PROVE  ContentInv'
<1>1. Cmd' = c
  <2>1. CASE c = None
    BY <2>1 DEF Cmd, cmd_to_builder
  <2>2. CASE c # None
    <3>1. Len(commands') = 1 /\ commands'[1] = c /\ commands' \in Seq(Command)
      BY <2>2, FirstElement DEF TypeOK, cmd_to_builder
    <3>2. commands' # <<>>
      BY <3>1
    <3> QED
      BY <3>1, <3>2 DEF Cmd
  <2> QED
    BY <2>1, <2>2
<1>2. ZonesOf(c)' = ZonesOf(c)
  BY DEF ZonesOf
<1>3. Loading' = ZonesOf(c)
  BY <1>1, <1>2 DEF Loading
<1>4. /\ Fresh(seg.state, seg.events, seg.reader_ver, seg.writer_ver, Loading)'
      /\ FirstLoad(seg.state, seg.events, seg.reader_ver, seg.writer_ver, Cmd)'
  BY <1>1, <1>3 DEF DataOK, Fresh, Reached, WaitsFrom, FirstLoad, Absent, dataVars
<1>5. /\ \A i \in 1..Len(responses') : FALSE
      /\ \A v \in Versions, z \in Zones : content'[v][z] <= source'[z]
      /\ working' = None
  BY SMTT(30) DEF ContentInv, dataVars
<1> QED
  BY <1>4, <1>5 DEF ContentInv

(* The main thread changes nothing the invariant looks at. *)
LEMMA KeptContent ==
  ASSUME ContentInv, UNCHANGED <<dataVars, commands, working, responses>>,
         seg'.state = seg.state, seg'.events = seg.events,
         seg'.reader_ver = seg.reader_ver, seg'.writer_ver = seg.writer_ver
  PROVE  ContentInv'
<1>1. Cmd' = Cmd /\ Loading' = Loading
  BY DEF Cmd, Loading, ZonesOf
<1> QED
  BY <1>1 DEF ContentInv, Fresh, Reached, WaitsFrom, FirstLoad, Absent, dataVars

(* Acknowledgements and departures. *)
LEMMA ReaderDoneContent ==
  ASSUME TypeOK, IInv, ContentInv, NEW r \in Readers,
         SegmentInfoUpdateAck(r) \/ ReaderUnsubscribed(r)
  PROVE  ContentInv'
<1>1. UNCHANGED <<dataVars, working, responses>>
  BY DEF SegmentInfoUpdateAck, ReaderUnsubscribed
<1>2. PICK res :
        /\ res \in {sync_reader(seg, r), remove_reader(seg, r)}
        /\ \/ seg' = seg /\ commands' = commands
           \/ seg' = res.seg /\ cmd_to_builder(res.cmd)
  BY DEF SegmentInfoUpdateAck, ReaderUnsubscribed
<1>3. CASE seg' = seg /\ commands' = commands
  BY <1>1, <1>3, KeptContent
<1>4. CASE seg' = res.seg /\ cmd_to_builder(res.cmd) /\ seg.state \in SyncStates
  <2>1. commands = <<>> /\ working = None /\ responses = <<>>
    BY <1>4 DEF IInv, TokenInv, Busy, SyncStates
  <2>2. Cmd = None /\ Loading = ZonesOf(None)
    BY <2>1 DEF Cmd, Loading
  <2>3. DataOK(seg, None)
    BY <2>2 DEF ContentInv, DataOK
  <2>4. DataOK(res.seg, res.cmd)
    BY <1>2, <1>4, <2>3, SyncReaderData DEF TypeOK, IInv
  <2>5. res.cmd \in Command \cup {None}
    <3>1. r \notin seg.readers \/ r \notin seg.old_readers
      BY DEF IInv, ReadersInv
    <3>2. CASE res = sync_reader(seg, r)
      BY <3>2, SyncReader DEF TypeOK, IInv, NoEffect, OldReaderDone, Answer
    <3>3. CASE res = remove_reader(seg, r)
      BY Zenon, <3>1, <3>3, RemoveReader DEF TypeOK, IInv, NoEffect, OldReaderDone, Answer
    <3> QED
      BY <1>2, <3>2, <3>3
  <2> QED
    BY <1>1, <1>4, <2>1, <2>4, <2>5, GivenContent
<1>5. CASE seg' = res.seg /\ cmd_to_builder(res.cmd) /\ seg.state \notin SyncStates
  <2> DEFINE w == [seg EXCEPT !.readers = @ \ {r}]
  <2>1. res.seg \in {seg, w} /\ res.cmd = None
    BY <1>2, <1>5 DEF sync_reader, remove_reader, Returns, Raises, SyncStates
  <2>2. /\ w.state = seg.state /\ w.events = seg.events
        /\ w.reader_ver = seg.reader_ver /\ w.writer_ver = seg.writer_ver
    BY Zenon DEF TypeOK, SegmentType
  <2> HIDE DEF w
  <2>3. commands' = commands
    BY <1>5, <2>1 DEF cmd_to_builder
  <2> QED
    BY <1>1, <1>5, <2>1, <2>2, <2>3, KeptContent
<1> QED
  BY <1>2, <1>3, <1>4, <1>5

(* A new reader. *)
LEMMA ReaderSubscribedContent ==
  ASSUME TypeOK, IInv, ContentInv, NEW r \in Readers, ReaderSubscribed(r)
  PROVE  ContentInv'
<1> DEFINE w == [seg EXCEPT !.readers = @ \cup {r}]
<1>1. /\ seg' \in {seg, w}
      /\ UNCHANGED <<dataVars, commands, working, responses>>
  BY DEF ReaderSubscribed, add_reader, Returns, Raises, builderVars
<1>2. /\ w.state = seg.state /\ w.events = seg.events
      /\ w.reader_ver = seg.reader_ver /\ w.writer_ver = seg.writer_ver
  BY Zenon DEF TypeOK, SegmentType
<1> HIDE DEF w
<1> QED
  BY <1>1, <1>2, KeptContent

(* The builder's answer. *)
LEMMA NotifyContent ==
  ASSUME TypeOK, IInv, ContentInv, NotifyFromBuilder
  PROVE  ContentInv'
<1> DEFINE n == Head(responses)
           res == IF n.op = "validate" THEN complete_validate(seg, n.result)
                                       ELSE complete_update(seg, n.result)
<1>1. /\ responses # <<>> /\ responses' = Tail(responses)
      /\ seg' = res.seg /\ cmd_to_builder(res.cmd)
      /\ UNCHANGED <<dataVars, working>>
  BY Zenon DEF NotifyFromBuilder
<1>2. /\ Len(responses) = 1 /\ responses[1].op = OpOf(seg.state)
      /\ commands = <<>> /\ working = None /\ seg.state \in Busy
  BY <1>1 DEF IInv, TokenInv, TypeOK
<1>3. /\ n = responses[1] /\ n \in Response /\ responses' = <<>>
      /\ n.result \in BOOLEAN /\ n.op = OpOf(seg.state)
  <2>1. n = responses[1] /\ n \in Response /\ responses' = <<>>
    BY <1>1, <1>2, OneElement DEF TypeOK
  <2> QED
    BY <1>2, <2>1 DEF Response
<1>4. DataOK(seg, None)
  <2>1. Cmd = None /\ Loading = ZonesOf(None)
    BY <1>2 DEF Cmd, Loading
  <2> QED
    BY <2>1 DEF ContentInv, DataOK
<1>5. DataOK(res.seg, res.cmd) /\ Answer(res.seg, res.cmd)
  <2>1. seg.old_readers = {}
    BY <1>2 DEF IInv, ReadersInv, Busy, SyncStates
  <2>2. CASE seg.state \in {"R_VALIDATING", "W_VALIDATING"}
    <3>1. res = complete_validate(seg, n.result)
      BY <1>3, <2>2 DEF OpOf
    <3> HIDE DEF res, n
    <3>2. Completed(seg, res)
      BY Zenon, <1>3, <2>1, <2>2, <3>1, CompleteValidate DEF TypeOK, IInv
    <3>3. DataOK(res.seg, res.cmd)
      BY Zenon, <1>3, <1>4, <2>2, <3>1, CompleteValidateData DEF TypeOK, IInv
    <3> QED
      BY <3>2, <3>3 DEF Completed
  <2>3. CASE seg.state \in {"UPDATING", "COPYING"}
    <3>1. n.op = "load" /\ res = complete_update(seg, n.result)
      BY <1>3, <2>3 DEF OpOf
    <3> HIDE DEF res
    <3>2. n.result = TRUE
      <4>1. 1 \in 1..Len(responses)
        BY <1>2
      <4> QED
        BY <1>3, <3>1, <4>1 DEF ContentInv
    <3>3. Completed(seg, res)
      BY ZenonT(30), <1>3, <2>1, <2>3, <3>1, CompleteUpdate DEF TypeOK, IInv
    <3> HIDE DEF n
    <3>4. DataOK(res.seg, res.cmd)
      BY ZenonT(30), <1>4, <2>3, <3>1, <3>2, CompleteUpdateData DEF TypeOK, IInv
    <3> QED
      BY <3>3, <3>4 DEF Completed
  <2> QED
    BY <1>2, <2>2, <2>3 DEF Busy
<1> HIDE DEF res, n
<1>6. res.cmd \in Command \cup {None}
  BY <1>5 DEF Answer
<1> QED
  BY <1>1, <1>2, <1>3, <1>5, <1>6, GivenContent

(* A changed zone: its event is behind those that are being loaded. *)
LEMMA UpdateZoneContent ==
  ASSUME TypeOK, IInv, ContentInv, NEW z \in Zones, UpdateZone(z)
  PROVE  ContentInv'
<1> DEFINE e == [op |-> "load", arg |-> z]
           t == add_event(seg, e)
           u == [t EXCEPT !.state = "UPDATING"]
<1>1. /\ seg' = start_update(t).seg /\ cmd_to_builder(start_update(t).cmd)
      /\ unnoticed' = [unnoticed EXCEPT ![z] = @ - 1] /\ unnoticed[z] > 0
      /\ UNCHANGED <<working, responses, file, content, source>>
  BY DEF UpdateZone
<1>2. PICK ev : ev = Append(seg.events, e)
  BY Zenon
<1>3. /\ t.state = seg.state /\ t.events = ev /\ u.state = "UPDATING" /\ u.events = ev
      /\ t.reader_ver = seg.reader_ver /\ t.writer_ver = seg.writer_ver
      /\ u.reader_ver = seg.reader_ver /\ u.writer_ver = seg.writer_ver
  BY Zenon, <1>2 DEF add_event, TypeOK, SegmentType
<1>4. /\ seg.events \in Seq(Command) /\ e \in Command /\ ev \in Seq(Command)
      /\ Len(ev) = Len(seg.events) + 1 /\ Len(seg.events) \in Nat
      /\ \A i \in 1..Len(seg.events) : ev[i] = seg.events[i]
  <2>1. seg.events \in Seq(Command) /\ e \in Command
    BY DEF TypeOK, SegmentType, Command
  <2> HIDE DEF e
  <2> QED
    BY <1>2, <2>1, AppendedTo, LengthOf
<1>5. \/ seg.state # "READY" /\ seg' = t /\ commands' = commands
      \/ /\ seg.state = "READY" /\ seg' = u
         /\ commands' = Append(commands, ev[1]) /\ ev[1] # None /\ ev[1] \in Command
  <2>1. ev # <<>> /\ Head(ev) \in Command /\ Head(ev) = ev[1]
    BY <1>4
  <2>2. Head(ev) # None
    BY <2>1, NoneAssumption DEF NoneAssumption
  <2> HIDE DEF t
  <2> QED
    BY <1>1, <1>3, <2>1, <2>2 DEF start_update, Returns, cmd_to_builder
<1> HIDE DEF t, u
<1>6. ASSUME NEW v \in Versions, NEW k \in {1, 2}, k <= Len(seg.events) + 1,
             NEW x \in Zones, Reached(v, seg.events, k, x)
      PROVE  Reached(v, ev, k, x)'
  <2>1. /\ WaitsFrom(seg.events, k, x) => WaitsFrom(ev, k, x)
        /\ WaitsFrom(ev, k, z)
    BY <1>2, <1>4, <1>6, QueueAppend
  <2>2. x # z => unnoticed'[x] = unnoticed[x]
    BY <1>1 DEF TypeOK
  <2>3. content'[v][x] = source'[x] \/ unnoticed'[x] > 0 \/ WaitsFrom(ev, k, x)
    BY Zenon, <1>1, <1>6, <2>1, <2>2 DEF Reached
  <2> QED
    BY <2>3 DEF Reached, WaitsFrom
<1>7. /\ seg.reader_ver \in Versions /\ seg.writer_ver \in Versions
      /\ Absent' <=> Absent
  BY <1>1 DEF TypeOK, SegmentType, Absent
<1>8. CASE seg.state # "READY" /\ seg' = t /\ commands' = commands
  <2>1. Cmd' = Cmd /\ Loading' = Loading
    BY <1>1, <1>8 DEF Cmd, Loading, ZonesOf
  <2>2. seg.state \in {"UPDATING", "SYNCHRONIZING"} => Len(seg.events) > 0
    BY DEF IInv, EventsOK
  <2>3. Fresh(seg.state, ev, seg.reader_ver, seg.writer_ver, Loading)'
    <3>1. ASSUME NEW x \in Zones
          PROVE  /\ Reached(seg.reader_ver, ev,
                       IF seg.state = "SYNCHRONIZING" THEN 2 ELSE 1, x)'
                 /\ Reached(seg.writer_ver, ev,
                       IF seg.state = "UPDATING" THEN 2 ELSE 1, x)' \/ x \in Loading
      <4> DEFINE kr == IF seg.state = "SYNCHRONIZING" THEN 2 ELSE 1
                 kw == IF seg.state = "UPDATING" THEN 2 ELSE 1
      <4>1. PICK rk \in {1, 2}, wk \in {1, 2}, rv \in Versions, wv \in Versions :
              /\ rk = kr /\ wk = kw /\ rv = seg.reader_ver /\ wv = seg.writer_ver
        BY <1>7
      <4>2. rk <= Len(seg.events) + 1 /\ wk <= Len(seg.events) + 1
        BY <1>4, <2>2, <4>1
      <4>3. /\ Reached(rv, seg.events, rk, x)
            /\ Reached(wv, seg.events, wk, x) \/ x \in Loading
        BY <4>1 DEF ContentInv, Fresh
      <4>4. /\ Reached(rv, ev, rk, x)'
            /\ Reached(wv, ev, wk, x)' \/ x \in Loading
        BY <1>6, <4>2, <4>3
      <4>5. /\ rk = kr' /\ wk = kw' /\ rv = seg'.reader_ver /\ wv = seg'.writer_ver
        BY <1>3, <1>8, <4>1
      <4> QED
        BY <4>4, <4>5 DEF Reached
    <3> QED
      BY <2>1, <3>1 DEF Fresh
  <2>4. FirstLoad(seg.state, ev, seg.reader_ver, seg.writer_ver, Cmd)'
    <3>1. /\ seg.state \in {"R_VALIDATING", "V_SYNCHRONIZING"} => ev[2] = seg.events[2]
          /\ seg.state \in {"W_VALIDATING", "UPDATING", "SYNCHRONIZING"} =>
               ev[1] = seg.events[1]
      BY <1>4 DEF IInv, EventsOK
    <3>2. FirstLoad(seg.state, ev, seg.reader_ver, seg.writer_ver, Cmd)
      BY <3>1 DEF ContentInv, FirstLoad
    <3>3. /\ seg'.state = seg.state /\ seg'.reader_ver = seg.reader_ver
          /\ seg'.writer_ver = seg.writer_ver /\ file' = file
      BY <1>1, <1>3, <1>8
    <3> QED
      BY <1>7, <2>1, <3>2, <3>3 DEF FirstLoad
  <2>5. seg'.events = ev
    BY <1>3, <1>8
  <2> QED
    BY Zenon, <1>1, <2>3, <2>4, <2>5 DEF ContentInv
<1>9. CASE /\ seg.state = "READY" /\ seg' = u
           /\ commands' = Append(commands, ev[1]) /\ ev[1] # None /\ ev[1] \in Command
  <2>1. commands = <<>> /\ working = None /\ responses = <<>>
    BY <1>9 DEF IInv, TokenInv, Busy
  <2>2. Cmd' = ev[1] /\ Loading' = ZonesOf(ev[1]) /\ Loading = {}
    <3>1. Len(commands') = 1 /\ commands'[1] = ev[1] /\ commands' \in Seq(Command)
      BY <1>9, <2>1, FirstElement DEF TypeOK
    <3>2. commands' # <<>>
      BY <3>1
    <3> QED
      BY <1>1, <2>1, <3>1, <3>2 DEF Cmd, Loading, ZonesOf
  <2>3. PICK rv \in Versions, wv \in Versions :
          rv = seg.reader_ver /\ wv = seg.writer_ver
    BY <1>7
  <2>4. \A x \in Zones : Reached(rv, ev, 1, x)' /\ Reached(wv, ev, 1, x)'
    <3> SUFFICES ASSUME NEW x \in Zones
                 PROVE  Reached(rv, ev, 1, x)' /\ Reached(wv, ev, 1, x)'
      OBVIOUS
    <3>1. Reached(rv, seg.events, 1, x) /\ Reached(wv, seg.events, 1, x)
      BY Zenon, <1>9, <2>2, <2>3 DEF ContentInv, Fresh
    <3>2. 1 <= Len(seg.events) + 1
      BY <1>4
    <3> QED
      BY <1>6, <3>1, <3>2
  <2>5. \A x \in Zones : WaitsFrom(ev, 1, x) => Covers(ev[1], x) \/ WaitsFrom(ev, 2, x)
    BY <1>4, QueueHead
  <2>6. \A x \in Zones : Reached(wv, ev, 2, x)' \/ x \in ZonesOf(ev[1])
    BY <1>9, <2>4, <2>5 DEF Reached, ZonesOf, WaitsFrom
  <2>7. /\ seg'.state = "UPDATING" /\ seg'.events = ev
        /\ seg'.reader_ver = rv /\ seg'.writer_ver = wv
    BY <1>3, <1>9, <2>3
  <2>8. Fresh(seg.state, seg.events, seg.reader_ver, seg.writer_ver, Loading)'
    BY <2>2, <2>4, <2>6, <2>7 DEF Fresh
  <2>9. FirstLoad(seg.state, seg.events, seg.reader_ver, seg.writer_ver, Cmd)'
    BY Zenon, <1>7, <1>9, <2>2, <2>7 DEF ContentInv, FirstLoad
  <2> QED
    BY Zenon, <1>1, <2>8, <2>9 DEF ContentInv
<1> QED
  BY <1>5, <1>8, <1>9

(* The builder opens a file: what it is going to load includes every zone  *)
(* that the file does not have, as a new file gets all the zones.          *)
LEMMA BuilderOpenContent ==
  ASSUME TypeOK, IInv, ContentInv, BuilderOpen
  PROVE  ContentInv'
<1> DEFINE c == commands[1]
           v == seg.writer_ver
<1>1. /\ Len(commands) = 1 /\ Head(commands) = c /\ Tail(commands) = <<>>
      /\ commands # <<>> /\ working = None /\ responses = <<>>
      /\ seg.state \in {"UPDATING", "COPYING"} /\ c.op = "load" /\ c \in Command
  <2>1. Len(commands) = 1 /\ seg.state \in Busy
    BY Zenon DEF BuilderOpen, BuilderIdle, IInv, TokenInv, TypeOK
  <2>2. Head(commands) = c /\ Tail(commands) = <<>> /\ commands # <<>> /\ c \in Command
    BY <2>1, OneElement DEF TypeOK
  <2> QED
    BY Zenon, <2>1, <2>2 DEF BuilderOpen, BuilderIdle, IInv, TokenInv, Busy, OpOf
<1>2. /\ working' = NewLoad(v, IF file[v] = "partial" THEN None ELSE c.arg)
      /\ file' = [file EXCEPT ![v] = "partial"]
      /\ content' = IF file[v] = "complete" THEN content
                    ELSE [content EXCEPT ![v] = [z \in Zones |-> NoData]]
      /\ commands' = <<>> /\ UNCHANGED <<seg, responses, source, unnoticed>>
  BY <1>1 DEF BuilderOpen, get_reset_param_writer, memmgrVars
<1>3. c # None /\ c.arg \in Zones \cup {None}
  BY <1>1, NoneAssumption DEF NoneAssumption, Command
<1>4. /\ v \in Versions /\ seg.reader_ver \in Versions /\ v # seg.reader_ver
      /\ file[v] \in FileStates
  BY DEF TypeOK, SegmentType, IInv, Versions
<1>5. Cmd = c /\ Loading = ZonesOf(c)
  BY <1>1 DEF Cmd, Loading
<1>6. file[v] = "absent" => c.arg = None
  BY <1>1, <1>3, <1>4, <1>5 DEF ContentInv, FirstLoad, Absent
<1>7. /\ working'.todo = (IF file[v] = "partial" \/ c.arg = None THEN Zones ELSE {c.arg})
      /\ working'.errors = FALSE /\ working' # None
  <2>1. working' \in Load
    BY Zenon, <1>2, <1>3, <1>4 DEF NewLoad, Load
  <2>2. working' # None
    BY <2>1, NoneAssumption DEF NoneAssumption
  <2> QED
    BY Zenon, <1>2, <1>3, <2>2, NoneAssumption DEF NewLoad, NoneAssumption
<1> HIDE DEF c, v
<1>8. Cmd' = None /\ Loading' = working'.todo
  BY <1>2, <1>7 DEF Cmd, Loading, ZonesOf
<1>9. ZonesOf(c) \subseteq working'.todo
  BY <1>3, <1>7, NoneAssumption DEF ZonesOf, Covers, NoneAssumption
<1>10. /\ \A z \in Zones : content'[seg.reader_ver][z] = content[seg.reader_ver][z]
       /\ \A z \in Zones : z \in working'.todo \/ content'[v][z] = content[v][z]
  BY ZenonT(30), <1>2, <1>4, <1>6, <1>7 DEF TypeOK, FileStates
<1>11. Fresh(seg.state, seg.events, seg.reader_ver, seg.writer_ver, Loading)'
  <2>1. Fresh(seg.state, seg.events, seg.reader_ver, v, ZonesOf(c))
    BY <1>5 DEF ContentInv, v
  <2>2. ASSUME NEW z \in Zones, NEW k
        PROVE  /\ Reached(seg.reader_ver, seg.events, k, z) =>
                    Reached(seg.reader_ver, seg.events, k, z)'
               /\ Reached(v, seg.events, k, z) /\ z \notin working'.todo =>
                    content'[v][z] = source'[z] \/ unnoticed'[z] > 0
                      \/ WaitsFrom(seg.events, k, z)
    BY <1>2, <1>10 DEF Reached, WaitsFrom
  <2>3. v = seg'.writer_ver /\ seg' = seg
    BY <1>2 DEF v
  <2> QED
    BY Zenon, <1>8, <1>9, <2>1, <2>2, <2>3 DEF Fresh, Reached, WaitsFrom
<1>12. FirstLoad(seg.state, seg.events, seg.reader_ver, seg.writer_ver, Cmd)'
  <2>1. /\ file'[seg.reader_ver] = file[seg.reader_ver] /\ file'[v] = "partial"
        /\ Absent' => Absent
    BY Zenon, <1>2, <1>4 DEF TypeOK, Absent
  <2>2. v = seg'.writer_ver /\ seg' = seg
    BY <1>2 DEF v
  <2> QED
    BY <1>1, <1>8, <2>1, <2>2 DEF ContentInv, FirstLoad
<1>13. \A x \in Versions, z \in Zones : content'[x][z] <= source'[z]
  <2>1. \A x \in Versions, z \in Zones :
          content'[x][z] = content[x][z] \/ content'[x][z] = 0
    BY Zenon, <1>2, <1>4 DEF TypeOK, NoData
  <2>2. \A z \in Zones : source[z] \in Nat
    BY DEF TypeOK
  <2>3. \A n \in Nat : 0 <= n
    OBVIOUS
  <2> QED
    BY Zenon, <1>2, <2>1, <2>2, <2>3 DEF ContentInv
<1> QED
  BY Zenon, <1>2, <1>7, <1>11, <1>12, <1>13 DEF ContentInv

(* The other steps of the builder, if loading never fails. *)
LEMMA BuilderContent ==
  ASSUME ~ResetMayFail, ~LoadMayFail, TypeOK, IInv, ContentInv, BuilderNext
  PROVE  ContentInv'
<1>1. CASE BuilderValidate
  <2> DEFINE x == [op |-> "validate",
                   result |-> IF Head(commands).arg = None THEN FALSE
                              ELSE file[Head(commands).arg] # "absent"]
  <2>1. /\ Len(commands) = 1 /\ Head(commands) = commands[1] /\ Tail(commands) = <<>>
        /\ commands # <<>> /\ commands[1].op = "validate" /\ responses = <<>>
        /\ working = None /\ seg.state \in {"R_VALIDATING", "W_VALIDATING"}
    <3>1. Len(commands) = 1 /\ seg.state \in Busy
      BY Zenon, <1>1 DEF BuilderValidate, BuilderIdle, IInv, TokenInv, TypeOK
    <3>2. Head(commands) = commands[1] /\ Tail(commands) = <<>> /\ commands # <<>>
      BY Zenon, <3>1, OneElement DEF TypeOK
    <3> QED
      BY <1>1, <3>1, <3>2 DEF BuilderValidate, BuilderIdle, IInv, TokenInv, Busy, OpOf
  <2>2. /\ responses' = Append(responses, x) /\ commands' = <<>>
        /\ UNCHANGED <<seg, working, file, content, source, unnoticed>>
    BY <1>1, <2>1 DEF BuilderValidate, memmgrVars, dataVars
  <2>3. x \in Response /\ x.op = "validate"
    BY Zenon DEF Response
  <2> HIDE DEF x
  <2>4. Len(responses') = 1 /\ responses'[1].op = "validate"
    BY <2>1, <2>2, <2>3, FirstElement DEF TypeOK
  <2>5. Cmd' = None /\ Loading' = {} /\ Loading = {}
    BY <2>1, <2>2 DEF Cmd, Loading, ZonesOf, Covers
  <2>6. FirstLoad(seg.state, seg.events, seg.reader_ver, seg.writer_ver, Cmd)'
    BY <2>1, <2>2, <2>5 DEF ContentInv, FirstLoad, Absent
  <2>7. Fresh(seg.state, seg.events, seg.reader_ver, seg.writer_ver, Loading)'
    BY Zenon, <2>2, <2>5 DEF ContentInv, Fresh, Reached, WaitsFrom
  <2>8. working' # None => ~working'.errors
    BY <2>1, <2>2
  <2>9. \A i \in 1..Len(responses') : responses'[i].op = "load" => responses'[i].result
    BY <2>4
  <2>10. \A v \in Versions, z \in Zones : content'[v][z] <= source'[z]
    BY Zenon, <2>2 DEF ContentInv
  <2> QED
    BY Zenon, <2>6, <2>7, <2>8, <2>9, <2>10 DEF ContentInv
<1>2. CASE BuilderOpen
  BY <1>2, BuilderOpenContent
<1>3. ASSUME NEW z \in Zones, BuilderLoadZone(z) PROVE ContentInv'
  <2>1. working # None /\ working \in Load /\ working.ver = seg.writer_ver
        /\ commands = <<>> /\ responses = <<>> /\ z \in working.todo
    BY <1>3 DEF BuilderLoadZone, TypeOK, IInv, TokenInv
  <2>2. /\ working' = [working EXCEPT !.todo = @ \ {z}, !.errors = @ \/ ~TRUE]
        /\ content' = [content EXCEPT ![working.ver][z] = source[z]]
        /\ UNCHANGED <<seg, commands, responses, file, source, unnoticed>>
    BY Zenon, <1>3 DEF BuilderLoadZone, memmgrVars
  <2>3. working'.todo = working.todo \ {z} /\ ~working'.errors /\ working' \in Load
    BY Zenon, <2>1, <2>2 DEF Load, ContentInv
  <2>4. working' # None
    BY <2>3, NoneAssumption DEF NoneAssumption
  <2>5. /\ Cmd' = None /\ Cmd = None /\ Loading = working.todo
        /\ Loading' = working.todo \ {z}
    BY <2>1, <2>2, <2>3, <2>4 DEF Cmd, Loading, ZonesOf
  <2>6. /\ working.ver \in Versions /\ seg.reader_ver \in Versions
        /\ working.ver # seg.reader_ver
    BY SMTT(30), <2>1 DEF TypeOK, SegmentType, IInv, Versions
  <2>7. \A v \in Versions, x \in Zones :
          content'[v][x] = IF v = working.ver /\ x = z THEN source[x] ELSE content[v][x]
    BY Zenon, <2>2, <2>6 DEF TypeOK
  <2>8. Fresh(seg.state, seg.events, seg.reader_ver, seg.writer_ver, Loading)'
    <3>1. Fresh(seg.state, seg.events, seg.reader_ver, working.ver, working.todo)
      BY Zenon, <2>1, <2>5 DEF ContentInv
    <3>2. ASSUME NEW x \in Zones, NEW k
          PROVE  /\ Reached(seg.reader_ver, seg.events, k, x) =>
                      content'[seg.reader_ver][x] = source'[x] \/ unnoticed'[x] > 0
                        \/ WaitsFrom(seg.events, k, x)
                 /\ Reached(working.ver, seg.events, k, x) \/ x \in working.todo =>
                      \/ content'[working.ver][x] = source'[x] \/ unnoticed'[x] > 0
                      \/ WaitsFrom(seg.events, k, x) \/ x \in working.todo \ {z}
      BY <2>2, <2>6, <2>7 DEF Reached
    <3> QED
      BY Zenon, <2>1, <2>2, <2>5, <3>1, <3>2 DEF Fresh, Reached, WaitsFrom
  <2>9. FirstLoad(seg.state, seg.events, seg.reader_ver, seg.writer_ver, Cmd)'
    BY <2>2, <2>5 DEF ContentInv, FirstLoad, Absent
  <2>10. \A v \in Versions, x \in Zones : content'[v][x] <= source'[x]
    <3>1. \A x \in Zones : source[x] <= source[x]
      BY DEF TypeOK
    <3> QED
      BY <2>2, <2>7, <3>1 DEF ContentInv
  <2> QED
    BY <2>2, <2>3, <2>8, <2>9, <2>10 DEF ContentInv
<1>4. CASE BuilderClose
  <2> DEFINE x == [op |-> "load", result |-> working.zone = None \/ ~working.errors]
  <2>1. /\ working # None /\ working \in Load /\ working.ver = seg.writer_ver
        /\ commands = <<>> /\ responses = <<>> /\ working.todo = {}
        /\ seg.state \in {"UPDATING", "COPYING"}
    BY Zenon, <1>4 DEF BuilderClose, TypeOK, IInv, TokenInv
  <2>2. /\ responses' = Append(responses, x) /\ working' = None
        /\ file' = [file EXCEPT ![working.ver] = "complete"]
        /\ UNCHANGED <<seg, commands, content, source, unnoticed>>
    BY <1>4 DEF BuilderClose, memmgrVars
  <2>3. x \in Response /\ x.result
    BY Zenon, <2>1 DEF Response, ContentInv
  <2> HIDE DEF x
  <2>4. Len(responses') = 1 /\ responses'[1].result
    BY <2>1, <2>2, <2>3, FirstElement DEF TypeOK
  <2>5. Cmd' = None /\ Cmd = None /\ Loading' = {} /\ Loading = {}
    BY <2>1, <2>2 DEF Cmd, Loading, ZonesOf
  <2>6. /\ seg.writer_ver \in Versions /\ seg.reader_ver \in Versions
        /\ seg.writer_ver # seg.reader_ver
    BY DEF TypeOK, SegmentType, IInv, Versions
  <2>7. /\ file'[seg.reader_ver] = file[seg.reader_ver]
        /\ file'[seg.writer_ver] = "complete"
        /\ Absent' => Absent
    BY <2>1, <2>2, <2>6 DEF TypeOK, Absent
  <2>8. FirstLoad(seg.state, seg.events, seg.reader_ver, seg.writer_ver, Cmd)'
    BY <2>1, <2>2, <2>5, <2>7 DEF ContentInv, FirstLoad
  <2>9. Fresh(seg.state, seg.events, seg.reader_ver, seg.writer_ver, Loading)'
    BY Zenon, <2>2, <2>5 DEF ContentInv, Fresh, Reached, WaitsFrom
  <2> QED
    <3>1. \A i \in 1..Len(responses') : responses'[i].result
      BY Zenon, <2>4, OneUpTo
    <3> QED
      BY Zenon, <2>2, <2>8, <2>9, <3>1 DEF ContentInv
<1> QED
  BY <1>1, <1>2, <1>3, <1>4 DEF BuilderNext, BuilderOpenFails

(* A change of the data source. *)
LEMMA SourceContent ==
  ASSUME TypeOK, ContentInv, NEW z \in Zones, SourceChanges(z)
  PROVE  ContentInv'
<1>1. /\ source' = [source EXCEPT ![z] = @ + 1]
      /\ unnoticed' = [unnoticed EXCEPT ![z] = @ + 1]
      /\ UNCHANGED <<seg, commands, working, responses, file, content>>
  BY DEF SourceChanges, memmgrVars, builderVars
<1>2. /\ unnoticed'[z] > 0 /\ source'[z] = source[z] + 1
      /\ \A x \in Zones \ {z} : source'[x] = source[x] /\ unnoticed'[x] = unnoticed[x]
  BY <1>1 DEF TypeOK
<1>3. Cmd' = Cmd /\ Loading' = Loading
  BY <1>1 DEF Cmd, Loading, ZonesOf
<1>4. \A v, ev, k : \A x \in Zones : Reached(v, ev, k, x) =>
        content'[v][x] = source'[x] \/ unnoticed'[x] > 0 \/ WaitsFrom(ev, k, x)
  BY <1>1, <1>2 DEF Reached
<1>5. Fresh(seg.state, seg.events, seg.reader_ver, seg.writer_ver, Loading)'
  BY Zenon, <1>1, <1>3, <1>4 DEF ContentInv, Fresh, Reached, WaitsFrom
<1>6. FirstLoad(seg.state, seg.events, seg.reader_ver, seg.writer_ver, Cmd)'
  BY Zenon, <1>1, <1>3 DEF ContentInv, FirstLoad, Absent
<1>7. \A v \in Versions, x \in Zones : content'[v][x] <= source'[x]
  <2>1. \A v \in Versions, x \in Zones : content[v][x] \in Nat /\ source[x] \in Nat
    BY DEF TypeOK
  <2>2. ASSUME NEW x \in Zones PROVE source[x] <= source'[x] /\ source'[x] \in Nat
    <3>1. source[x] \in Nat /\ (source'[x] = source[x] \/ source'[x] = source[x] + 1)
      BY Zenon, <1>2 DEF TypeOK
    <3>2. ASSUME NEW a \in Nat, NEW b, b = a \/ b = a + 1
          PROVE  a <= b /\ b \in Nat
      BY <3>2
    <3> QED
      BY Zenon, <3>1, <3>2
  <2> QED
    BY <1>1, <2>1, <2>2 DEF ContentInv
<1> QED
  BY Zenon, <1>1, <1>5, <1>6, <1>7 DEF ContentInv

(* memmgr starts with a load of all zones in the queue. *)
LEMMA InitContent ==
  ASSUME Init
  PROVE  ContentInv
<1>0. TypeOK
  BY InitIInv
<1>1. /\ seg.state = "R_VALIDATING" /\ Len(seg.events) = 2
      /\ seg.events[2] = [op |-> "load", arg |-> None]
      /\ content = [v \in Versions |-> [z \in Zones |->
           IF file[v] = "complete" THEN OldData ELSE NoData]]
      /\ working = None /\ responses = <<>> /\ source = [z \in Zones |-> FirstData]
  BY Zenon, InitData
<1>2. \A z \in Zones : WaitsFrom(seg.events, 1, z)
  <2>1. 2 \in 1..Len(seg.events)
    BY <1>1
  <2> QED
    BY <1>1, <2>1 DEF WaitsFrom, Covers
<1>3. Fresh(seg.state, seg.events, seg.reader_ver, seg.writer_ver, Loading)
  BY Zenon, <1>1, <1>2 DEF Fresh, Reached
<1>4. FirstLoad(seg.state, seg.events, seg.reader_ver, seg.writer_ver, Cmd)
  BY <1>1 DEF FirstLoad
<1>5. \A v \in Versions, z \in Zones : content[v][z] <= source[z]
  BY <1>1 DEF OldData, NoData, FirstData
<1> QED
  <2>1. \A i \in 1..Len(responses) : FALSE
    BY Zenon, <1>1, EmptyLength, NoneUpTo
  <2> QED
    BY Zenon, <1>1, <1>3, <1>4, <1>5, <2>1 DEF ContentInv

(* Every step keeps ContentInv, if nothing fails to open or to load. *)
LEMMA NextContent ==
  ASSUME ~ResetMayFail, ~LoadMayFail, TypeOK, IInv, ContentInv, [Next]_vars
  PROVE  ContentInv'
<1>1. CASE MainNext
  BY <1>1, NotifyContent, ReaderDoneContent, ReaderSubscribedContent,
     UpdateZoneContent DEF MainNext
<1>2. CASE UNCHANGED <<seg, dataVars, builderVars>>
  BY <1>2, KeptContent DEF builderVars
<1>3. CASE \E r \in Readers : ReaderNext(r)
  BY <1>2, <1>3 DEF ReaderNext, Subscribe, SegmentUpdate, Unsubscribe, memmgrVars
<1>4. CASE UNCHANGED vars
  BY <1>2, <1>4 DEF vars, memmgrVars
<1> QED
  BY <1>1, <1>3, <1>4, BuilderContent, SourceContent DEF Next

(* The promise of two copies: if loading does not fail, a segment at rest  *)
(* has the latest data of every zone in both versions of its file, however *)
(* the changes fell into the validation, the loads and the copies before.  *)
THEOREM RestIsCurrent ==
  ASSUME ~ResetMayFail, ~LoadMayFail
  PROVE  Spec => []ReadyIsCurrent
<1>1. Init => ContentInv
  BY InitContent
<1>2. TypeOK /\ IInv /\ ContentInv /\ [Next]_vars => ContentInv'
  BY NextContent
<1>3. TypeOK /\ IInv /\ ContentInv => ReadyIsCurrent
  <2> SUFFICES ASSUME TypeOK, IInv, ContentInv, Quiet, NEW v \in Versions, NEW z \in Zones
               PROVE  content[v][z] = source[z]
    BY Zenon DEF ReadyIsCurrent
  <2>1. commands = <<>> /\ working = None /\ seg.state = "READY" /\ seg.events = <<>>
        /\ unnoticed[z] = 0
    BY DEF Quiet, IInv, TokenInv, Busy
  <2>2. Loading = {} /\ ~(unnoticed[z] > 0)
    BY <2>1 DEF Loading, Cmd, ZonesOf
  <2>3. ~WaitsFrom(seg.events, 1, z)
    BY <2>1 DEF WaitsFrom
  <2>4. v = seg.reader_ver \/ v = seg.writer_ver
    BY DEF TypeOK, SegmentType, IInv, Versions
  <2> QED
    BY Zenon, <2>1, <2>2, <2>3, <2>4 DEF ContentInv, Fresh, Reached
<1> QED
  BY <1>1, <1>2, <1>3, Invariance, PTL DEF Spec

-----------------------------------------------------------------------------
(* In which order a reader gets to know the versions. *)

(* A reader that is waited for never returns from the current version to   *)
(* the old one: what follows the first update that names the current       *)
(* version does not name the other.                                        *)
OrderInv ==
  \A r \in seg.old_readers :
    /\ mapped[r] = seg.reader_ver =>
         \A i \in 1..Len(inbox[r]) : Current(inbox[r][i].file)
    /\ \A i, j \in 1..Len(inbox[r]) :
         i <= j /\ inbox[r][i].file = seg.reader_ver => Current(inbox[r][j].file)

(* The places of a queue's tail in the queue. *)
LEMMA ShiftedIndex ==
  ASSUME NEW n \in Nat, NEW m, m = n - 1
  PROVE  /\ \A i \in 1..m : 1 \in 1..n /\ i + 1 \in 1..n /\ 1 <= i + 1
         /\ \A i, j \in 1..m : i <= j => i + 1 <= j + 1
OBVIOUS

(* A reader handles its oldest message, or leaves. *)
LEMMA ReaderOrder ==
  ASSUME TypeOK, IInv, OrderInv, NEW r \in Readers, ReaderNext(r)
  PROVE  OrderInv'
<1>1. CASE Subscribe(r)
  <2>1. seg' = seg /\ mapped' = mapped /\ inbox' = inbox
    BY Zenon, <1>1 DEF Subscribe, memmgrVars
  <2> QED
    BY <2>1 DEF OrderInv, Current
<1>2. CASE Unsubscribe(r)
  <2>1. /\ seg' = seg /\ mapped'[r] = None /\ inbox'[r] = <<>> /\ Len(inbox'[r]) = 0
        /\ \A x \in Readers \ {r} : mapped'[x] = mapped[x] /\ inbox'[x] = inbox[x]
    BY <1>2 DEF Unsubscribe, memmgrVars, TypeOK
  <2>2. \A x \in seg.old_readers : x \in Readers
    BY DEF TypeOK, SegmentType
  <2>3. ASSUME NEW x \in seg.old_readers
        PROVE  /\ mapped'[x] = seg.reader_ver =>
                    \A i \in 1..Len(inbox'[x]) : Current(inbox'[x][i].file)
               /\ \A i, j \in 1..Len(inbox'[x]) :
                    i <= j /\ inbox'[x][i].file = seg.reader_ver =>
                      Current(inbox'[x][j].file)
    <3>1. CASE x = r
      <4>1. Len(inbox'[x]) = 0
        BY Zenon, <2>1, <3>1
      <4>2. \A i \in 1..Len(inbox'[x]) : FALSE
        BY <4>1
      <4> QED
        BY Zenon, <4>2
    <3>2. CASE x # r
      <4>1. mapped'[x] = mapped[x] /\ inbox'[x] = inbox[x]
        BY Zenon, <2>1, <2>2, <3>2
      <4> QED
        BY ZenonT(30), <4>1 DEF OrderInv
    <3> QED
      BY Zenon, <3>1, <3>2
  <2> QED
    BY <2>1, <2>3 DEF OrderInv, Current
<1>3. CASE SegmentUpdate(r)
  <2> DEFINE q == inbox[r]
  <2>1. /\ q \in Seq(Message) /\ q # <<>>
        /\ seg' = seg /\ inbox' = [inbox EXCEPT ![r] = Tail(q)]
        /\ \/ mapped' = mapped
           \/ mapped' = [mapped EXCEPT ![r] = Head(q).file]
        /\ mapped'[r] = Head(q).file \/ (mapped[r] = None /\ mapped'[r] = None)
    BY Zenon, <1>3 DEF SegmentUpdate, memmgrVars, TypeOK
  <2>2. /\ inbox'[r] = Tail(q)
        /\ \A x \in Readers \ {r} : mapped'[x] = mapped[x] /\ inbox'[x] = inbox[x]
    BY Zenon, <2>1 DEF TypeOK
  <2> HIDE DEF q
  <2>3. /\ Head(q) = q[1] /\ Len(q) \in Nat /\ Len(q) > 0
        /\ Len(Tail(q)) = Len(q) - 1
        /\ \A i \in 1..Len(Tail(q)) : Tail(q)[i] = q[i + 1]
    BY ZenonT(30), <2>1, FirstOf, HeadAndTail
  <2>4. ASSUME r \in seg.old_readers
        PROVE  /\ mapped'[r] = seg.reader_ver =>
                    \A i \in 1..Len(Tail(q)) : Current(Tail(q)[i].file)
               /\ \A i, j \in 1..Len(Tail(q)) :
                    i <= j /\ Tail(q)[i].file = seg.reader_ver => Current(Tail(q)[j].file)
    <3>1. \A i, j \in 1..Len(q) :
            i <= j /\ q[i].file = seg.reader_ver => Current(q[j].file)
      BY Zenon, <2>4 DEF OrderInv, q
    <3>2. None # seg.reader_ver
      BY NoneAssumption DEF NoneAssumption, TypeOK, SegmentType
    <3>3. mapped'[r] = seg.reader_ver => q[1].file = seg.reader_ver
      BY Zenon, <2>1, <2>3, <3>2
    <3>4. \A i \in 1..Len(Tail(q)) : 1 \in 1..Len(q) /\ i + 1 \in 1..Len(q) /\ 1 <= i + 1
      BY Zenon, <2>3, ShiftedIndex
    <3>5. \A i, j \in 1..Len(Tail(q)) : i <= j => i + 1 <= j + 1
      BY Zenon, <2>3, ShiftedIndex
    <3> QED
      BY Zenon, <2>3, <3>1, <3>3, <3>4, <3>5
  <2>5. \A x \in seg.old_readers : x \in Readers
    BY DEF TypeOK, SegmentType
  <2>6. ASSUME NEW x \in seg.old_readers
        PROVE  /\ mapped'[x] = seg.reader_ver =>
                    \A i \in 1..Len(inbox'[x]) : Current(inbox'[x][i].file)
               /\ \A i, j \in 1..Len(inbox'[x]) :
                    i <= j /\ inbox'[x][i].file = seg.reader_ver =>
                      Current(inbox'[x][j].file)
    <3>1. CASE x = r
      BY ZenonT(60), <2>2, <2>4, <2>6, <3>1
    <3>2. CASE x # r
      BY Zenon, <2>2, <2>5, <3>2 DEF OrderInv
    <3> QED
      BY Zenon, <3>1, <3>2
  <2>7. seg' = seg
    BY Zenon, <2>1
  <2> QED
    BY Zenon, <2>6, <2>7 DEF OrderInv, Current
<1> QED
  BY <1>1, <1>2, <1>3 DEF ReaderNext

(* A completion makes current readers old ones, and tells them the current *)
(* version after everything they have been told before.                    *)
LEMMA NotifyOrder ==
  ASSUME TypeOK, IInv, OrderInv, NotifyFromBuilder
  PROVE  OrderInv'
<1> DEFINE m == Update(seg')
<1>0. TypeOK' /\ IInv'
  BY NotifyFromBuilderStep
<1>1. mapped' = mapped /\ notify_readers(seg'.old_readers, m)
  <2>1. ~failed'
    BY Zenon, <1>0 DEF IInv
  <2> QED
    BY Zenon, <2>1 DEF NotifyFromBuilder
<1>2. /\ m \in Message /\ m.file \in {None, seg'.reader_ver}
  BY Zenon, <1>0 DEF TypeOK, SegmentType, Message, Update, get_reset_param_reader, loaded
<1>3. seg'.old_readers = {} \/ seg'.old_readers = seg.readers
  <2> DEFINE n == Head(responses)
             res == IF n.op = "validate" THEN complete_validate(seg, n.result)
                                         ELSE complete_update(seg, n.result)
  <2>1. responses # <<>> /\ seg' = res.seg
    BY Zenon DEF NotifyFromBuilder
  <2>2. /\ Len(responses) = 1 /\ responses[1].op = OpOf(seg.state) /\ seg.state \in Busy
    BY Zenon, <2>1 DEF IInv, TokenInv, TypeOK
  <2>3. n = responses[1] /\ n \in Response
    BY <2>2, OneElement DEF TypeOK
  <2>4. seg.old_readers = {} /\ n.result \in BOOLEAN /\ n.op = OpOf(seg.state)
    BY Zenon, <2>2, <2>3 DEF IInv, ReadersInv, Busy, SyncStates, Response
  <2>5. Completed(seg, res)
    <3>1. CASE seg.state \in {"R_VALIDATING", "W_VALIDATING"}
      <4>1. res = complete_validate(seg, n.result)
        BY Zenon, <2>4, <3>1 DEF OpOf
      <4> HIDE DEF res, n
      <4> QED
        BY Zenon, <2>4, <3>1, <4>1, CompleteValidate DEF TypeOK, IInv
    <3>2. CASE seg.state \in {"UPDATING", "COPYING"}
      <4>1. res = complete_update(seg, n.result)
        BY <2>4, <3>2 DEF OpOf
      <4> HIDE DEF res, n
      <4> QED
        BY ZenonT(30), <2>4, <3>2, <4>1, CompleteUpdate DEF TypeOK, IInv
    <3> QED
      BY Zenon, <2>2, <3>1, <3>2 DEF Busy
  <2> HIDE DEF res
  <2> QED
    BY <2>1, <2>5 DEF Completed
<1> HIDE DEF m
<1>4. ASSUME NEW x \in seg'.old_readers
      PROVE  /\ mapped'[x] = seg'.reader_ver =>
                  \A i \in 1..Len(inbox'[x]) : inbox'[x][i].file \in {None, seg'.reader_ver}
             /\ \A i, j \in 1..Len(inbox'[x]) :
                  i <= j /\ inbox'[x][i].file = seg'.reader_ver =>
                    inbox'[x][j].file \in {None, seg'.reader_ver}
  <2> DEFINE q == inbox[x]
  <2>1. /\ x \in Readers /\ x \in seg.readers
        /\ seg.reader_ver \in Versions /\ seg'.reader_ver \in Versions
        /\ None \notin Versions
    BY ZenonT(30), <1>0, <1>3, <1>4, NoneAssumption DEF NoneAssumption, TypeOK, SegmentType
  <2>2. \/ q = <<>>
        \/ /\ mapped[x] \in {None, seg.reader_ver}
           /\ \A i \in 1..Len(q) : q[i].file \in {None, seg.reader_ver}
    BY Zenon, <2>1 DEF IInv, MappingInv, Current
  <2>3. /\ q \in Seq(Message) /\ Len(q) \in Nat
        /\ inbox'[x] = q \/ inbox'[x] = Append(q, m)
    BY <1>1, <2>1 DEF TypeOK, notify_readers
  <2>4. CASE inbox'[x] = q
    <3>1. q = <<>> => \A i \in 1..Len(q) : FALSE
      BY Zenon, EmptyLength, NoneUpTo
    <3> QED
      BY ZenonT(30), <1>1, <2>1, <2>2, <2>4, <3>1
  <2> HIDE DEF q
  <2>5. CASE inbox'[x] = Append(q, m)
    <3>1. /\ Len(inbox'[x]) = Len(q) + 1 /\ inbox'[x][Len(q) + 1] = m
          /\ \A i \in 1..Len(q) : inbox'[x][i] = q[i]
      BY <1>2, <2>3, <2>5, AppendedTo
    <3>2. \A i \in 1..(Len(q) + 1) : i \in 1..Len(q) \/ i = Len(q) + 1
      BY <2>3
    <3>3. CASE q = <<>>
      <4>1. Len(q) = 0
        BY <3>3
      <4>2. \A i \in 1..Len(inbox'[x]) : i = Len(q) + 1
        BY <3>1, <4>1
      <4> QED
        BY <1>2, <3>1, <4>2
    <3>4. CASE /\ mapped[x] \in {None, seg.reader_ver}
               /\ \A i \in 1..Len(q) : q[i].file \in {None, seg.reader_ver}
      <4>1. CASE seg'.reader_ver = seg.reader_ver
        BY ZenonT(30), <1>2, <3>1, <3>2, <3>4, <4>1
      <4>2. CASE seg'.reader_ver # seg.reader_ver
        <5>1. mapped'[x] # seg'.reader_ver
          BY Zenon, <1>1, <2>1, <3>4, <4>2
        <5>2. ASSUME NEW i \in 1..Len(inbox'[x]), inbox'[x][i].file = seg'.reader_ver
              PROVE  i = Len(q) + 1
          BY Zenon, <2>1, <3>1, <3>2, <3>4, <4>2, <5>2
        <5>3. \A j \in 1..Len(inbox'[x]) : Len(q) + 1 <= j => j = Len(q) + 1
          BY <2>3, <3>1
        <5> QED
          BY Zenon, <1>2, <3>1, <5>1, <5>2, <5>3
      <4> QED
        BY <4>1, <4>2
    <3> QED
      BY Zenon, <2>2, <3>3, <3>4
  <2> QED
    BY Zenon, <2>3, <2>4, <2>5
<1> QED
  BY Zenon, <1>4 DEF OrderInv, Current

(* Every step keeps OrderInv. *)
LEMMA NextOrder ==
  ASSUME TypeOK, IInv, OrderInv, [Next]_vars
  PROVE  OrderInv'
<1>1. CASE UNCHANGED <<seg, mapped, inbox>>
  BY <1>1 DEF OrderInv, Current
<1>2. ASSUME NEW r \in Readers, ReaderSubscribed(r) PROVE OrderInv'
  <2>1. r \in joins /\ r \notin known /\ r \notin seg.readers /\ r \notin seg.old_readers
    BY Zenon, <1>2 DEF IInv, LifeInv, ReadersInv, ReaderSubscribed
  <2>2. /\ seg' = [seg EXCEPT !.readers = @ \cup {r}] /\ mapped' = mapped
        /\ \A x \in Readers \ {r} : inbox'[x] = inbox[x]
    BY <1>2, <2>1 DEF ReaderSubscribed, add_reader, Returns, Raises, notify_readers
  <2>3. seg'.old_readers = seg.old_readers /\ seg'.reader_ver = seg.reader_ver
    BY <2>2 DEF TypeOK, SegmentType
  <2>4. \A x \in seg.old_readers : x \in Readers \ {r}
    BY <2>1 DEF TypeOK, SegmentType
  <2> QED
    BY <2>2, <2>3, <2>4 DEF OrderInv, Current
<1>3. ASSUME seg'.old_readers \subseteq seg.old_readers, SameVersions(seg, seg'),
             UNCHANGED <<mapped, inbox>>
      PROVE  OrderInv'
  <2>1. seg'.reader_ver = seg.reader_ver
    BY Zenon, <1>3 DEF SameVersions
  <2>2. \A f : Current(f)' <=> Current(f)
    BY Zenon, <2>1 DEF Current
  <2>3. mapped' = mapped /\ inbox' = inbox /\ \A r \in seg'.old_readers : r \in seg.old_readers
    BY Zenon, <1>3
  <2> SUFFICES ASSUME NEW r \in seg'.old_readers
               PROVE  /\ mapped[r] = seg.reader_ver =>
                           \A i \in 1..Len(inbox[r]) : Current(inbox[r][i].file)
                      /\ \A i, j \in 1..Len(inbox[r]) :
                           i <= j /\ inbox[r][i].file = seg.reader_ver =>
                             Current(inbox[r][j].file)
    BY <2>1, <2>2, <2>3 DEF OrderInv
  <2> QED
    BY Zenon, <2>3 DEF OrderInv
<1>4. ASSUME NEW z \in Zones, UpdateZone(z) PROVE OrderInv'
  <2>1. SameVersions(seg, seg') /\ UNCHANGED <<mapped, inbox>>
    BY <1>4, SilentHandlers
  <2>2. seg'.old_readers = seg.old_readers
    <3>1. seg' = start_update(add_event(seg, [op |-> "load", arg |-> z])).seg
      BY <1>4 DEF UpdateZone
    <3> QED
      BY Zenon, <3>1, AddLoad DEF TypeOK, IInv, LoadAdded
  <2> QED
    BY <1>3, <2>1, <2>2
<1>5. ASSUME NEW r \in Readers, SegmentInfoUpdateAck(r) \/ ReaderUnsubscribed(r)
      PROVE  OrderInv'
  <2>1. SameVersions(seg, seg') /\ UNCHANGED <<mapped, inbox>>
    BY <1>5, SilentHandlers
  <2>2. seg'.old_readers \subseteq seg.old_readers
    <3>1. \/ seg' = seg
          \/ seg' = sync_reader(seg, r).seg
          \/ seg' = remove_reader(seg, r).seg
      BY Zenon, <1>5 DEF SegmentInfoUpdateAck, ReaderUnsubscribed
    <3>2. sync_reader(seg, r).seg.old_readers \subseteq seg.old_readers
      <4>1. PICK res : res = sync_reader(seg, r)
        OBVIOUS
      <4>2. NoEffect(seg, res) \/ OldReaderDone(seg, r, {r}, res)
        BY Zenon, <4>1, SyncReader DEF TypeOK, IInv
      <4> QED
        BY Zenon, <4>1, <4>2 DEF NoEffect, OldReaderDone
    <3>3. remove_reader(seg, r).seg.old_readers \subseteq seg.old_readers
      <4>1. r \notin seg.readers \/ r \notin seg.old_readers
        BY DEF IInv, ReadersInv
      <4>2. [seg EXCEPT !.readers = @ \ {r}].old_readers = seg.old_readers
        BY DEF TypeOK, SegmentType
      <4>3. PICK res : res = remove_reader(seg, r)
        OBVIOUS
      <4>4. \/ NoEffect(seg, res)
            \/ res.seg = [seg EXCEPT !.readers = @ \ {r}]
            \/ OldReaderDone(seg, r, {}, res)
        BY Zenon, <4>1, <4>3, RemoveReader DEF TypeOK, IInv
      <4>5. res.seg.old_readers \subseteq seg.old_readers
        BY Zenon, <4>2, <4>4 DEF NoEffect, OldReaderDone
      <4> QED
        BY Zenon, <4>3, <4>5
    <3> QED
      BY <3>1, <3>2, <3>3
  <2> QED
    BY Zenon, <1>3, <2>1, <2>2
<1>6. CASE BuilderNext
  BY Zenon, <1>1, <1>6 DEF BuilderNext, BuilderValidate, BuilderOpen, BuilderOpenFails,
     BuilderLoadZone, BuilderClose, memmgrVars, readerVars
<1>7. CASE \E z \in Zones : SourceChanges(z)
  BY <1>1, <1>7 DEF SourceChanges, memmgrVars, readerVars
<1>8. CASE UNCHANGED vars
  BY <1>1, <1>8 DEF vars, memmgrVars, readerVars
<1> QED
  BY <1>2, <1>4, <1>5, <1>6, <1>7, <1>8, NotifyOrder, ReaderOrder DEF Next, MainNext

(* The step of NoDataRegression: a reader changes versions only by an      *)
(* update, which moves it to the current version, and that has the latest  *)
(* data of every zone that is not waiting; the builder never writes what a *)
(* reader has mapped.                                                      *)
LEMMA NoRegressionStep ==
  ASSUME TypeOK, IInv, ContentInv, OrderInv, [Next]_vars,
         NEW r \in Readers, NEW z \in Zones,
         mapped[r] # None, mapped'[r] # None, ~Waiting(z)
  PROVE  content'[mapped'[r]][z] >= content[mapped[r]][z]
<1>0. /\ mapped[r] \in Versions
      /\ \A v \in Versions : content[v][z] \in Nat /\ source[z] \in Nat
  BY DEF TypeOK
<1>1. CASE UNCHANGED <<content, mapped>>
  BY <1>0, <1>1
<1>2. CASE BuilderOpen \/ \E x \in Zones : BuilderLoadZone(x)
  <2>1. mapped' = mapped
    BY Zenon, <1>2 DEF BuilderOpen, BuilderLoadZone, readerVars
  <2>2. seg.state \in {"UPDATING", "COPYING"}
    <3>1. CASE BuilderOpen
      <4>1. Len(commands) = 1 /\ seg.state \in Busy
        BY Zenon, <3>1 DEF BuilderOpen, BuilderIdle, IInv, TokenInv, TypeOK
      <4>2. Head(commands) = commands[1]
        BY <4>1, OneElement DEF TypeOK
      <4> QED
        BY Zenon, <3>1, <4>1, <4>2 DEF BuilderOpen, BuilderIdle, IInv, TokenInv, Busy, OpOf
    <3>2. CASE \E x \in Zones : BuilderLoadZone(x)
      BY <3>2 DEF BuilderLoadZone, IInv, TokenInv
    <3> QED
      BY <1>2, <3>1, <3>2
  <2>3. mapped[r] # seg.writer_ver
    BY Zenon, <2>2, WriterVersionUnused DEF Current
  <2>4. \A v \in Versions : v # seg.writer_ver => content'[v] = content[v]
    <3>1. CASE BuilderOpen
      BY Zenon, <3>1 DEF BuilderOpen, get_reset_param_writer, TypeOK
    <3>2. CASE \E x \in Zones : BuilderLoadZone(x)
      <4>1. working.ver = seg.writer_ver
        BY <3>2 DEF BuilderLoadZone, IInv, TokenInv
      <4>2. \E x \in Zones : \E d : content' = [content EXCEPT ![working.ver][x] = d]
        BY Zenon, <3>2 DEF BuilderLoadZone
      <4> QED
        BY Zenon, <4>1, <4>2 DEF TypeOK
    <3> QED
      BY Zenon, <1>2, <3>1, <3>2
  <2> QED
    BY <1>0, <2>1, <2>3, <2>4
<1>3. ASSUME NEW x \in Readers, SegmentUpdate(x)
      PROVE  content'[mapped'[r]][z] >= content[mapped[r]][z]
  <2> DEFINE q == inbox[x]
  <2>0. content' = content
    BY Zenon, <1>3 DEF SegmentUpdate, dataVars
  <2>1. /\ content' = content /\ q # <<>> /\ q \in Seq(Message)
        /\ mapped' = mapped \/ mapped' = [mapped EXCEPT ![x] = Head(q).file]
    BY Zenon, <1>3 DEF SegmentUpdate, dataVars, TypeOK
  <2>2. CASE mapped'[r] = mapped[r]
    <3>1. content'[mapped'[r]][z] = content[mapped[r]][z]
      BY Zenon, <2>0, <2>2
    <3>2. content[mapped[r]][z] \in Nat
      BY Zenon, <1>0
    <3> QED
      BY Zenon, <3>1, <3>2, AtLeastItself
  <2>3. CASE mapped'[r] # mapped[r]
    <3>1. /\ x = r /\ mapped'[r] = q[1].file /\ 1 \in 1..Len(q) /\ q[1].file \in Versions
      <4>1. x = r /\ mapped'[r] = Head(q).file
        BY ZenonT(30), <2>1, <2>3 DEF TypeOK
      <4>2. Head(q) = q[1] /\ q[1] \in Message /\ 1 \in 1..Len(q)
        BY Zenon, <2>1, FirstOf
      <4> QED
        BY Zenon, <4>1, <4>2 DEF Message
    <3>2. r \in seg.readers \cup seg.old_readers
      BY Zenon, <1>3, <2>1, <3>1 DEF SegmentUpdate, IInv, LifeInv, ReadersInv
    <3>3. mapped'[r] = seg.reader_ver
      <4>1. CASE r \in seg.readers
        BY Zenon, <2>1, <3>1, <4>1 DEF IInv, MappingInv, Current
      <4>2. CASE r \in seg.old_readers /\ mapped[r] = seg.reader_ver
        BY Zenon, <3>1, <4>2 DEF OrderInv, Current
      <4>3. CASE mapped[r] # seg.reader_ver
        BY ZenonT(30), <1>0, <2>3, <3>1, <4>3 DEF TypeOK, SegmentType, Versions
      <4> QED
        BY <3>2, <4>1, <4>2, <4>3
    <3>4. content[seg.reader_ver][z] = source[z]
      <4> DEFINE k == IF seg.state = "SYNCHRONIZING" THEN 2 ELSE 1
      <4>1. Reached(seg.reader_ver, seg.events, k, z)
        BY Zenon DEF ContentInv, Fresh
      <4>2. ~WaitsFrom(seg.events, k, z) /\ ~(unnoticed[z] > 0)
        <5>0. Len(seg.events) \in Nat
          BY Zenon, LengthOf DEF TypeOK, SegmentType
        <5>1. \A i \in k..Len(seg.events) :
                i \in 1..Len(seg.events) /\ (i = 1 => seg.state # "SYNCHRONIZING")
          BY <5>0
        <5> QED
          BY Zenon, <5>1 DEF Waiting, WaitsFrom
      <4> QED
        BY Zenon, <4>1, <4>2 DEF Reached
    <3>5. content[mapped[r]][z] <= source[z]
      BY Zenon, <1>0 DEF ContentInv
    <3> QED
      BY Zenon, <1>0, <2>1, <3>3, <3>4, <3>5 DEF TypeOK, SegmentType
  <2> QED
    BY Zenon, <2>2, <2>3
<1>4. CASE \E x \in Readers : Unsubscribe(x)
  <2>1. PICK x \in Readers : Unsubscribe(x)
    BY Zenon, <1>4
  <2>2. content' = content /\ mapped' = [mapped EXCEPT ![x] = None]
    BY <2>1 DEF Unsubscribe, dataVars
  <2>3. mapped'[r] = mapped[r]
    BY Zenon, <2>2 DEF TypeOK
  <2> QED
    BY Zenon, <1>0, <2>2, <2>3, AtLeastItself
<1>5. CASE MainNext \/ (\E x \in Readers : Subscribe(x)) \/ BuilderValidate
             \/ BuilderOpenFails \/ BuilderClose \/ \E x \in Zones : SourceChanges(x)
  <2>1. UNCHANGED <<content, mapped>>
    BY Zenon, <1>5 DEF MainNext, NotifyFromBuilder, SegmentInfoUpdateAck, ReaderSubscribed,
       ReaderUnsubscribed, UpdateZone, Subscribe, BuilderValidate, BuilderOpenFails,
       BuilderClose, SourceChanges, dataVars, readerVars
  <2> QED
    BY Zenon, <1>1, <2>1
<1>6. CASE UNCHANGED vars
  BY Zenon, <1>1, <1>6 DEF vars, dataVars, readerVars
<1> QED
  BY Zenon, <1>2, <1>3, <1>4, <1>5, <1>6 DEF Next, BuilderNext, ReaderNext

(* If loading does not fail, no reader ever goes back to older data of a   *)
(* zone that has no change waiting, for any number of readers, zones and   *)
(* changes and any order of the updates and acknowledgements.              *)
THEOREM NoRegression ==
  ASSUME ~ResetMayFail, ~LoadMayFail
  PROVE  Spec => NoDataRegression
<1>1. Init => ContentInv /\ OrderInv
  <2>1. Init => OrderInv
    BY Zenon, InitIInv DEF OrderInv
  <2> QED
    BY <2>1, InitContent
<1>2. TypeOK /\ IInv /\ ContentInv /\ OrderInv /\ [Next]_vars => (ContentInv /\ OrderInv)'
  BY NextContent, NextOrder
<1>3. TypeOK /\ IInv /\ ContentInv /\ OrderInv /\ [Next]_vars =>
        [\A r \in Readers, z \in Zones :
           mapped[r] # None /\ mapped'[r] # None /\ ~Waiting(z)
             => content'[mapped'[r]][z] >= content[mapped[r]][z]]_vars
  BY Zenon, NoRegressionStep
<1> QED
  BY <1>1, <1>2, <1>3, Invariance, PTL DEF Spec, NoDataRegression
=============================================================================
