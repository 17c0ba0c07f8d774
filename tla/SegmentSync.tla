---------------------------- MODULE SegmentSync ----------------------------
(***************************************************************************)
(* How one mapped segment is shared: bundy-memmgr's main thread, its       *)
(* builder thread, and the segment readers (bundy-auth processes), for one *)
(* generation of the data source configuration and one life of memmgr.     *)
(*                                                                         *)
(* The main thread (memmgr.py.in) owns the SegmentInfo object and runs one *)
(* handler at a time.  It gives commands to the builder thread             *)
(* (builder.py) through a locked queue and gets responses through another. *)
(* It tells readers which mapped file to open with segment_info_update     *)
(* messages and counts the acknowledgements still outstanding.  msgq       *)
(* delivers the messages of one connection in order; the subscribed and    *)
(* unsubscribed notices travel separately from the acknowledgements.       *)
(***************************************************************************)
EXTENDS SegmentInfo, FiniteSets

CONSTANTS
  Readers,        \* connections (lnames) of segment readers; never reused
  Zones,          \* the zones cached in the segment
  MaxUpdates,     \* bound on the changes of a zone in the data source
  ResetMayFail,   \* the builder may fail to open and to create a mapped file
  LoadMayFail     \* loading a single zone may fail

ASSUME MaxUpdatesAssumption == MaxUpdates \in Nat
ASSUME FailuresAssumption == ResetMayFail \in BOOLEAN /\ LoadMayFail \in BOOLEAN

VARIABLES
  (* memmgr, main thread *)
  seg,          \* the SegmentInfo object
  known,        \* keys of _segment_readers
  outstanding,  \* _segment_readers[r][sgmt_info]: unacknowledged updates
  failed,       \* an exception left a handler that must not raise one
  (* memmgr, builder thread *)
  commands,     \* _builder_command_queue
  working,      \* the load in progress, or None
  responses,    \* _builder_response_queue
  (* the mapped files and the data source *)
  file,         \* state of each version of the mapped file
  content,      \* version of each zone's data in each mapped file
  source,       \* version of each zone's data in the data source
  unnoticed,    \* zone_updated notifications not yet handled by memmgr
  (* readers and their channels *)
  life,         \* of each reader: "new", "subscribed" or "gone"
  joins,        \* subscribed notices in flight
  leaves,       \* unsubscribed notices in flight
  inbox,        \* segment_info_update messages in flight, per reader
  acks,         \* number of segment_info_update_ack in flight, per reader
  mapped        \* the version each reader has mapped, or None

memmgrVars  == <<seg, known, outstanding, failed>>
builderVars == <<commands, working, responses>>
dataVars    == <<file, content, source, unnoticed>>
readerVars  == <<life, joins, leaves, inbox, acks, mapped>>
vars == <<memmgrVars, builderVars, dataVars, readerVars>>

(* Versions of a zone's data: not there, loaded in an earlier life of      *)
(* memmgr, or a version the data source has had in this life.              *)
NoData == 0
OldData == 1
FirstData == 2

FileStates == {"absent", "partial", "complete"}

(* A command for the builder: validate a version of the file (None if the  *)
(* versions file was missing or broken), or load a zone (None for all).    *)
Command == [op : {"validate"}, arg : Versions \cup {None}]
             \cup [op : {"load"}, arg : Zones \cup {None}]

(* A load in progress: the version being written, the zone to load (None   *)
(* for all), the zones not loaded yet, and whether a zone failed to load.  *)
Load == [ver : Versions, zone : Zones \cup {None}, todo : SUBSET Zones,
         errors : BOOLEAN]

Response == [op : {"validate", "load"}, result : BOOLEAN]

Message == [file : Versions \cup {None}, inuse_only : BOOLEAN]

(* None is none of the values it stands in for. *)
ASSUME NoneAssumption == None \notin Zones \cup Versions \cup Command \cup Load

-----------------------------------------------------------------------------
(* Sending.  A message to a connection that is gone is dropped by msgq, or *)
(* by the reader, which no longer handles the group's commands.            *)

Update(s) == [file |-> get_reset_param_reader(s), inuse_only |-> ~loaded(s)]

(* Fault: a second unacknowledged update is not counted. *)
notify_readers_once(rs, m) ==
  /\ inbox' = [r \in Readers |-> IF r \in rs /\ life[r] = "subscribed"
                                 THEN Append(inbox[r], m) ELSE inbox[r]]
  /\ outstanding' = [r \in Readers |-> IF r \in rs THEN 1 ELSE outstanding[r]]

(* __notify_readers *)
notify_readers(rs, m) ==
  /\ inbox' = [r \in Readers |-> IF r \in rs /\ life[r] = "subscribed"
                                 THEN Append(inbox[r], m) ELSE inbox[r]]
  /\ outstanding' = [r \in Readers |-> IF r \in rs THEN outstanding[r] + 1
                                                   ELSE outstanding[r]]

(* _cmd_to_builder, for the result of a SegmentInfo method *)
cmd_to_builder(c) ==
  commands' = IF c = None THEN commands ELSE Append(commands, c)

-----------------------------------------------------------------------------
(* Main thread handlers *)

(* _notify_from_builder, for a completed validation or load.  Nothing      *)
(* catches an exception here: it ends the server's main loop.              *)
NotifyFromBuilder ==
  /\ ~failed /\ responses # <<>>
  /\ LET n == Head(responses)
         res == IF n.op = "validate" THEN complete_validate(seg, n.result)
                                     ELSE complete_update(seg, n.result)
     IN  /\ seg' = res.seg
         /\ failed' = (res.raised \/ ~(res.seg.old_readers \subseteq known))
         /\ cmd_to_builder(res.cmd)
         /\ IF failed' THEN UNCHANGED <<inbox, outstanding>>
            ELSE notify_readers(res.seg.old_readers, Update(res.seg))
  /\ responses' = Tail(responses)
  /\ UNCHANGED <<known, working, dataVars, life, joins, leaves, acks, mapped>>

(* _mod_command_handler, segment_info_update_ack: only the last of the     *)
(* outstanding acknowledgements synchronizes the reader; exceptions are    *)
(* logged.                                                                 *)
SegmentInfoUpdateAck(r) ==
  /\ ~failed /\ acks[r] > 0
  /\ acks' = [acks EXCEPT ![r] = @ - 1]
  /\ IF r \in known /\ outstanding[r] > 0
     THEN /\ outstanding' = [outstanding EXCEPT ![r] = @ - 1]
          /\ IF outstanding[r] = 1
             THEN LET res == sync_reader(seg, r)
                  IN  seg' = res.seg /\ cmd_to_builder(res.cmd)
             ELSE UNCHANGED <<seg, commands>>
     ELSE UNCHANGED <<outstanding, seg, commands>>
  /\ UNCHANGED <<known, failed, working, responses, dataVars,
                 life, joins, leaves, inbox, mapped>>

(* Fault: a new reader waits for the next change of the segment. *)
ReaderSubscribed_untold(r) ==
  /\ ~failed /\ r \in joins
  /\ joins' = joins \ {r}
  /\ known' = known \cup {r}
  /\ seg' = add_reader(seg, r).seg
  /\ UNCHANGED <<outstanding, failed, builderVars, dataVars,
                 life, leaves, inbox, acks, mapped>>

(* __update_reader, subscribed: a new reader is told the segment at once   *)
(* if it is loaded.                                                        *)
ReaderSubscribed(r) ==
  /\ ~failed /\ r \in joins
  /\ joins' = joins \ {r}
  /\ IF r \in known THEN UNCHANGED <<known, seg, inbox, outstanding>>
     ELSE LET res == add_reader(seg, r)
          IN  /\ known' = known \cup {r}
              /\ seg' = res.seg
              /\ IF ~res.raised /\ loaded(seg)
                 THEN notify_readers({r}, Update(seg))
                 ELSE UNCHANGED <<inbox, outstanding>>
  /\ UNCHANGED <<failed, builderVars, dataVars, life, leaves, acks, mapped>>

(* __update_reader, unsubscribed: an exception of remove_reader() is       *)
(* logged by _reader_notification, with the reader already forgotten.      *)
ReaderUnsubscribed(r) ==
  /\ ~failed /\ r \in leaves /\ r \notin joins
  /\ leaves' = leaves \ {r}
  /\ IF r \notin known THEN UNCHANGED <<known, outstanding, seg, commands>>
     ELSE LET res == remove_reader(seg, r)
          IN  /\ known' = known \ {r}
              /\ outstanding' = [outstanding EXCEPT ![r] = 0]
              /\ seg' = res.seg
              /\ cmd_to_builder(res.cmd)
  /\ UNCHANGED <<failed, working, responses, dataVars,
                 life, joins, inbox, acks, mapped>>

(* __update_zone, for a zone_updated notification or a loadzone command *)
UpdateZone(z) ==
  /\ ~failed /\ unnoticed[z] > 0
  /\ unnoticed' = [unnoticed EXCEPT ![z] = @ - 1]
  /\ LET res == start_update(add_event(seg, [op |-> "load", arg |-> z]))
     IN  seg' = res.seg /\ cmd_to_builder(res.cmd)
  /\ UNCHANGED <<known, outstanding, failed, working, responses,
                 file, content, source, readerVars>>

-----------------------------------------------------------------------------
(* Builder thread.  Without cancellation the two queues of run() act as    *)
(* one: commands are executed in the order they were given.                *)

BuilderIdle == working = None /\ commands # <<>>

(* __handle_validate with _validate_mapped_segment_file *)
BuilderValidate ==
  /\ BuilderIdle /\ Head(commands).op = "validate"
  /\ LET v == Head(commands).arg
     IN  responses' = Append(responses,
           [op |-> "validate",
            result |-> IF v = None THEN FALSE ELSE file[v] # "absent"])
  /\ commands' = Tail(commands)
  /\ UNCHANGED <<memmgrVars, working, dataVars, readerVars>>

NewLoad(v, zone) ==
  [ver |-> v, zone |-> zone, todo |-> IF zone = None THEN Zones ELSE {zone},
   errors |-> FALSE]

(* _handle_load up to the point where the writer version is open for       *)
(* update.  The builder thread reads the version from the shared           *)
(* SegmentInfo object.  A missing file is created by the attempt to open   *)
(* it; a broken one (partial: its checksum does not match) is replaced by  *)
(* a new one, which then gets all the zones.                               *)
BuilderOpen ==
  /\ BuilderIdle /\ Head(commands).op = "load"
  /\ LET v == get_reset_param_writer(seg)
         created == file[v] = "partial"
     IN  /\ working' = NewLoad(v, IF created THEN None ELSE Head(commands).arg)
         /\ file' = [file EXCEPT ![v] = "partial"]
         /\ content' = IF file[v] = "complete" THEN content
                       ELSE [content EXCEPT ![v] = [z \in Zones |-> NoData]]
  /\ commands' = Tail(commands)
  /\ UNCHANGED <<memmgrVars, responses, source, unnoticed, readerVars>>

(* _handle_load when __reset_segment can neither open nor create the file *)
BuilderOpenFails ==
  /\ ResetMayFail
  /\ BuilderIdle /\ Head(commands).op = "load"
  /\ commands' = Tail(commands)
  /\ responses' = Append(responses, [op |-> "load", result |-> FALSE])
  /\ UNCHANGED <<memmgrVars, working, dataVars, readerVars>>

(* _handle_load's loop over the zones, with __do_load_zone.  A zone that   *)
(* fails to load keeps its data; when all zones are loaded it may instead  *)
(* become an empty zone (catch_load_error).                                *)
BuilderLoadZone(z) ==
  /\ working # None /\ z \in working.todo
  /\ \E ok \in IF LoadMayFail THEN BOOLEAN ELSE {TRUE} :
       /\ working' = [working EXCEPT !.todo = @ \ {z}, !.errors = @ \/ ~ok]
       /\ \E d \in IF ok THEN {source[z]}
                 ELSE {content[working.ver][z]}
                        \cup (IF working.zone = None THEN {NoData} ELSE {}) :
            content' = [content EXCEPT ![working.ver][z] = d]
  /\ UNCHANGED <<memmgrVars, commands, responses, file, source, unnoticed,
                 readerVars>>

(* The end of _handle_load: the file is closed for update.  Only a failure *)
(* to load a single zone is reported.                                      *)
BuilderClose ==
  /\ working # None /\ working.todo = {}
  /\ file' = [file EXCEPT ![working.ver] = "complete"]
  /\ responses' = Append(responses, [op |-> "load",
                     result |-> working.zone = None \/ ~working.errors])
  /\ working' = None
  /\ UNCHANGED <<memmgrVars, commands, content, source, unnoticed, readerVars>>

-----------------------------------------------------------------------------
(* Readers: bundy-auth, whose threads handle one message at a time in the  *)
(* order of arrival and acknowledge it afterwards.                         *)

(* AuthSrv::listsReconfigured subscribes the connection to SegmentReader. *)
Subscribe(r) ==
  /\ life[r] = "new"
  /\ life' = [life EXCEPT ![r] = "subscribed"]
  /\ joins' = joins \cup {r}
  /\ UNCHANGED <<memmgrVars, builderVars, dataVars, leaves, inbox, acks, mapped>>

(* Fault: messages are not handled in the order of arrival. *)
SegmentUpdate_last(r) ==
  /\ life[r] = "subscribed" /\ inbox[r] # <<>>
  /\ LET n == Len(inbox[r])
         m == inbox[r][n]
     IN  /\ mapped' = IF m.inuse_only /\ mapped[r] = None THEN mapped
                      ELSE [mapped EXCEPT ![r] = m.file]
         /\ inbox' = [inbox EXCEPT ![r] = SubSeq(@, 1, n - 1)]
  /\ acks' = [acks EXCEPT ![r] = @ + 1]
  /\ UNCHANGED <<memmgrVars, builderVars, dataVars, life, joins, leaves>>

(* doSegmentUpdate and resetSegment, then the acknowledgement *)
SegmentUpdate(r) ==
  /\ life[r] = "subscribed" /\ inbox[r] # <<>>
  /\ LET m == Head(inbox[r])
     IN  mapped' = IF m.inuse_only /\ mapped[r] = None THEN mapped
                   ELSE [mapped EXCEPT ![r] = m.file]
  /\ inbox' = [inbox EXCEPT ![r] = Tail(@)]
  /\ acks' = [acks EXCEPT ![r] = @ + 1]
  /\ UNCHANGED <<memmgrVars, builderVars, dataVars, life, joins, leaves>>

(* The reader stops using shared segments, or its process ends.           *)
Unsubscribe(r) ==
  /\ life[r] = "subscribed"
  /\ life' = [life EXCEPT ![r] = "gone"]
  /\ leaves' = leaves \cup {r}
  /\ mapped' = [mapped EXCEPT ![r] = None]
  /\ inbox' = [inbox EXCEPT ![r] = <<>>]
  /\ UNCHANGED <<memmgrVars, builderVars, dataVars, joins, acks>>

(* A zone changes in the data source and memmgr will be notified of it.   *)
SourceChanges(z) ==
  /\ source[z] < FirstData + MaxUpdates
  /\ source' = [source EXCEPT ![z] = @ + 1]
  /\ unnoticed' = [unnoticed EXCEPT ![z] = @ + 1]
  /\ UNCHANGED <<memmgrVars, builderVars, file, content, readerVars>>

-----------------------------------------------------------------------------
(* memmgr starts.  Files of an earlier life may exist: the versions file,  *)
(* if it was readable, names a complete reader version (vknown).  Readers  *)
(* that subscribed earlier may still have a complete file mapped.  They    *)
(* are found by the members request of _setup_module; _init_segments adds  *)
(* them and queues the initial commands.                                   *)
Init ==
  \E rver \in Versions, vknown \in BOOLEAN, old \in SUBSET Readers :
    LET varg(v) == IF vknown THEN v ELSE None
        s0 == start_validate([NewSegment(rver, 1 - rver) EXCEPT !.readers = old])
    IN  /\ ~vknown => rver = 0
        /\ seg = add_event(add_event(s0.seg,
                   [op |-> "validate", arg |-> varg(1 - rver)]),
                   [op |-> "load", arg |-> None])
        /\ commands = <<[op |-> "validate", arg |-> varg(rver)]>>
        /\ file \in [Versions -> FileStates]
        /\ vknown => file[rver] = "complete"
        /\ known = old
        /\ life = [r \in Readers |-> IF r \in old THEN "subscribed" ELSE "new"]
        /\ mapped \in [Readers -> Versions \cup {None}]
        /\ \A r \in Readers : mapped[r] # None =>
             r \in old /\ file[mapped[r]] = "complete"
        /\ content = [v \in Versions |-> [z \in Zones |->
             IF file[v] = "complete" THEN OldData ELSE NoData]]
        /\ outstanding = [r \in Readers |-> 0]
        /\ failed = FALSE
        /\ working = None /\ responses = <<>>
        /\ source = [z \in Zones |-> FirstData]
        /\ unnoticed = [z \in Zones |-> 0]
        /\ joins = {} /\ leaves = {}
        /\ inbox = [r \in Readers |-> <<>>] /\ acks = [r \in Readers |-> 0]

ReaderNext(r) ==
  Subscribe(r) \/ SegmentUpdate(r) \/ Unsubscribe(r)

MainNext ==
  \/ NotifyFromBuilder
  \/ \E r \in Readers :
       SegmentInfoUpdateAck(r) \/ ReaderSubscribed(r) \/ ReaderUnsubscribed(r)
  \/ \E z \in Zones : UpdateZone(z)

BuilderNext ==
  \/ BuilderValidate
  \/ BuilderOpen
  \/ BuilderOpenFails
  \/ \E z \in Zones : BuilderLoadZone(z)
  \/ BuilderClose

Next ==
  \/ MainNext
  \/ BuilderNext
  \/ \E r \in Readers : ReaderNext(r)
  \/ \E z \in Zones : SourceChanges(z)

Spec == Init /\ [][Next]_vars

(* Each thread and each process keeps running: the main loop serves every  *)
(* input it selects on, the builder thread works while it has commands,    *)
(* and a subscribed reader handles its messages.  Nobody has to subscribe, *)
(* to leave or to change a zone.                                           *)
Fairness ==
  /\ WF_vars(NotifyFromBuilder)
  /\ \A r \in Readers : /\ WF_vars(SegmentInfoUpdateAck(r))
                        /\ WF_vars(ReaderSubscribed(r))
                        /\ WF_vars(ReaderUnsubscribed(r))
                        /\ WF_vars(SegmentUpdate(r))
  /\ \A z \in Zones : WF_vars(UpdateZone(z))
  /\ WF_vars(BuilderNext)

FairSpec == Spec /\ Fairness

-----------------------------------------------------------------------------
(* Properties *)

SegmentType ==
  [state : States, readers : SUBSET Readers, old_readers : SUBSET Readers,
   events : Seq(Command), loaded : 0..LoadedCap,
   reader_ver : Versions, writer_ver : Versions,
   reader_file_validated : BOOLEAN]

(* The type invariant of the protocol's state. *)
TypeOK ==
  /\ seg \in SegmentType
  /\ known \subseteq Readers
  /\ outstanding \in [Readers -> Nat]
  /\ failed \in BOOLEAN
  /\ commands \in Seq(Command)
  /\ working \in Load \cup {None}
  /\ responses \in Seq(Response)
  /\ file \in [Versions -> FileStates]
  /\ content \in [Versions -> [Zones -> Nat]]
  /\ source \in [Zones -> Nat]
  /\ unnoticed \in [Zones -> Nat]
  /\ life \in [Readers -> {"new", "subscribed", "gone"}]
  /\ joins \subseteq Readers
  /\ leaves \subseteq Readers
  /\ inbox \in [Readers -> Seq(Message)]
  /\ acks \in [Readers -> Nat]
  /\ mapped \in [Readers -> Versions \cup {None}]

(* While the builder thread has a version of the mapped file open for      *)
(* update (between the two resets of _handle_load), no reader has that     *)
(* version mapped, however slowly readers acknowledge and whoever          *)
(* subscribes or leaves in the meantime.                                   *)
NoWriteWhileMapped ==
  working # None => \A r \in Readers : mapped[r] # working.ver

(* What a reader has mapped is a file whose update was finished; resetting *)
(* to any other file makes bundy-auth terminate.                           *)
MappedFileComplete ==
  \A r \in Readers : mapped[r] # None => file[mapped[r]] = "complete"

(* Every segment_info_update names either no file or one that exists and   *)
(* is complete for as long as the message is in flight.                    *)
UpdatesNameUsableFile ==
  \A r \in Readers : \A i \in DOMAIN inbox[r] :
    inbox[r][i].file # None => file[inbox[r][i].file] = "complete"

(* The builder's answers always find the SegmentInfo in a state that       *)
(* accepts them, and every reader to be notified is a known one: no        *)
(* exception leaves _notify_from_builder and ends memmgr.                  *)
NeverFails == ~failed

InFlight == Len(commands) + Len(responses) + (IF working = None THEN 0 ELSE 1)

(* The main thread waits for the builder exactly when one command or       *)
(* response is on its way: none is lost, so the segment never waits for an *)
(* answer that will not come, and two updates never overlap.               *)
OneCommandInFlight ==
  InFlight = IF seg.state \in {"R_VALIDATING", "W_VALIDATING", "UPDATING",
                               "COPYING"} THEN 1 ELSE 0

(* A reader the main thread still waits for is one that has been told, and *)
(* whose answer or departure is on its way; the exception is a reader that *)
(* was forgotten while it was waited for.                                  *)
WaitsForAnswer ==
  \A r \in seg.old_readers \cap known :
    \/ life[r] = "subscribed" /\ outstanding[r] = Len(inbox[r]) + acks[r]
                              /\ outstanding[r] > 0
    \/ life[r] = "gone" /\ r \in leaves

Quiet == seg.state = "READY" /\ seg.events = <<>>
           /\ \A z \in Zones : unnoticed[z] = 0

(* When a segment is at rest, both versions of the file hold the latest    *)
(* data of every zone: updates that arrive in any state, during the        *)
(* initial load included, reach both versions.                             *)
ReadyIsCurrent ==
  Quiet => \A v \in Versions, z \in Zones : content[v][z] = source[z]

(* Every reader of a segment is still subscribed as far as memmgr knows:   *)
(* remove_reader() takes a leaving reader out of "wherever the reader      *)
(* belonged".                                                              *)
UnsubscribedIsRemoved == seg.readers \cup seg.old_readers \subseteq known

(* Event e of the queue is a load of zone z, alone or with all others. *)
Covers(e, z) == e.op = "load" /\ e.arg \in {z, None}

(* A change of zone z is still to be loaded into the version the readers   *)
(* use: memmgr has not been notified of it, or its event is queued.  In    *)
(* SYNCHRONIZING the first event has reached that version already.         *)
Waiting(z) ==
  \/ unnoticed[z] > 0
  \/ \E i \in 1..Len(seg.events) :
       Covers(seg.events[i], z) /\ (i = 1 => seg.state # "SYNCHRONIZING")

(* A reader that moves to another version of the file never goes back to   *)
(* older data of a zone, unless a change of that zone is waiting, whose    *)
(* load will repair it: the second copy of an earlier load may have read   *)
(* newer data than the first, and updates of other zones switch versions.  *)
NoDataRegression ==
  [][\A r \in Readers, z \in Zones :
       mapped[r] # None /\ mapped'[r] # None /\ ~Waiting(z)
         => content'[mapped'[r]][z] >= content[mapped[r]][z]]_vars

(* Once the data source stops changing, the segment comes to rest with     *)
(* everything loaded, unless a reader was forgotten while it was waited    *)
(* for.                                                                    *)
EventuallyQuiet == <>[](Quiet \/ ~UnsubscribedIsRemoved)

(* Under the same fairness, every reader that stays subscribed ends up     *)
(* with the current version mapped, with the same exception.               *)
EventuallyServed ==
  \A r \in Readers :
    <>[](\/ life[r] # "subscribed"
         \/ mapped[r] = seg.reader_ver /\ inbox[r] = <<>>
         \/ ~UnsubscribedIsRemoved)
=============================================================================
