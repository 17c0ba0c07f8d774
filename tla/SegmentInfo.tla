---------------------------- MODULE SegmentInfo ----------------------------
(***************************************************************************)
(* The SegmentInfo object of bundy-memmgr, with its MappedSegmentInfo      *)
(* subclass (src/lib/python/bundy/memmgr/datasrc_info.py).                 *)
(*                                                                         *)
(* A SegmentInfo is the main thread's book-keeping for one pair of mapped  *)
(* memory files (versions 0 and 1): which version the readers are told to  *)
(* use, which one the builder thread may write, which readers have         *)
(* acknowledged the current version, and what is to be loaded next.  The   *)
(* object is a record; a method is an operator from the object (and its    *)
(* arguments) to                                                           *)
(*                                                                         *)
(*    [seg    |-> the object after the call,                               *)
(*     cmd    |-> the builder command the call returns, or None,           *)
(*     raised |-> whether the call raised an exception]                    *)
(*                                                                         *)
(* A definition marked "Fault" is a wrong version of the one that follows  *)
(* it: no specification uses it, and putting it in the place of the right  *)
(* one shows which property would notice the mistake.                      *)
(***************************************************************************)
EXTENDS Naturals, Sequences

CONSTANT None       \* Python's None

-----------------------------------------------------------------------------
(* The states of a segment; INIT is left within the constructor's caller.  *)

States == {"INIT", "R_VALIDATING", "V_SYNCHRONIZING", "W_VALIDATING",
           "UPDATING", "SYNCHRONIZING", "COPYING", "SYNCHRONIZING2", "READY"}

SyncStates == {"V_SYNCHRONIZING", "SYNCHRONIZING", "SYNCHRONIZING2"}

Versions == {0, 1}

(* The code compares the number of completed loads with 1 and 2 only, so   *)
(* counting saturates just above.                                          *)
LoadedCap == 3

(* __init__: rver and wver are the versions the versions file names, or    *)
(* the defaults 0 and 1.                                                   *)
NewSegment(rver, wver) ==
  [state |-> "INIT", readers |-> {}, old_readers |-> {}, events |-> <<>>,
   loaded |-> 0, reader_ver |-> rver, writer_ver |-> wver,
   reader_file_validated |-> FALSE]

Returns(s, c) == [seg |-> s, cmd |-> c, raised |-> FALSE]
Raises(s) == [seg |-> s, cmd |-> None, raised |-> TRUE]

-----------------------------------------------------------------------------
add_event(s, e) == [s EXCEPT !.events = Append(@, e)]

loaded(s) == s.loaded >= 2

(* Fault: the file is named before it is known to be usable. *)
get_reset_param_reader_unchecked(s) == s.reader_ver

(* The mapped file a reader is told to open: None unless the reader        *)
(* version is known to be usable.                                          *)
get_reset_param_reader(s) ==
  IF s.reader_file_validated THEN s.reader_ver ELSE None

(* Fault: the two versions are confused. *)
get_reset_param_writer_swapped(s) == s.reader_ver

get_reset_param_writer(s) == s.writer_ver

(* Fault: the event is popped, so that it is not there to be copied. *)
start_update_pops(s) ==
  IF s.state = "READY" /\ s.events # <<>>
  THEN Returns([s EXCEPT !.state = "UPDATING", !.events = Tail(@)], Head(s.events))
  ELSE Returns(s, None)

(* Fault: an update starts in any state. *)
start_update_any_state(s) ==
  IF s.events # <<>>
  THEN Returns([s EXCEPT !.state = "UPDATING"], Head(s.events))
  ELSE Returns(s, None)

start_update(s) ==
  IF s.state = "READY" /\ s.events # <<>>
  THEN Returns([s EXCEPT !.state = "UPDATING"], Head(s.events))
  ELSE Returns(s, None)

check_on_ready(s) == start_update([s EXCEPT !.state = "READY"])

sync_reader_helper(s) ==
  IF s.old_readers # {} THEN Returns(s, None)
  ELSE IF s.state = "SYNCHRONIZING2" THEN check_on_ready(s)
  ELSE LET next == IF s.state = "SYNCHRONIZING" THEN "COPYING"
                                                ELSE "W_VALIDATING"
       IN  IF s.events # <<>>
           THEN Returns([s EXCEPT !.state = next, !.events = Tail(@)],
                        Head(s.events))
           ELSE Returns([s EXCEPT !.state = next], None)

(* The four lines that enter a synchronizing state: every reader of the    *)
(* current version becomes a reader of the old one.                        *)
start_sync(s, st) ==
  sync_reader_helper([s EXCEPT !.state = st, !.old_readers = s.readers,
                               !.readers = {}])

-----------------------------------------------------------------------------
add_reader(s, r) ==
  IF r \in s.readers THEN Raises(s)
  ELSE Returns([s EXCEPT !.readers = @ \cup {r}], None)

start_validate(s) ==
  IF s.state # "INIT" THEN Raises(s)
  ELSE Returns([s EXCEPT !.state = "R_VALIDATING"], None)

complete_validate(s, validated) ==
  CASE s.state = "R_VALIDATING" ->
         start_sync([s EXCEPT !.reader_file_validated = validated \/ @],
                    "V_SYNCHRONIZING")
    [] s.state = "W_VALIDATING" /\ s.events # <<>> ->
         Returns([s EXCEPT !.state = "UPDATING"], Head(s.events))
    [] OTHER -> Raises(s)

(* Fault: the version does not wrap around. *)
switch_versions_no_wrap(s) ==
  [s EXCEPT !.reader_ver = 1 + @, !.writer_ver = 1 - @,
            !.reader_file_validated = TRUE]

switch_versions(s) ==
  [s EXCEPT !.reader_ver = 1 - @, !.writer_ver = 1 - @,
            !.reader_file_validated = TRUE]

complete_update(s, succeeded) ==
  LET n == IF s.loaded < LoadedCap THEN s.loaded + 1 ELSE s.loaded
      t == [s EXCEPT !.loaded = n]
  IN  CASE s.state = "UPDATING" /\ (succeeded \/ n = 1) ->
             start_sync(switch_versions(t), "SYNCHRONIZING")
        [] s.state = "UPDATING" /\ ~(succeeded \/ n = 1) /\ t.events # <<>> ->
             check_on_ready([t EXCEPT !.events = Tail(@)])
        [] s.state = "COPYING" /\ n = 2 -> start_sync(t, "SYNCHRONIZING2")
        [] s.state = "COPYING" /\ n # 2 -> check_on_ready(t)
        [] OTHER -> Raises(t)

sync_reader(s, r) ==
  IF s.state \notin SyncStates THEN Returns(s, None)
  ELSE IF r \notin s.old_readers \/ r \in s.readers THEN Raises(s)
  ELSE sync_reader_helper([s EXCEPT !.old_readers = @ \ {r},
                                    !.readers = @ \cup {r}])

(* Fault: nobody looks whether the last old reader has left. *)
remove_reader_unnoticed(s, r) ==
  Returns([s EXCEPT !.readers = @ \ {r}, !.old_readers = @ \ {r}], None)

(* Fault: a reader that leaves while it is waited for is kept. *)
remove_reader_keeps(s, r) ==
  IF r \in s.readers THEN Returns(s, None) ELSE Raises(s)

(* The assertion of remove_reader() admits two of the three synchronizing  *)
(* states.                                                                 *)
remove_reader(s, r) ==
  IF r \in s.old_readers
  THEN IF s.state \in {"V_SYNCHRONIZING", "SYNCHRONIZING"}
       THEN sync_reader_helper([s EXCEPT !.old_readers = @ \ {r}])
       ELSE Raises(s)
  ELSE IF r \in s.readers THEN Returns([s EXCEPT !.readers = @ \ {r}], None)
  ELSE Raises(s)
=============================================================================
