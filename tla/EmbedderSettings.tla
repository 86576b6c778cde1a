--------------------------- MODULE EmbedderSettings ---------------------------
(***************************************************************************)
(* The embedder settings: one row (semantic_settings), the configuration   *)
(* the web process runs with, and the forms that show and save them        *)
(* (mailarc_ui/embedder/state.py, reads.py; SemanticSettingsRepository;    *)
(* app/composition.py).  The row's timestamp is each form's baseline.      *)
(*                                                                         *)
(* Every handler is a background task: it holds its form only while it     *)
(* assigns, never while it reads or writes.  The four settings are one     *)
(* value: 0 is the configuration file's, n the n-th save's.  Writes are    *)
(* taken to be a second apart, the resolution of the timestamp.            *)
(***************************************************************************)
EXTENDS Integers

CONSTANTS
    Form,         \* open settings pages
    Task,         \* bound: background handlers under way, of all pages
    None,
    MaxWrites     \* bound: transactions on the row

ASSUME SettingsAssumption ==
    /\ MaxWrites \in Nat
    /\ None \notin Nat \cup Form /\ None \notin [value : Nat, stamp : Nat]

VARIABLES
    row,          \* None, or the stored value and its timestamp
    config,       \* the value in force in the web process
    form,         \* per form: what it shows, its baseline and its flags
    task,         \* per task: the handler it runs and what that has read
    writes,
    lost          \* history: a save replaced what its form had not shown

vars == <<row, config, form, task, writes, lost>>

(* whole: the reading on the form is one of the row its baseline names.    *)
Shown == [value |-> 0, base |-> None, whole |-> FALSE]
Fresh == [shown |-> Shown, saving |-> FALSE, loading |-> TRUE]
Idle  == [pc |-> "idle", kind |-> None, form |-> None, shown |-> Shown, value |-> 0]

Stamp == IF row = None THEN None ELSE row.stamp
Value == IF row = None THEN 0 ELSE row.value

Init ==
    /\ row \in {None, [value |-> 0, stamp |-> 0]} /\ config = 0
    /\ form = [f \in Form |-> Fresh] /\ task = [t \in Task |-> Idle]
    /\ writes = 0 /\ lost = FALSE

Put(t, h)    == task' = [task EXCEPT ![t] = h]
At(t, pc)    == task[t].pc = pc
Goto(t, pc)  == Put(t, [task[t] EXCEPT !.pc = pc])
Written(t)   == Put(t, [task[t] EXCEPT !.pc = "reload", !.shown = Shown])
Finish(t)    == Put(t, Idle)
Mine(t)      == task[t].form
Set(f, p)    == form' = [form EXCEPT ![f] = p]

Begin(t, kind, f, pc) ==
    /\ At(t, "idle")
    /\ Put(t, [Idle EXCEPT !.pc = pc, !.kind = kind, !.form = f,
                           !.shown = IF kind = "save" THEN form[f].shown ELSE Shown])

-----------------------------------------------------------------------------
(* What a person does.                                                     *)

(* load: on entering the page, and the Reload button.                      *)
Load(t, f) ==
    /\ Begin(t, "load", f, "config")
    /\ Set(f, [form[f] EXCEPT !.loading = TRUE])
    /\ UNCHANGED <<row, config, writes, lost>>

(* The press of a writing control: the baseline goes with it as it is now. *)
Press(t, f) ==
    /\ ~form[f].saving /\ writes < MaxWrites
    /\ \E kind \in {"save", "clear", "reset"} :
          /\ kind = "save" => ~form[f].loading
          /\ Begin(t, kind, f, "write")
    /\ Set(f, [form[f] EXCEPT !.saving = TRUE])
    /\ UNCHANGED <<row, config, writes, lost>>

(* poll: an embed job the page followed has ended, and _recount reads.     *)
JobEnded(t, f) ==
    /\ Begin(t, "recount", f, "config")
    /\ UNCHANGED <<row, config, form, writes, lost>>

-----------------------------------------------------------------------------
(* The transactions on the row.                                            *)

Commits(value) ==
    /\ writes' = writes + 1
    /\ row' = [value |-> value, stamp |-> writes + 1]

(* store's test: a form that read no row asks for nothing.                 *)
Moved(base) == base # None /\ Stamp # base

\* mutant
SaveWhatever(t) ==
    /\ At(t, "write") /\ task[t].kind = "save" /\ writes < MaxWrites
    /\ Commits(writes + 1)
    /\ LET shown == task[t].shown IN
       lost' = (lost \/ (shown.whole /\ shown.value # Value))
    /\ Written(t)
    /\ UNCHANGED <<config, form>>

(* write_settings, its row still the one the form read.                    *)
Save(t) ==
    /\ At(t, "write") /\ task[t].kind = "save" /\ writes < MaxWrites
    /\ ~Moved(task[t].shown.base)
    /\ Commits(writes + 1)
    /\ LET shown == task[t].shown IN
       lost' = (lost \/ (shown.whole /\ shown.value # Value))
    /\ Written(t)
    /\ UNCHANGED <<config, form>>

(* SettingsChangedElsewhere: nothing is written, and the form is given     *)
(* what is in force now, so that a second press is about that.             *)
Refused(t) ==
    /\ At(t, "write") /\ task[t].kind = "save" /\ Moved(task[t].shown.base)
    /\ Written(t)
    /\ UNCHANGED <<row, config, form, writes, lost>>

(* clear_api_key, and use_configuration_file, which forgets the four       *)
(* settings too.  Neither asks what the row was, and where there was       *)
(* nothing to forget its timestamp does not move.                          *)
Forget(t) ==
    /\ At(t, "write") /\ task[t].kind \in {"clear", "reset"} /\ writes < MaxWrites
    /\ LET left == IF task[t].kind = "reset" THEN 0 ELSE Value IN
       \/ Commits(left)
       \/ row # None /\ left = Value /\ UNCHANGED <<row, writes>>
    /\ Written(t)
    /\ UNCHANGED <<config, form, lost>>

(* The write raises: the form keeps what it shows.                         *)
WriteFails(t) ==
    /\ At(t, "write")
    /\ Finish(t)
    /\ Set(Mine(t), [form[Mine(t)] EXCEPT !.saving = FALSE])
    /\ UNCHANGED <<row, config, writes, lost>>

-----------------------------------------------------------------------------
(* _adopt: the process takes the row over, then the form is read again.    *)

(* load_semantic_config's read.                                            *)
Reload(t) ==
    /\ At(t, "reload")
    /\ Put(t, [task[t] EXCEPT !.pc = "adopt", !.value = Value])
    /\ UNCHANGED <<row, config, form, writes, lost>>

(* _adopt_semantic_config.  It may come after a younger one's.             *)
Adopt(t) ==
    /\ At(t, "adopt")
    /\ config' = task[t].value
    /\ Put(t, [task[t] EXCEPT !.pc = "config", !.value = 0])
    /\ UNCHANGED <<row, form, writes, lost>>

(* The reload raises: the form says so, and is read again all the same.    *)
NotAdopted(t) ==
    /\ At(t, "reload")
    /\ Goto(t, "config")
    /\ UNCHANGED <<row, config, form, writes, lost>>

(* _read: the configuration in force first, the row's timestamp later.     *)
ReadConfig(t) ==
    /\ At(t, "config")
    /\ Put(t, [task[t] EXCEPT !.pc = "baseline", !.value = config])
    /\ UNCHANGED <<row, config, form, writes, lost>>

ReadBaseline(t) ==
    /\ At(t, "baseline")
    /\ LET value == task[t].value IN
       Put(t, [task[t] EXCEPT !.pc = "apply", !.value = 0, !.shown =
          [value |-> value, base |-> Stamp, whole |-> row # None /\ value = Value]])
    /\ UNCHANGED <<row, config, form, writes, lost>>

ReadFails(t) ==
    /\ task[t].pc \in {"config", "baseline"}
    /\ Finish(t)
    /\ LET f == Mine(t) IN
       Set(f, IF task[t].kind = "load" THEN [form[f] EXCEPT !.loading = FALSE]
              ELSE IF task[t].kind = "recount" THEN form[f]
              ELSE [form[f] EXCEPT !.saving = FALSE])
    /\ UNCHANGED <<row, config, writes, lost>>

(* _apply: the fields and the baseline, whoever else is under way here.    *)
Apply(t) ==
    /\ At(t, "apply") /\ task[t].kind # "recount"
    /\ Finish(t)
    /\ LET f == Mine(t) IN
       Set(f, [form[f] EXCEPT !.shown = task[t].shown,
                              !.saving = FALSE, !.loading = FALSE])
    /\ UNCHANGED <<row, config, writes, lost>>

(* _recount: the baseline alone.  What somebody is typing stays.           *)
Recount(t) ==
    /\ At(t, "apply") /\ task[t].kind = "recount"
    /\ Finish(t)
    /\ LET f    == Mine(t)
           base == task[t].shown.base
       IN  Set(f, [form[f] EXCEPT !.shown =
              [value |-> form[f].shown.value, base |-> base,
               whole |-> form[f].shown.whole /\ base = form[f].shown.base]])
    /\ UNCHANGED <<row, config, writes, lost>>

Next ==
    \/ \E t \in Task, f \in Form : Load(t, f) \/ Press(t, f) \/ JobEnded(t, f)
    \/ \E t \in Task :
          \/ Save(t) \/ Refused(t) \/ Forget(t) \/ WriteFails(t)
          \/ Reload(t) \/ Adopt(t) \/ NotAdopted(t)
          \/ ReadConfig(t) \/ ReadBaseline(t) \/ ReadFails(t)
          \/ Apply(t) \/ Recount(t)

Spec == Init /\ [][Next]_vars

-----------------------------------------------------------------------------
(* Of two people at two screens, the second to save does not undo what the *)
(* first saved without having been shown it (SettingsChangedElsewhere,     *)
(* repositories.py:89), also when the press, the write and three readings  *)
(* of one page overlap.  It holds of a form whose last reading was of one  *)
(* row: not when there was none yet, when the configuration in force was   *)
(* another than the row's, or once a finished job has moved the baseline   *)
(* under the fields.                                                       *)
NoSilentOverwrite == ~lost
================================================================================
