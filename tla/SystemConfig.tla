---------------------------- MODULE SystemConfig ----------------------------
(***************************************************************************)
(* SystemConfig (SystemConfig.hpp): the config file that is made from a    *)
(* template when it is missing, and the threads that ask for a parameter,  *)
(* over crashes and restarts of the process, while the host edits, deletes *)
(* and restores the file.                                                  *)
(*                                                                         *)
(* A file's content is its kind.  fs::copy without options creates the     *)
(* file, and fails when there is one; then it writes it, in one call for a *)
(* file of this size.  A host's edit replaces the file, as editors do, so  *)
(* a copy under way goes on with a file that has no name any more.         *)
(***************************************************************************)
EXTENDS FiniteSets

CONSTANTS
  Threads,   \* that call get_parameter_value_str
  NoThread

ASSUME ConfigAssumption == NoThread \notin Threads

VARIABLES
  config,            \* config.json
  template,          \* config.default.json is there
  conf_file_exist_,  \* the process found or made config.json
  thread,            \* where each call is
  writer,            \* the thread that created config.json and has not written it
  deleted            \* the host deleted config.json in this process's life

vars == <<config, template, conf_file_exist_, thread, writer, deleted>>

\* empty: created by a copy, and not written; default: the template's content;
\* edited: the host's; broken: the host's, and no JSON.
Contents == {"absent", "empty", "default", "edited", "broken"}
Whole    == {"default", "edited"}

\* idle; the flag read and not set; no file found; the template found; the file
\* created; the file found or made; what the call returned or threw last.
Thrown == {"no_template", "copy_failed", "not_open", "parse_error"}
Places == {"idle", "unknown", "missing", "copy", "write", "open", "value"} \cup Thrown

Init ==
  /\ config \in {"absent", "edited"}
  /\ template \in BOOLEAN
  /\ conf_file_exist_ = FALSE
  /\ thread = [t \in Threads |-> "idle"]
  /\ writer = NoThread
  /\ deleted = FALSE

-----------------------------------------------------------------------------
(* The host, and the process as a whole. *)

\* An edit replaces the file: what a copy under way still writes, nobody sees.
HostPuts(content) ==
  /\ config # content
  /\ config' = content
  /\ writer' = NoThread
  /\ deleted' = (deleted \/ content = "absent")
  /\ UNCHANGED <<template, conf_file_exist_, thread>>

HostEdits   == HostPuts("edited")
HostBreaks  == HostPuts("broken")
HostDeletes == HostPuts("absent")

HostMovesTemplate ==
  /\ template' = ~template
  /\ UNCHANGED <<config, conf_file_exist_, thread, writer, deleted>>

\* The process ends at any point, and another one starts.
Restart ==
  /\ conf_file_exist_' = FALSE
  /\ thread' = [t \in Threads |-> "idle"]
  /\ writer' = NoThread
  /\ deleted' = FALSE
  /\ UNCHANGED <<config, template>>

-----------------------------------------------------------------------------
(* get_parameter_value_str. *)

Goes(t, from, to) ==
  /\ thread[t] = from
  /\ thread' = [thread EXCEPT ![t] = to]

\* The call begins; with the flag set it goes straight to the file.
Call(t) ==
  /\ thread[t] \in {"idle", "value"} \cup Thrown
  /\ thread' = [thread EXCEPT ![t] = IF conf_file_exist_ THEN "open" ELSE "unknown"]
  /\ UNCHANGED <<config, template, conf_file_exist_, writer, deleted>>

\* Mutant: the flag is set before there is a file.
config_json_is_exist_early(t) ==
  /\ Goes(t, "unknown", IF config = "absent" THEN "missing" ELSE "open")
  /\ conf_file_exist_' = TRUE
  /\ UNCHANGED <<config, template, writer, deleted>>

config_json_is_exist(t) ==
  /\ Goes(t, "unknown", IF config = "absent" THEN "missing" ELSE "open")
  /\ conf_file_exist_' = (conf_file_exist_ \/ config # "absent")
  /\ UNCHANGED <<config, template, writer, deleted>>

FindTemplate(t) ==
  /\ Goes(t, "missing", IF template THEN "copy" ELSE "no_template")
  /\ UNCHANGED <<config, template, conf_file_exist_, writer, deleted>>

\* Mutant: fs::copy with overwrite_existing.
CopyCreates_overwrites(t) ==
  /\ Goes(t, "copy", IF template THEN "write" ELSE "copy_failed")
  /\ config' = IF template THEN "empty" ELSE config
  /\ writer' = IF template THEN t ELSE writer
  /\ UNCHANGED <<template, conf_file_exist_, deleted>>

\* fs::copy opens the template and creates the file, if nobody else has.
CopyCreates(t) ==
  /\ Goes(t, "copy", IF template /\ config = "absent" THEN "write" ELSE "copy_failed")
  /\ IF template /\ config = "absent" THEN config' = "empty" /\ writer' = t
                                      ELSE UNCHANGED <<config, writer>>
  /\ UNCHANGED <<template, conf_file_exist_, deleted>>

\* Mutant: the copy opens the file by its name again.
CopyWrites_by_name(t) ==
  /\ Goes(t, "write", "open")
  /\ config' = "default"
  /\ conf_file_exist_' = TRUE
  /\ UNCHANGED <<template, writer, deleted>>

CopyWrites(t) ==
  /\ Goes(t, "write", "open")
  /\ IF writer = t THEN config' = "default" /\ writer' = NoThread
                   ELSE UNCHANGED <<config, writer>>
  /\ conf_file_exist_' = TRUE
  /\ UNCHANGED <<template, deleted>>

ReadAndParse(t) ==
  /\ Goes(t, "open", CASE config = "absent" -> "not_open"
                       [] config \in {"empty", "broken"} -> "parse_error"
                       [] config \in Whole -> "value")
  /\ UNCHANGED <<config, template, conf_file_exist_, writer, deleted>>

get_parameter_value_str(t) ==
  \/ config_json_is_exist(t) \/ FindTemplate(t) \/ CopyCreates(t) \/ CopyWrites(t)
  \/ ReadAndParse(t)

Host == HostEdits \/ HostBreaks \/ HostDeletes \/ HostMovesTemplate

Next ==
  \/ Host \/ Restart
  \/ \E t \in Threads : Call(t) \/ get_parameter_value_str(t)

Spec == Init /\ [][Next]_vars

\* Somebody keeps asking for parameters, and every call goes on.
FairSpec ==
  /\ Spec
  /\ \A t \in Threads : WF_vars(Call(t)) /\ WF_vars(get_parameter_value_str(t))

-----------------------------------------------------------------------------
(* Properties. *)

\* Type invariant.
TypeOK ==
  /\ config \in Contents
  /\ template \in BOOLEAN /\ conf_file_exist_ \in BOOLEAN /\ deleted \in BOOLEAN
  /\ thread \in [Threads -> Places]
  /\ writer \in Threads \cup {NoThread}
  /\ writer # NoThread => config = "empty" /\ thread[writer] = "write"

\* No call changes a file that is there and written, the host's least of all,
\* whenever the host put it there between the check and the copy.
FilesSurvive ==
  [][(\E t \in Threads : get_parameter_value_str(t)) /\ config \in Whole \cup {"broken"}
       => config' = config]_vars

\* Once the host and the crashes leave the files alone and the template is there,
\* the config is made, by whichever thread and after whatever failures, unless
\* the host's own file is no JSON, the host deleted the file and the process still
\* believes in it, or a crash cut the copy short.
ConfigIsMade ==
  <>[][~Host /\ ~Restart]_vars /\ <>[]template =>
    <>[](\/ config \in Whole \cup {"broken"}
         \/ config = "absent" /\ deleted /\ conf_file_exist_
         \/ config = "empty" /\ writer = NoThread)

=============================================================================
