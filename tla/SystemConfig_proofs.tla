------------------------ MODULE SystemConfig_proofs ------------------------
(***************************************************************************)
(* Proofs about SystemConfig, for any set of threads.                      *)
(***************************************************************************)
EXTENDS SystemConfig, TLAPS

\* A step of a thread that only moves on, and is not the writer between its two
\* steps, disturbs nothing.
LEMMA MovesKeep ==
  ASSUME TypeOK, NEW t \in Threads, NEW from, NEW to \in Places,
         Goes(t, from, to), from # "write",
         UNCHANGED <<config, template, writer, deleted>>,
         conf_file_exist_' \in BOOLEAN
  PROVE  TypeOK'
<1>1. thread' \in [Threads -> Places]
  BY DEF Goes, TypeOK
<1>2. writer' # NoThread => config' = "empty" /\ thread'[writer'] = "write"
  BY DEF Goes, TypeOK
<1> QED
  BY <1>1, <1>2 DEF TypeOK

LEMMA ConfigInit == Init => TypeOK
BY ConfigAssumption DEF Init, TypeOK, Contents, Places

\* The host, the crashes and every step of a call keep the types, and that the
\* writer's file is the empty one of its own copy.
LEMMA ConfigStep == TypeOK /\ [Next]_vars => TypeOK'
<1> SUFFICES ASSUME TypeOK, [Next]_vars
             PROVE  TypeOK'
  OBVIOUS
<1>1. CASE Host
  BY <1>1 DEF Host, HostEdits, HostBreaks, HostDeletes, HostPuts, HostMovesTemplate,
              TypeOK, Contents
<1>2. CASE Restart
  BY <1>2 DEF Restart, TypeOK, Places
<1>3. ASSUME NEW t \in Threads, Call(t) PROVE TypeOK'
  <2>1. thread' \in [Threads -> Places]
    BY <1>3 DEF Call, TypeOK, Places
  <2>2. writer # NoThread => writer # t
    BY <1>3 DEF Call, TypeOK, Thrown
  <2> QED
    BY <1>3, <2>1, <2>2 DEF Call, TypeOK
<1>4. ASSUME NEW t \in Threads, get_parameter_value_str(t) PROVE TypeOK'
  <2>1. CASE config_json_is_exist(t)
    BY <2>1, MovesKeep DEF config_json_is_exist, TypeOK, Places
  <2>2. CASE FindTemplate(t)
    BY <2>2, MovesKeep DEF FindTemplate, TypeOK, Places, Thrown
  <2>3. CASE CopyCreates(t)
    <3>1. CASE template /\ config = "absent"
      <4>1. thread' = [thread EXCEPT ![t] = "write"] /\ config' = "empty" /\ writer' = t
        BY <2>3, <3>1 DEF CopyCreates, Goes
      <4> QED
        BY <2>3, <4>1 DEF CopyCreates, TypeOK, Contents, Places
    <3>2. CASE ~(template /\ config = "absent")
      BY <2>3, <3>2, MovesKeep DEF CopyCreates, TypeOK, Places, Thrown
    <3> QED
      BY <3>1, <3>2
  <2>4. CASE CopyWrites(t)
    <3>1. thread' \in [Threads -> Places]
      BY <2>4 DEF CopyWrites, Goes, TypeOK, Places
    <3> QED
      BY <2>4, <3>1 DEF CopyWrites, Goes, TypeOK, Contents
  <2>5. CASE ReadAndParse(t)
    BY <2>5, MovesKeep DEF ReadAndParse, TypeOK, Contents, Whole, Places, Thrown
  <2> QED
    BY <1>4, <2>1, <2>2, <2>3, <2>4, <2>5 DEF get_parameter_value_str
<1>5. CASE UNCHANGED vars
  BY <1>5 DEF vars, TypeOK
<1> QED
  BY <1>1, <1>2, <1>3, <1>4, <1>5 DEF Next

\* Types, and that a copy under way is of the writer and its file empty, whatever
\* the host, the crashes and the other threads do.
THEOREM ConfigTypes == Spec => []TypeOK
BY ConfigInit, ConfigStep, PTL DEF Spec

\* No call of get_parameter_value_str changes a file that is there and written:
\* fs::copy creates the file or fails, and its write goes to the file it created.
THEOREM FilesAreKept == Spec => FilesSurvive
<1>1. TypeOK /\ [Next]_vars
        => [(\E t \in Threads : get_parameter_value_str(t))
              /\ config \in Whole \cup {"broken"}
            => config' = config]_vars
  <2> SUFFICES ASSUME TypeOK, NEW t \in Threads, get_parameter_value_str(t),
                      config \in Whole \cup {"broken"}
               PROVE  config' = config
    OBVIOUS
  <2>1. config # "empty" /\ config # "absent"
    BY DEF Whole
  <2>2. writer = NoThread
    BY <2>1 DEF TypeOK
  <2>3. t # NoThread
    BY ConfigAssumption
  <2> QED
    BY <2>1, <2>2, <2>3 DEF get_parameter_value_str, config_json_is_exist, FindTemplate,
                            CopyCreates, CopyWrites, ReadAndParse
<1> QED
  BY <1>1, ConfigTypes, PTL DEF Spec, FilesSurvive

=============================================================================
