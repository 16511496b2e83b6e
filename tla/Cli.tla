--------------------------------- MODULE Cli ---------------------------------
(***************************************************************************)
(* The command-line driver of src/src/manager/network-config-manager.c:    *)
(* main and cli_run, parse_argv with getopt_long, the command table, and   *)
(* the two generation handlers: generate_networkd_config_from_yaml, which  *)
(* hands one YAML file after the other to the manager and returns at the   *)
(* first failure, and generate_networkd_config_from_command_line.          *)
(*                                                                         *)
(* The manager, the dispatcher cli_run_command and the daemon commands are *)
(* not in this tree.  A YAML file is abstracted to the outcome of its walk *)
(* (EthernetsWalk: "done" or "aborted"), which is how the manager's result *)
(* for it is decided (spec 7: a structural or allocation failure aborts    *)
(* the command with a non-zero status).  argv is the sequence of words     *)
(* after the program name, so the C argv[i] is argv[i] here for i >= 1.    *)
(***************************************************************************)
EXTENDS Integers, Sequences
LOCAL INSTANCE SequencesExt

CONSTANTS
  NULL,           \* a NULL pointer
  CommandLines,   \* the argument vectors main may be given
  Files,          \* the YAML file names
  DirContents,    \* the possible contents of the YAML directory; NULL: absent
  AllocMayFail    \* may an allocation fail

VARIABLES
  argv,        \* the words after the program name
  walk,        \* Files -> the outcome of the walk of that file
  dir,         \* the names in /etc/network-config-manager/yaml, or NULL
  pc,          \* "start", "manager", "dispatch", "yaml", "done"
  probed,      \* has ncm_is_netword_running been called
  order,       \* the files the handler visits, in its order, or NULL
  todo,        \* the suffix of order not visited yet
  generated,   \* the files handed to the manager, in order
  cmdline,     \* what the command-line compiler was handed, or NULL
  exit         \* cli_run's result, NULL while running

vars == <<argv, walk, dir, pc, probed, order, todo, generated, cmdline, exit>>

EINVAL == 22
ENOENT == 2
ENOMEM == 12

Yaml == "generate-config-from-yaml"
ApplyYaml == "apply-yaml-config"
FromCmdline == "generate-config-from-cmdline"
ProcCmdline == "/proc/cmdline"

(* The command table of cli_run: name -> [min words, default].  WORD_ANY  *)
(* is -1.  The daemon commands share one row: they only talk to systemd-  *)
(* networkd and resolved, which is out of scope.                          *)
WORD_ANY == -1
commands ==
  [c \in {"status", "set-mtu", Yaml, ApplyYaml, FromCmdline} |->
     CASE c = "status"   -> [min |-> WORD_ANY, default |-> TRUE]
       [] c = "set-mtu"  -> [min |-> 2, default |-> FALSE]
       [] c = Yaml       -> [min |-> 1, default |-> FALSE]
       [] OTHER          -> [min |-> WORD_ANY, default |-> FALSE]]

(* getopt_long(argc, argv, "hv", ...) permutes the options to the front,  *)
(* so the first option word is the first one parse_argv sees, wherever it *)
(* stands.                                                                 *)
IsOption(w) == w \in {"-h", "-v", "-x"}
Options(a) == SelectSeq(a, IsOption)

(* ncm_show_version (not in this tree) prints the version and returns 0.  *)
ncm_show_version == 0

(* help() prints the usage and returns 0. *)
help == 0


(* parse_argv: 'h' and 'v' return at once, '?' is -EINVAL, and with no   *)
(* option left it returns 1.                                              *)
parse_argv(a) ==
  CASE Options(a) = <<>>        -> 1
    [] Head(Options(a)) = "-h"  -> help
    [] Head(Options(a)) = "-v"  -> ncm_show_version
    [] OTHER                    -> -EINVAL

(* isempty_string(argv[1]): argv[1] is NULL when argc is 1. *)
ArgvOne(a) == IF a = <<>> THEN NULL ELSE a[1]

(* manager_generate_network_config_from_yaml (not in this tree): negative *)
(* when the walk of the file stopped with a fatal error.                   *)
manager_generate_network_config_from_yaml(f) ==
  IF walk[f] = "done" THEN 0 ELSE -EINVAL

Init ==
  /\ argv \in CommandLines
  /\ walk \in [Files -> {"done", "aborted"}]
  /\ dir \in DirContents
  /\ pc = "start"
  /\ probed = FALSE
  /\ order = NULL
  /\ todo = <<>>
  /\ generated = <<>>
  /\ cmdline = NULL
  /\ exit = NULL

Finish(r) == pc' = "done" /\ exit' = r

(* cli_run up to cli_manager_new: parse_argv, then the daemon probe for   *)
(* every command word but generate-config-from-cmdline.                   *)
ParseArgv ==
  /\ pc = "start"
  /\ IF parse_argv(argv) <= 0
     THEN Finish(parse_argv(argv)) /\ UNCHANGED probed
     ELSE /\ probed' = (ArgvOne(argv) \notin {NULL, ""} /\ ArgvOne(argv) # FromCmdline)
          /\ pc' = "manager" /\ UNCHANGED exit
  /\ UNCHANGED <<argv, walk, dir, order, todo, generated, cmdline>>

(* cli_manager_new(commands, &m) may fail to allocate. *)
CliManagerNew ==
  /\ pc = "manager"
  /\ \/ AllocMayFail /\ Finish(-ENOMEM)
     \/ pc' = "dispatch" /\ UNCHANGED exit
  /\ UNCHANGED <<argv, walk, dir, probed, order, todo, generated, cmdline>>

(* cli_run_command (not in this tree) picks the table row of the first    *)
(* word, or the default row when there is none, and rejects an unknown    *)
(* word or fewer words than the row's minimum.                            *)
Command == IF argv = <<>> THEN CHOOSE c \in DOMAIN commands : commands[c].default
           ELSE argv[1]
Words == IF argv = <<>> THEN <<>> ELSE Tail(argv)
Dispatchable == Command \in DOMAIN commands /\ Len(Words) >= commands[Command].min
cli_run_command ==
  /\ pc = "dispatch"
  /\ \/ ~Dispatchable /\ Finish(-EINVAL)
     \/ Dispatchable /\ Command \in {"status", "set-mtu"} /\ \E r \in {0, -EINVAL} : Finish(r)
  /\ UNCHANGED <<argv, walk, dir, probed, order, todo, generated, cmdline>>

(* generate_networkd_config_from_yaml, entry: argv[0] is the command word. *)
(* apply-yaml-config lists the directory in readdir order, which is any   *)
(* order of its names; the other command takes its file arguments.        *)
GenerateFromYamlStart ==
  /\ pc = "dispatch"
  /\ Dispatchable /\ Command \in {Yaml, ApplyYaml}
  /\ IF Command = ApplyYaml
     THEN IF dir = NULL
          THEN Finish(-ENOENT) /\ UNCHANGED <<order, todo, generated>>
          ELSE \E o \in SetToSeqs(dir) :
                 order' = o /\ todo' = o /\ pc' = "yaml" /\ UNCHANGED <<exit, generated>>
     ELSE order' = Words /\ todo' = Words /\ pc' = "yaml" /\ UNCHANGED <<exit, generated>>
  /\ UNCHANGED <<argv, walk, dir, probed, cmdline>>

(* Fault variant: a failing file is logged and the loop goes on. *)
YamlFileContinue ==
  /\ pc = "yaml" /\ todo # <<>>
  /\ \/ Command = ApplyYaml /\ AllocMayFail /\ Finish(-ENOMEM)
        /\ UNCHANGED <<todo, generated>>
     \/ /\ generated' = Append(generated, Head(todo))
        /\ todo' = Tail(todo)
        /\ UNCHANGED <<pc, exit>>
  /\ UNCHANGED <<argv, walk, dir, probed, order, cmdline>>

(* One iteration of either loop: g_build_path may fail for a directory    *)
(* entry (log_oom); the manager's negative result is returned at once.    *)
YamlFile ==
  /\ pc = "yaml" /\ todo # <<>>
  /\ \/ Command = ApplyYaml /\ AllocMayFail /\ Finish(-ENOMEM)
        /\ UNCHANGED <<todo, generated>>
     \/ /\ generated' = Append(generated, Head(todo))
        /\ todo' = Tail(todo)
        /\ LET r == manager_generate_network_config_from_yaml(Head(todo))
           IN IF r < 0 THEN Finish(r) ELSE UNCHANGED <<pc, exit>>
  /\ UNCHANGED <<argv, walk, dir, probed, order, cmdline>>

YamlDone ==
  /\ pc = "yaml" /\ todo = <<>>
  /\ Finish(0)
  /\ UNCHANGED <<argv, walk, dir, probed, order, todo, generated, cmdline>>

(* generate_networkd_config_from_command_line: /proc/cmdline when the     *)
(* command has no words, else the words joined by strv_join(" ", ++argv)  *)
(* (the joined line is kept as its words), which may fail to allocate.    *)
(* The compiler (not in this tree) may accept or reject the line.         *)
GenerateFromCommandLine ==
  /\ pc = "dispatch" /\ Command = FromCmdline
  /\ \/ Words = <<>> /\ cmdline' = ProcCmdline /\ \E r \in {0, -EINVAL} : Finish(r)
     \/ Words # <<>> /\ AllocMayFail /\ Finish(-ENOMEM) /\ UNCHANGED cmdline
     \/ Words # <<>> /\ cmdline' = Words /\ \E r \in {0, -EINVAL} : Finish(r)
  /\ UNCHANGED <<argv, walk, dir, probed, order, todo, generated>>

Terminated == pc = "done" /\ UNCHANGED vars

Next ==
  \/ ParseArgv \/ CliManagerNew \/ cli_run_command
  \/ GenerateFromYamlStart \/ YamlFile \/ YamlDone \/ GenerateFromCommandLine
  \/ Terminated

Spec == Init /\ [][Next]_vars

-----------------------------------------------------------------------------
TypeOK ==
  /\ pc \in {"start", "manager", "dispatch", "yaml", "done"}
  /\ probed \in BOOLEAN
  /\ order = NULL \/ order \in Seq(Files)
  /\ generated \in Seq(Files)
  /\ exit = NULL \/ exit \in Int

(* Spec 7 for apply-yaml-config and generate-config-from-yaml: the files  *)
(* handed to the manager are a prefix of the handler's order in which     *)
(* only the last may have failed, and the command ends with status 0      *)
(* exactly when every file of the directory or of argv was generated      *)
(* successfully, whatever order readdir returned them in.                  *)
ExitStatusReflectsEveryFile ==
  /\ order # NULL => IsPrefix(generated, order)
  /\ \A j \in 1..Len(generated) - 1 : walk[generated[j]] = "done"
  /\ pc = "done" /\ order # NULL =>
       (exit = 0 <=> generated = order /\ \A f \in Range(order) : walk[f] = "done")

====
