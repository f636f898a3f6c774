----------------------------- MODULE Cmdline ------------------------------
(***************************************************************************)
(* How `run` and `start` hand the settings of a container to poqman-init:  *)
(* pkg/runtime/args.go writes them on the kernel command line, and         *)
(* cmd/poqman-init/main.go reads /proc/cmdline.                            *)
(*                                                                         *)
(* An argument is the sequence of its words, because the guest splits the  *)
(* command line at white space; a word is any value.  A token of the       *)
(* command line is a word and, before it, "poqman.<key>=" or nothing.      *)
(***************************************************************************)
EXTENDS Naturals, Sequences, SequencesExt, FiniteSetsExt

NoKey == <<"", 0>>
Key(name) == <<name, 0>>
VolumeKey(name, i) == <<name, i>>    \* poqman.volume.<i>.<name>

(* escapeKernelArg: an argument of several words is put in quotes, so that *)
(* a quote opens its first word (it closes in a word without a key).       *)
Escaped(key, arg) ==
  [i \in DOMAIN arg |->
     [key |-> IF i = 1 THEN key ELSE NoKey, word |-> arg[i],
      open |-> i = 1 /\ Len(arg) > 1]]

Mode(vol) == IF vol.readonly THEN "true" ELSE "false"
VolumeTokens(vol, i) ==
  Escaped(VolumeKey("source", i), vol.source)
    \o Escaped(VolumeKey("target", i), vol.target)
    \o Escaped(VolumeKey("readonly", i), <<Mode(vol)>>)

(* Mutant: the volumes are numbered from one. *)
BuildFromOne(cmd, ip, volumes) ==
  Escaped(Key("ip"), ip)
    \o FlattenSeq([i \in DOMAIN volumes |-> VolumeTokens(volumes[i], i)])
    \o FlattenSeq([i \in DOMAIN cmd |->
                     Escaped(IF i = 1 THEN Key("cmd") ELSE NoKey, cmd[i])])

(* BuildInitCmdline; without a command it asks for /sbin/init.  The host   *)
(* name, the gateway and the name server are written like the address.     *)
BuildInitCmdline(cmd, ip, volumes) ==
  Escaped(Key("ip"), ip)
    \o FlattenSeq([i \in DOMAIN volumes |-> VolumeTokens(volumes[i], i - 1)])
    \o IF cmd = <<>> THEN Escaped(Key("cmd"), <<"/sbin/init">>)
       ELSE FlattenSeq([i \in DOMAIN cmd |->
                          Escaped(IF i = 1 THEN Key("cmd") ELSE NoKey, cmd[i])])

-----------------------------------------------------------------------------
(* parseCmdline and unescapeArg: the last token with a key counts, tokens  *)
(* without one are dropped, and a quote that only opens stays in the value.*)
Absent == [word |-> "", open |-> FALSE]
Param(tokens, key) ==
  LET at == {i \in DOMAIN tokens : tokens[i].key = key}
  IN  IF at = {} THEN Absent
      ELSE [word |-> tokens[Max(at)].word, open |-> tokens[Max(at)].open]

(* mountVolumes: up to the first number without a source or a target.      *)
Volumes(tokens) ==
  LET given(i) == /\ Param(tokens, VolumeKey("source", i)) # Absent
                  /\ Param(tokens, VolumeKey("target", i)) # Absent
  IN  {i \in 0..Len(tokens) : \A j \in 0..i : given(j)}

Mounts(tokens) ==
  {[volume |-> i, on |-> Param(tokens, VolumeKey("target", i)),
    readonly |-> Param(tokens, VolumeKey("readonly", i)).word = "true"] :
     i \in Volumes(tokens)}

(* BuildArgs attaches a device for every volume. *)
Attached(volumes) == {i - 1 : i \in DOMAIN volumes}

(* The command that poqman-init gives to the shell. *)
Command(tokens) ==
  IF Param(tokens, Key("cmd")) = Absent THEN [word |-> "/bin/sh", open |-> FALSE]
  ELSE Param(tokens, Key("cmd"))
=============================================================================
