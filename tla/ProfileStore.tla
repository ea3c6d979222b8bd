---------------------------- MODULE ProfileStore ----------------------------
(***************************************************************************)
(* The settings of the command line: config.json holds the repository and  *)
(* LLM profiles and the default of each kind, secrets.json the keys the    *)
(* profiles name (cli/repo_store.py).  A command edits one file or both.   *)
(* An edit loads a file whole, changes its copy and writes it back over    *)
(* the file, with no lock: truncation and content are two steps, and a     *)
(* file that does not parse is loaded as an empty one.                     *)
(*                                                                         *)
(* Repository profiles are edited by the process of the command, LLM       *)
(* profiles and secrets by a request to the gateway, whose handlers run    *)
(* in the threads of one process.                                          *)
(***************************************************************************)
EXTENDS Naturals, Sequences

CONSTANTS Clients,      \* command lines in use at once
          Names,        \* profile names
          MaxCommands,  \* bound: commands given
          MaxMishaps,   \* bound: processes killed
          Torn          \* a file cut off after its truncation (a model value)

VARIABLES file,         \* "config" and "secrets" as they are on disk
          expected,     \* what the completed edits, one after another, make of each
          spoiled,      \* files written from a copy that was out of date or torn
          deleted,      \* keys whose last completed edit removed them
          client,       \* the command of each client and the edits it has left
          commands, mishaps

vars == <<file, expected, spoiled, deleted, client, commands, mishaps>>

Kinds == {"repo", "llm"}
Entries == Kinds \X Names
Shared == <<"shared", "key">>
None == <<"no", "one">>

\* The key a profile gets when the command is given its value.
build_key_ref(e) == e

\* A file that does not parse is loaded as an empty one.
Empty == [config |-> [profiles |-> {}, default |-> [k \in Kinds |-> None]],
          secrets |-> {}]
_load_json_file(f) == IF file[f] = Torn THEN Empty[f] ELSE file[f]

\* A profile is an entry with the key it refers to.
RefOf(config, e) == (CHOOSE p \in config.profiles : p.entry = e).ref
Has(config, e) == \E p \in config.profiles : p.entry = e
Without(config, e) == {p \in config.profiles : p.entry # e}

\* A profile is added with the value of its key, the name of one, or none, and
\* may become the default; it is removed with its key or without.
ProfileCommands(kind) ==
    [op : {"add"}, entry : {kind} \X Names, ref : {"value", "name", "none"}, flag : BOOLEAN]
        \cup [op : {"use"}, entry : {kind} \X Names, ref : {"none"}, flag : {FALSE}]
        \cup [op : {"remove"}, entry : {kind} \X Names, ref : {"none"}, flag : BOOLEAN]

RepoCommands == ProfileCommands("repo")
LlmCommands == ProfileCommands("llm")
SecretCommands ==
    [op : {"set", "unset"}, entry : Entries \cup {Shared}, ref : {"none"}, flag : {FALSE}]

Ref(cmd) == CASE cmd.ref = "value" -> build_key_ref(cmd.entry)
              [] cmd.ref = "name" -> Shared
              [] OTHER -> None

\* Mutant: the profile goes before its key.
EditsOfProfileFirst(cmd) ==
    CASE cmd.op = "add" /\ cmd.ref = "value" -> <<"config", "secrets">>
      [] cmd.op \in {"set", "unset"} -> <<"secrets">>
      [] OTHER -> <<"config">>

\* The edits a command starts with: the key goes before the profile.
EditsOf(cmd) ==
    CASE cmd.op = "add" /\ cmd.ref = "value" -> <<"secrets", "config">>
      [] cmd.op \in {"set", "unset"} -> <<"secrets">>
      [] OTHER -> <<"config">>

\* The profiles after a command.
add_or_update(cmd, config) ==
    LET e == cmd.entry
    IN  [profiles |-> Without(config, e) \cup {[entry |-> e, ref |-> Ref(cmd)]},
         default |-> IF cmd.flag \/ config.default[e[1]] = None
                     THEN [config.default EXCEPT ![e[1]] = e]
                     ELSE config.default]

set_default(cmd, config) == [config EXCEPT !.default[cmd.entry[1]] = cmd.entry]

remove(cmd, config) ==
    [profiles |-> Without(config, cmd.entry),
     default |-> [k \in Kinds |-> IF config.default[k] = cmd.entry
                                  THEN None ELSE config.default[k]]]

EditedConfig(cmd, config) ==
    CASE cmd.op = "add" -> add_or_update(cmd, config)
      [] cmd.op = "use" -> set_default(cmd, config)
      [] OTHER -> remove(cmd, config)

\* The keys after a command; an add sets its own, a remove drops what it was told.
EditedSecrets(c, keys) ==
    IF client[c].cmd.op \in {"add", "set"}
    THEN keys \cup {client[c].key} ELSE keys \ {client[c].key}

Edited(c, f, content) ==
    IF f = "config" THEN EditedConfig(client[c].cmd, content)
                    ELSE EditedSecrets(c, content)

Idle == [cmd |-> None, key |-> None, edits |-> <<>>, pc |-> "idle", copy |-> Torn]

\* Where a client's present edit is carried out.
AtGateway(c) ==
    Head(client[c].edits) = "secrets" \/ client[c].cmd.entry[1] = "llm"

Init ==
    /\ file = Empty /\ expected = Empty
    /\ spoiled = {} /\ deleted = {}
    /\ client = [c \in Clients |-> Idle]
    /\ commands = 0 /\ mishaps = 0

Command(c) ==
    /\ client[c].pc = "idle" /\ commands < MaxCommands
    /\ \E cmd \in RepoCommands \cup LlmCommands \cup SecretCommands :
           client' = [client EXCEPT ![c] =
               [cmd |-> cmd,
                key |-> IF cmd.op \in {"set", "unset"} THEN cmd.entry ELSE Ref(cmd),
                edits |-> EditsOf(cmd), pc |-> "load", copy |-> Torn]]
    /\ commands' = commands + 1
    /\ UNCHANGED <<file, expected, spoiled, deleted, mishaps>>

\* A profile that is not there cannot be used or removed: the command ends.
Load(c) ==
    /\ client[c].pc = "load"
    /\ LET f == Head(client[c].edits)
           cmd == client[c].cmd
           missing == /\ f = "config" /\ cmd.op \in {"use", "remove"}
                      /\ ~Has(_load_json_file(f), cmd.entry)
       IN  client' = [client EXCEPT ![c] =
               IF missing THEN Idle
               ELSE [@ EXCEPT !.pc = "write", !.copy = file[f]]]
    /\ UNCHANGED <<file, expected, spoiled, deleted, commands, mishaps>>

\* path.write_text opens the file, which empties it ...
Truncate(c) ==
    /\ client[c].pc = "write"
    /\ LET f == Head(client[c].edits)
       IN  /\ spoiled' = IF file[f] # client[c].copy \/ file[f] = Torn
                         THEN spoiled \cup {f} ELSE spoiled
           /\ file' = [file EXCEPT ![f] = Torn]
    /\ client' = [client EXCEPT ![c].pc = "fill"]
    /\ UNCHANGED <<expected, deleted, commands, mishaps>>

\* The edits left after one: a removed profile's key, when it has one and was
\* to go with it.
EditsAfter(c, content) ==
    LET cmd == client[c].cmd
    IN  IF /\ cmd.op = "remove" /\ cmd.flag /\ Head(client[c].edits) = "config"
           /\ RefOf(content, cmd.entry) # None
        THEN <<"secrets">> ELSE Tail(client[c].edits)

\* ... and the edited copy follows.
Fill(c) ==
    /\ client[c].pc = "fill"
    /\ LET f == Head(client[c].edits)
           content == IF client[c].copy = Torn THEN Empty[f] ELSE client[c].copy
           left == EditsAfter(c, content)
           key == IF client[c].cmd.op = "remove" /\ f = "config"
                  THEN RefOf(content, client[c].cmd.entry) ELSE client[c].key
       IN  /\ file' = [file EXCEPT ![f] = Edited(c, f, content)]
           /\ expected' = [expected EXCEPT ![f] = Edited(c, f, expected[f])]
           /\ deleted' = IF f = "config" THEN deleted
                         ELSE IF client[c].cmd.op \in {"add", "set"}
                         THEN deleted \ {key} ELSE deleted \cup {key}
           /\ client' = [client EXCEPT ![c] =
                  IF left = <<>> THEN Idle
                  ELSE [@ EXCEPT !.edits = left, !.pc = "load", !.key = key,
                                 !.copy = Torn]]
    /\ UNCHANGED <<spoiled, commands, mishaps>>

\* The gateway dies with every edit it is at; the commands fail.
GatewayDies ==
    /\ mishaps < MaxMishaps
    /\ \E c \in Clients : client[c].pc # "idle" /\ AtGateway(c)
    /\ client' = [c \in Clients |-> IF client[c].pc # "idle" /\ AtGateway(c)
                                    THEN Idle ELSE client[c]]
    /\ mishaps' = mishaps + 1
    /\ UNCHANGED <<file, expected, spoiled, deleted, commands>>

\* A command line dies: the gateway finishes the edit it is at, and no other.
LastEdit(c) ==
    LET cmd == client[c].cmd
    IN  [client[c] EXCEPT !.edits = <<Head(client[c].edits)>>,
                          !.cmd = IF cmd.op = "remove" THEN [cmd EXCEPT !.flag = FALSE] ELSE cmd]

ClientDies(c) ==
    /\ client[c].pc # "idle" /\ mishaps < MaxMishaps
    /\ client' = [client EXCEPT ![c] = IF AtGateway(c) THEN LastEdit(c) ELSE Idle]
    /\ mishaps' = mishaps + 1
    /\ UNCHANGED <<file, expected, spoiled, deleted, commands>>

Next ==
    \/ \E c \in Clients : Command(c) \/ Load(c) \/ Truncate(c) \/ Fill(c) \/ ClientDies(c)
    \/ GatewayDies

Spec == Init /\ [][Next]_vars

-----------------------------------------------------------------------------
(***************************************************************************)
(* What a command saved is there, and nothing else: each file holds what   *)
(* the completed edits make of it one after another, unless it was written *)
(* from a copy that was out of date, or a write to it is not complete.     *)
(* Whatever overlaps, a default is a profile that exists.  A profile that  *)
(* has a key of its own finds it in secrets.json, unless that key was      *)
(* deleted since, or the file spoiled: the key is stored first.            *)
(***************************************************************************)
EditsAreKept ==
    \A f \in {"config", "secrets"} :
        file[f] \in {Torn, expected[f]} \/ f \in spoiled

DefaultsExist ==
    LET config == _load_json_file("config")
    IN  \A k \in Kinds : config.default[k] # None => Has(config, config.default[k])

KeysComeFirst ==
    \A p \in _load_json_file("config").profiles :
        p.ref = p.entry =>
            p.ref \in _load_json_file("secrets") \cup deleted
                \/ file.secrets = Torn \/ "secrets" \in spoiled

SettingsAreKept == EditsAreKept /\ DefaultsExist /\ KeysComeFirst
=============================================================================
