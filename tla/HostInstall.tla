---------------------------- MODULE HostInstall ----------------------------
(***************************************************************************)
(* The install and uninstall subcommands: the server entry merged into     *)
(* each agent host's configuration file, the hook merged into the          *)
(* settings file, and what is written back.                                *)
(*                                                                         *)
(* A configuration file is [text, cont, servers].  text says what reading  *)
(* it gives: "absent", "unreadable" (not valid UTF-8, or an I/O error),    *)
(* "blank", "invalid" (does not parse), "other" (parses, but the root is   *)
(* not an object) or "object".  cont is what holds the servers: "none",    *)
(* "table", "inline" (a TOML inline table) or "bad" (some other value);    *)
(* servers maps the names there to their entries.  The settings file is    *)
(* [text, pre, blocks]: pre is what hooks.PreToolUse is, "none", "array"   *)
(* or "bad", and a block is the sequence of its hooks' commands.  An own   *)
(* entry or hook is the version of the program it names.                   *)
(***************************************************************************)
EXTENDS Naturals, FiniteSets, Sequences

CONSTANTS Hosts,        \* the agent hosts
          TomlHosts,    \* the ones configured in TOML
          Detected,     \* the ones found on this machine
          UnreadableFiles, \* whether a file may exist and not be readable
          TornWrites,   \* whether a write may end with the file truncated
          MaxRuns       \* bound on the commands run

ASSUME HostKinds == TomlHosts \subseteq Hosts /\ Detected \subseteq Hosts

VARIABLES config,       \* per host, its configuration file
          settings,     \* the file the hook is registered in
          version,      \* the version of the installed program
          runs          \* the commands run so far

hostVars == <<config, settings, version, runs>>

Versions == 1..2

\* A server or hook that is not ours.
Users == 0

-----------------------------------------------------------------------------
(* Merging.  An outcome is "same", "refuse" or the file to write.          *)

Same == [is |-> "same"]
Refuse == [is |-> "refuse"]
Write(file) == [is |-> "write", file |-> file]

Put(servers, entry) ==
    [n \in (DOMAIN servers) \cup {"own"} |->
        IF n = "own" THEN entry ELSE servers[n]]

Drop(servers) == [n \in (DOMAIN servers) \ {"own"} |-> servers[n]]

\* What read_to_string gives: a file that cannot be read counts as absent.
existing(file) == IF file.text = "unreadable" THEN "absent" ELSE file.text

\* A blank file is a new one.
merge_install_fresh(file, v) ==
    Write([text |-> "object", cont |-> "table",
           servers |-> [n \in {"own"} |-> v]])

merge_install_json(file, v) ==
    CASE existing(file) \in {"absent", "blank"} -> merge_install_fresh(file, v)
      [] existing(file) \in {"invalid", "other"} -> Refuse
      [] existing(file) = "object" /\ file.cont = "bad" -> Refuse
      [] existing(file) = "object" /\ file.cont /= "bad" ->
            IF "own" \in DOMAIN file.servers /\ file.servers["own"] = v
            THEN Same
            ELSE Write([file EXCEPT
                          !.cont = "table", !.servers = Put(@, v)])

\* The root of a TOML file is always a table.  (A mcp_servers that is no table
\* makes toml_edit's indexing panic before anything is written; left out.)
merge_install_toml(file, v) ==
    CASE existing(file) \in {"absent", "blank"} -> merge_install_fresh(file, v)
      [] existing(file) = "invalid" -> Refuse
      [] existing(file) = "object" ->
            IF "own" \in DOMAIN file.servers /\ file.servers["own"] = v
            THEN Same
            ELSE Write([file EXCEPT
                          !.cont = IF @ = "none" THEN "table" ELSE @,
                          !.servers = Put(@, v)])

\* Only a table loses the entry: an inline table is not looked into.
merge_uninstall_json(file) ==
    IF file.text /= "object"
    THEN Refuse
    ELSE IF file.cont = "table" /\ "own" \in DOMAIN file.servers
         THEN Write([file EXCEPT !.servers = Drop(@)])
         ELSE Same

merge_uninstall_toml(file) ==
    CASE file.text = "invalid" -> Refuse
      [] file.text = "blank" -> Same
      [] file.text = "object" ->
            IF file.cont = "table" /\ "own" \in DOMAIN file.servers
            THEN Write([file EXCEPT !.servers = Drop(@)])
            ELSE Same

merge_install(h, file, v) ==
    IF h \in TomlHosts THEN merge_install_toml(file, v)
                       ELSE merge_install_json(file, v)

merge_uninstall(h, file) ==
    IF h \in TomlHosts THEN merge_uninstall_toml(file)
                       ELSE merge_uninstall_json(file)

is_our_hook_command(c) == c \in Versions

\* One hook of ours, whichever program it names, is enough.
merge_hook_install(file, v) ==
    CASE existing(file) \in {"absent", "blank"} ->
            Write([text |-> "object", pre |-> "array", blocks |-> <<<<v>>>>])
      [] existing(file) \in {"invalid", "other"} -> Refuse
      [] existing(file) = "object" /\ file.pre = "bad" -> Refuse
      [] existing(file) = "object" /\ file.pre /= "bad" ->
            IF \E i \in DOMAIN file.blocks : \E j \in DOMAIN file.blocks[i] :
                   is_our_hook_command(file.blocks[i][j])
            THEN Same
            ELSE Write([file EXCEPT !.pre = "array",
                                    !.blocks = Append(@, <<v>>)])

\* The blocks of s that are among those of keep, in their order.
retain(s, keep) ==
    LET kept[i \in 0 .. Len(s)] ==
            IF i = 0 THEN <<>>
            ELSE IF s[i] \in keep THEN Append(kept[i - 1], s[i]) ELSE kept[i - 1]
    IN  kept[Len(s)]

\* A block goes when every hook in it is ours.
NotOnlyOurs == {b \in Seq(Nat) : \E j \in DOMAIN b : ~is_our_hook_command(b[j])}

merge_hook_uninstall(file) ==
    LET kept == retain(file.blocks, NotOnlyOurs)
    IN  CASE file.text /= "object" -> Refuse
          [] file.text = "object" /\ file.pre /= "array" -> Same
          [] file.text = "object" /\ file.pre = "array" ->
                IF Len(kept) = Len(file.blocks)
                THEN Same
                ELSE Write([file EXCEPT !.blocks = kept])

-----------------------------------------------------------------------------
(* The subcommands.  Options are [dry, hooks, only, skip].                 *)

NoServers == [n \in {} |-> Users]

\* A file that was truncated and not written to its end.
Torn(file, text) ==
    IF "servers" \in DOMAIN file
    THEN [text |-> text, cont |-> "none", servers |-> NoServers]
    ELSE [text |-> text, pre |-> "none", blocks |-> <<>>]

\* How std::fs::write ends: a write that fails to open the file, which is reported, and
\* one the command never reaches because it stopped leave it as it was; a write that
\* fails or stops later leaves it blank or cut short.
Fates == {"written", "untouched"} \cup IF TornWrites THEN {"blank", "invalid"} ELSE {}

apply(file, outcome, o, fate) ==
    IF outcome.is # "write" \/ o.dry \/ fate = "untouched" THEN file
    ELSE IF fate = "written" THEN outcome.file
    ELSE Torn(file, fate)

selected(h, o) ==
    IF o.only /= {} THEN h \in o.only ELSE h \in Detected \ o.skip

Options == [dry : BOOLEAN, hooks : BOOLEAN,
            only : {{}} \cup {{h} : h \in Hosts},
            skip : {{}} \cup {{h} : h \in Hosts}]

Installed(o, fates) ==
    [h \in Hosts |->
        IF selected(h, o)
        THEN apply(config[h], merge_install(h, config[h], version), o, fates[h])
        ELSE config[h]]

HookInstalled(o, fate) ==
    IF o.hooks
    THEN apply(settings, merge_hook_install(settings, version), o, fate)
    ELSE settings

run_install(o, fates, hook) ==
    /\ runs < MaxRuns
    /\ config' = Installed(o, fates)
    /\ settings' = HookInstalled(o, hook)
    /\ runs' = runs + 1
    /\ UNCHANGED version

\* Every host with a readable file, detected or not; the hook always.
run_uninstall(o, fates, hook) ==
    /\ runs < MaxRuns
    /\ config' = [h \in Hosts |->
                    IF /\ o.only = {} \/ h \in o.only
                       /\ h \notin o.skip
                       /\ config[h].text \notin {"absent", "unreadable"}
                    THEN apply(config[h], merge_uninstall(h, config[h]), o, fates[h])
                    ELSE config[h]]
    /\ settings' = IF settings.text \in {"absent", "unreadable"}
                   THEN settings
                   ELSE apply(settings, merge_hook_uninstall(settings), o, hook)
    /\ runs' = runs + 1
    /\ UNCHANGED version

\* Another version of the program takes the place of this one.
Upgrade ==
    /\ version' \in Versions \ {version}
    /\ UNCHANGED <<config, settings, runs>>

-----------------------------------------------------------------------------
(* What users keep in these files.                                         *)

FileTexts == {"absent", "blank", "invalid", "object"}
            \cup IF UnreadableFiles THEN {"unreadable"} ELSE {}

UsersServer == [n \in {"other"} |-> Users]

\* The content of a file that cannot be read is still the user's.
ConfigFiles(h) ==
    {[text |-> t, cont |-> "none", servers |-> NoServers] :
         t \in FileTexts \cup IF h \in TomlHosts THEN {} ELSE {"other"}}
    \cup {[text |-> "object", cont |-> c, servers |-> UsersServer] :
             c \in {"table"} \cup IF h \in TomlHosts THEN {"inline"} ELSE {}}
    \cup IF h \in TomlHosts
         THEN {}
         ELSE {[text |-> "object", cont |-> "bad", servers |-> NoServers]}

SettingsFiles ==
    {[text |-> t, pre |-> "none", blocks |-> <<>>] : t \in FileTexts \cup {"other"}}
    \cup {[text |-> "object", pre |-> "bad", blocks |-> <<>>]}
    \cup {[text |-> "object", pre |-> "array", blocks |-> b] :
             b \in {<<<<Users>>>>, <<<<Users, Users>>, <<Users>>>>}}

HostInit ==
    /\ config \in {c \in [Hosts -> UNION {ConfigFiles(h) : h \in Hosts}] :
                      \A h \in Hosts : c[h] \in ConfigFiles(h)}
    /\ settings \in SettingsFiles
    /\ version = 1
    /\ runs = 0

HostNext ==
    \/ \E o \in Options, fates \in [Hosts -> Fates], hook \in Fates :
          run_install(o, fates, hook)
    \/ \E o \in Options, fates \in [Hosts -> Fates], hook \in Fates :
          run_uninstall(o, fates, hook)
    \/ Upgrade

HostSpec == HostInit /\ [][HostNext]_hostVars

-----------------------------------------------------------------------------
(* Properties.                                                             *)

\* The blocks with a hook of someone else.
ForeignBlocks == {b \in Seq(Nat) : \E j \in DOMAIN b : b[j] = Users}

Foreign(servers) == [n \in (DOMAIN servers) \ {"own"} |-> servers[n]]

\* No command changes a file it could not make sense of, and none loses a
\* server of someone else or a block that holds a hook of someone else, in
\* any order of installs, uninstalls and upgrades, wherever a command stops between
\* two files and whichever write fails before it truncates.
FilesAreNotClobbered ==
    [][/\ \A h \in Hosts :
             /\ config[h].text \in {"unreadable", "invalid", "other"}
                    => config'[h] = config[h]
             /\ Foreign(config'[h].servers) = Foreign(config[h].servers)
       /\ settings.text \in {"unreadable", "invalid", "other"}
              => settings' = settings
       /\ retain(settings'.blocks, ForeignBlocks)
              = retain(settings.blocks, ForeignBlocks)]_hostVars
=============================================================================
