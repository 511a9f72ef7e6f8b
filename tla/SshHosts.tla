------------------------------- MODULE SshHosts -------------------------------
(***************************************************************************)
(* What Rust-SSH-Connect keeps on disk (src/src/desktop.rs): its settings  *)
(* (connect.json), the pairing code that ProxyCommand reads               *)
(* (connect.setup), and its hosts, a managed block in the user's own SSH   *)
(* configuration.  Settings and pairing code are replaced atomically, the  *)
(* SSH configuration is written in place.  The window may be killed between*)
(* any two steps, and any write may fail.  On Windows the first start of   *)
(* this version brings the files of v0.5.5 along (Legacy); elsewhere there *)
(* is nothing to bring.                                                    *)
(*                                                                         *)
(* One window runs at a time (a mutex on Windows, the app bundle on macOS),*)
(* and the user does not save the SSH configuration in an editor in the    *)
(* instant between its being read and written by the window.               *)
(***************************************************************************)
EXTENDS Naturals, Sequences, Functions

CONSTANTS
    Devices,     \* ids, which are also the default Host names
    Nicks,       \* other Host names
    Lines,       \* the user's own lines in the SSH configuration
    Legacy,      \* files of v0.5.5 are there
    MaxTears,    \* bound: writes of the SSH configuration that are cut off
    None, Partial \* no file; a file of which only a part was written

ASSUME NamesAssumption == Devices \cap Nicks = {}
ASSUME LegacyAssumption == Legacy \in BOOLEAN
ASSUME BoundsAssumption == MaxTears \in Nat
ASSUME FilesAssumption == "good" \notin {None, Partial}

Names == Devices \cup Nicks

\* A pairing code decodes or does not.
Codes == {"good", "bad"}

Settings == [code : Codes, aliases : [Devices -> Names \cup {None}]]
NoSettings == [code |-> "bad", aliases |-> [d \in Devices |-> None]]

\* A Host block: the program's path in it is not modelled, the path of the
\* setup file is that of v0.5.5 or the one of this version.
Block == [host : Names, device : Devices, setup : {"old", "new"}]

VARIABLES
    window,      \* where the window's thread is
    device,      \* the device being configured
    settings,    \* in memory
    connect_json, connect_setup, \* the files of this version
    config,      \* the SSH configuration: the user's lines before and after
                 \* the managed block, whether its markers are there ("none",
                 \* "open": the end is missing, "closed"), and its blocks
    tears,       \* writes of it that were cut off
    configured   \* for the properties: devices configured by this version

files == <<connect_json, connect_setup, config, tears, configured>>
vars == <<window, device, settings, files>>

LegacySettings == [NoSettings EXCEPT !.code = "good"]

\* What v0.5.5 left: it had configured one device or none.
Init ==
    /\ window = "down"
    /\ device = None
    /\ settings = NoSettings
    /\ connect_json = None
    /\ connect_setup = None
    /\ \E before \in SUBSET Lines, old \in IF Legacy THEN SUBSET Devices ELSE {{}} :
          config \in
              IF old = {} THEN {[before |-> before, marks |-> "none", blocks |-> <<>>, after |-> {}]}
              ELSE {[before |-> before, marks |-> "closed", after |-> {},
                     blocks |-> <<[host |-> d, device |-> d, setup |-> "old"]>>] : d \in old}
    /\ tears = 0
    /\ configured = {}

-----------------------------------------------------------------------------
(* The files.                                                              *)

\* A write in place that is cut off leaves the beginning of the new text.
CutOff(file) ==
    {[before |-> kept, marks |-> "none", blocks |-> <<>>, after |-> {}] :
        kept \in SUBSET file.before}
    \cup {[file EXCEPT !.marks = "open", !.blocks = SubSeq(@, 1, n), !.after = {}] :
            n \in 0..Len(file.blocks)}
    \cup {[file EXCEPT !.after = kept] : kept \in SUBSET file.after}

\* fs::write of the SSH configuration, complete or cut off.
WriteConfig(file) == config' = file /\ tears' = tears

TearConfig(file) ==
    /\ tears < MaxTears /\ tears' = tears + 1
    /\ config' \in CutOff(file)

\* write_private_file: the rename happens or the old file stays.
SaveSettings(new) == connect_json' \in {connect_json, new}

-----------------------------------------------------------------------------
(* Start (ConnectApp::new): the old files are migrated, then loaded.       *)

Start ==
    /\ window = "down"
    /\ window' = IF Legacy THEN "migrate" ELSE "load"
    /\ UNCHANGED <<device, settings, files>>

\* migrate_setup_code_file, first half: a file that is there is kept; the
\* result of the copy is ignored, and one that fails may leave a part.
MigrateSetup ==
    /\ window = "migrate"
    /\ connect_setup' \in IF connect_setup = None THEN {"good", None, Partial}
                                               ELSE {connect_setup}
    /\ window' = "rewrite"
    /\ UNCHANGED <<device, settings, connect_json, config, tears, configured>>

Rewritten == [config EXCEPT !.blocks = [i \in DOMAIN @ |-> [@[i] EXCEPT !.setup = "new"]]]

\* migrate_setup_code_file, second half: the managed block is pointed at the
\* new place.  Without both markers, or without the old path, nothing is
\* written; a failed write leaves what it leaves.
RewriteSetupPath ==
    /\ window = "rewrite"
    /\ IF config.marks = "closed" /\ Rewritten # config
       THEN WriteConfig(Rewritten) \/ UNCHANGED <<config, tears>> \/ TearConfig(Rewritten)
       ELSE UNCHANGED <<config, tears>>
    /\ window' = "load"
    /\ UNCHANGED <<device, settings, connect_json, connect_setup, configured>>

\* Faulty: what is there is taken for settings.
LoadSettingsUnread ==
    /\ window = "load"
    /\ settings' = connect_json
    /\ window' = "up"
    /\ UNCHANGED <<device, files>>

\* load_settings: migrated like the setup file; what cannot be read counts as
\* the default.
LoadSettings ==
    /\ window = "load"
    /\ connect_json' \in IF Legacy /\ connect_json = None
                         THEN {LegacySettings, None, Partial} ELSE {connect_json}
    /\ settings' = IF connect_json' \in {None, Partial} THEN NoSettings ELSE connect_json'
    /\ window' = "up"
    /\ UNCHANGED <<device, connect_setup, config, tears, configured>>

-----------------------------------------------------------------------------
(* The window.                                                             *)

\* The user edits the pairing code; nothing is saved yet.
EditCode(code) ==
    /\ window = "up"
    /\ settings' = [settings EXCEPT !.code = code]
    /\ UNCHANGED <<window, device, files>>

\* save, and refresh with a code that decodes.
Save ==
    /\ window = "up"
    /\ SaveSettings(settings)
    /\ UNCHANGED <<window, device, settings, connect_setup, config, tears, configured>>

\* save_host_alias: not a name that another device has been given.
SaveHostAlias(d, name) ==
    /\ window = "up"
    /\ \A other \in Devices \ {d} : settings.aliases[other] # name \/ name = d
    /\ settings' = [settings EXCEPT !.aliases[d] = IF name = d THEN None ELSE name]
    /\ SaveSettings(settings')
    /\ UNCHANGED <<window, device, connect_setup, config, tears, configured>>

\* The alias, or the id.
HostOf(d) == IF settings.aliases[d] = None THEN d ELSE settings.aliases[d]

\* configure_selected and connect_selected, up to install_ssh_host's
\* save_settings: with a code that does not decode nothing is begun, and an
\* error ends it.
Configure(d) ==
    /\ window = "up" /\ settings.code = "good"
    /\ \/ connect_json' = settings /\ window' = "setup" /\ device' = d
       \/ UNCHANGED <<connect_json, window, device>>
    /\ UNCHANGED <<settings, connect_setup, config, tears, configured>>

\* Faulty: the file is truncated and written.
WriteSetupInPlace ==
    /\ window = "setup"
    /\ \/ connect_setup' = settings.code /\ window' = "config"
       \/ connect_setup' = Partial /\ window' = "up"
    /\ UNCHANGED <<device, settings, connect_json, config, tears, configured>>

\* write_setup_code_file, through write_private_file.
WriteSetup ==
    /\ window = "setup"
    /\ \/ connect_setup' = settings.code /\ window' = "config"
       \/ connect_setup' = connect_setup /\ window' = "up"
    /\ UNCHANGED <<device, settings, connect_json, config, tears, configured>>

\* Faulty: blocks are replaced by device only.
ReplaceDevice(block) ==
    Append(SelectSeq(config.blocks, LAMBDA b : b.device # block.device), block)

Differ(b, c) == b.host # c.host /\ b.device # c.device

\* blocks.retain: those of other hosts and other devices, in their order.
Retained(blocks, block) ==
    LET among[n \in 0..Len(blocks)] ==
            IF n = 0 THEN <<>>
            ELSE IF Differ(blocks[n], block) THEN Append(among[n - 1], blocks[n])
                                             ELSE among[n - 1]
    IN  among[Len(blocks)]

\* They stay, the new one is last.
Replace(block) == Append(Retained(config.blocks, block), block)

\* Faulty: without an end marker the managed block is the rest of the file.
UpdatedToTheEnd(block) ==
    CASE config.marks = "none" ->
            {[config EXCEPT !.marks = "closed", !.blocks = <<block>>]}
      [] config.marks = "closed" -> {[config EXCEPT !.blocks = Replace(block)]}
      [] config.marks = "open" ->
            {[config EXCEPT !.marks = "closed", !.blocks = Replace(block), !.after = {}]}

\* update_managed_ssh_config: the new text; none if the end marker is missing.
Updated(block) ==
    CASE config.marks = "none" ->
            {[before |-> config.before, marks |-> "closed",
              blocks |-> <<block>>, after |-> config.after]}
      [] config.marks = "closed" -> {[config EXCEPT !.blocks = Replace(block)]}
      [] config.marks = "open" -> {}

UpdateConfig ==
    /\ window = "config"
    /\ LET block == [host |-> HostOf(device), device |-> device, setup |-> "new"] IN
       \/ \E file \in Updated(block) :
             \/ WriteConfig(file) /\ configured' = configured \cup {device}
             \/ TearConfig(file) /\ UNCHANGED configured
       \/ UNCHANGED <<config, tears, configured>>
    /\ window' = "up" /\ device' = None
    /\ UNCHANGED <<settings, connect_json, connect_setup>>

-----------------------------------------------------------------------------
(* The end of the process, and the user.                                   *)

\* The window is closed, or killed: a file that it was writing or copying in
\* place is cut off.
Exit ==
    /\ window # "down"
    /\ window' = "down" /\ device' = None /\ settings' = NoSettings
    /\ connect_setup' \in IF window = "migrate" /\ connect_setup = None
                          THEN {None, Partial} ELSE {connect_setup}
    /\ connect_json' \in IF window = "load" /\ Legacy /\ connect_json = None
                         THEN {None, Partial} ELSE {connect_json}
    /\ \/ UNCHANGED <<config, tears>>
       \/ window = "rewrite" /\ config.marks = "closed" /\ Rewritten # config /\ TearConfig(Rewritten)
       \/ /\ window = "config"
          /\ \E file \in Updated([host |-> HostOf(device), device |-> device, setup |-> "new"]) :
                TearConfig(file)
    /\ UNCHANGED configured

\* The user adds a line, above the managed block or at the end of the file.
AddLine(line) ==
    /\ window \in {"up", "down"}
    /\ line \notin config.before \cup config.after
    /\ \/ config' = [config EXCEPT !.before = @ \cup {line}]
       \/ config.marks # "none" /\ config' = [config EXCEPT !.after = @ \cup {line}]
    /\ UNCHANGED <<window, device, settings, connect_json, connect_setup, tears, configured>>

\* ... or deletes the managed block (deployment-detailed.md 500).
DeleteManaged ==
    /\ window \in {"up", "down"} /\ config.marks # "none"
    /\ config' = [before |-> config.before \cup config.after, marks |-> "none",
                  blocks |-> <<>>, after |-> {}]
    /\ UNCHANGED <<window, device, settings, connect_json, connect_setup, tears, configured>>

Next ==
    \/ Start \/ MigrateSetup \/ RewriteSetupPath \/ LoadSettings
    \/ \E code \in Codes : EditCode(code)
    \/ Save
    \/ \E d \in Devices : Configure(d) \/ \E name \in Names : SaveHostAlias(d, name)
    \/ WriteSetup \/ UpdateConfig
    \/ Exit
    \/ \E line \in Lines : AddLine(line)
    \/ DeleteManaged

Spec == Init /\ [][Next]_vars

-----------------------------------------------------------------------------
(* Properties.                                                             *)

TypeOK ==
    /\ window \in {"down", "migrate", "rewrite", "load", "up", "setup", "config"}
    /\ device \in Devices \cup {None}
    /\ settings \in Settings
    /\ connect_json \in {None, Partial} \cup Settings
    /\ connect_setup \in {None, Partial, "good"}
    /\ config \in [before : SUBSET Lines, marks : {"none", "open", "closed"},
                  blocks : Seq(Block), after : SUBSET Lines]
    /\ tears \in 0..MaxTears
    /\ configured \subseteq Devices

\* ssh to a host that this version configured finds a whole pairing code that
\* decodes, whatever failed or was killed since: the code is written before
\* the block that names it, and replaced in one step (install_ssh_host
\* 1538-1565, write_private_file 1277-1280).
ConfiguredHostsWork ==
    \A b \in Range(config.blocks) : b.device \in configured => connect_setup = "good"

\* A name is one device's and a device has one name, after any series of
\* renamings, names handed on, and writes cut off (1627-1638).
NamesAreUnique ==
    \A i, j \in DOMAIN config.blocks :
        i # j => Differ(config.blocks[i], config.blocks[j])

\* Only a write that is cut off loses lines of the user's own: not the
\* program's other writes, not even after a cut-off one has left a block
\* without its end (1625, 1650).
UserLinesKept ==
    [][tears' = tears =>
          config.before \cup config.after \subseteq config'.before \cup config'.after]_vars

\* "The --setup-code-file path of SSH ProxyCommands already generated is
\* rewritten to the new place, without a click on Configure SSH"
\* (CHANGELOG.md 26): what a host's ProxyCommand names is there.
RewrittenHostsWork ==
    window = "up" =>
        \A b \in Range(config.blocks) : b.setup = "new" => connect_setup = "good"
=============================================================================
