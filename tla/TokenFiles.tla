------------------------------ MODULE TokenFiles ------------------------------
(***************************************************************************)
(* The key and token files of the relay and the programs that share them:  *)
(* keygen (generate of src/src/identity.rs), device add (add_device of     *)
(* src/src/server.rs), the operator's shell, and the relay, which reads    *)
(* them when it starts and about every two seconds after that              *)
(* (load_auth_snapshot, spawn_auth_reload).                                *)
(*                                                                         *)
(* A step is one access to one file: every program runs between any two    *)
(* accesses of another.  A file that is created is empty until it is       *)
(* written; the write may fail, and the empty file stays.  A file stands   *)
(* for its content: who made it up, and whether it is written.  Tokens and *)
(* keys are random, so the maker's name stands for the value.              *)
(***************************************************************************)
EXTENDS Integers, FiniteSets

CONSTANTS
    Devices,   \* device ids, each naming a token file
    Keygens,   \* runs of the keygen command
    Adders,    \* runs of device add
    Secrets,   \* controller tokens the operator makes up
    MaxMoves   \* bound: files the operator moves away or back

ASSUME MovesAssumption == MaxMoves \in Nat

Key == "identity.key"
Pub == "identity.pub"
Controller == "controller.token"
TokenPaths == Devices \cup {Controller}
Paths == TokenPaths \cup {Key, Pub}

Makers == Keygens \cup Adders \cup Secrets

ASSUME PathsAssumption == Devices \cap {Key, Pub, Controller} = {}
ASSUME MakersAssumption ==
    /\ Keygens \cap Adders = {} /\ Keygens \cap Secrets = {}
    /\ Adders \cap Secrets = {} /\ "nobody" \notin Makers

Absent == [by |-> "nobody", whole |-> FALSE]
Unwritten(c) == [by |-> c, whole |-> FALSE]
Whole(c) == [by |-> c, whole |-> TRUE]
Contents == {Absent} \cup {Unwritten(c) : c \in Makers} \cup {Whole(c) : c \in Makers}
NoTokens == [p \in TokenPaths |-> "nobody"]

VARIABLES
    file,      \* the content of each path
    aside,     \* the content of path.disabled or path.old
    pc,        \* where each command is
    device_id, \* the id a run of device add is given
    key_read,  \* whose public key a run of device add puts in its code
    server,    \* "down"; "starting", in run_with_timing; "up"
    auth,      \* the snapshot connections are authenticated against
    loading,   \* the load: "idle"; "listing"; "reading" the files listed
    next, listed, \* the load's tokens so far, and the files still to read
    moves,     \* for the bound: the operator's moves
    touched,   \* for the properties: paths the operator has moved
    steady     \* for the properties: device files that did not change since
               \* the load listed the directory

addVars == <<device_id, key_read>>
relayVars == <<server, auth, loading, next, listed>>
historyVars == <<moves, touched>>
vars == <<file, aside, pc, addVars, relayVars, historyVars, steady>>

Init ==
    /\ file = [p \in Paths |-> Absent]
    /\ aside = [p \in TokenPaths |-> Absent]
    /\ pc = [c \in Makers |-> "check"]
    /\ device_id \in [Adders -> Devices]
    /\ key_read = [a \in Adders |-> "nobody"]
    /\ server = "down"
    /\ auth = NoTokens
    /\ loading = "idle" /\ next = NoTokens /\ listed = {}
    /\ moves = 0
    /\ touched = {}
    /\ steady = {}

Goto(c, label) == pc' = [pc EXCEPT ![c] = label]
Set(p, content) ==
    /\ file' = [file EXCEPT ![p] = content]
    /\ steady' = steady \ {p}

-----------------------------------------------------------------------------
(* Creating a file and writing it, whoever does.                           *)

\* Emptied or made, as the shell does for tee; a faulty CreateNew.
CreateOver(c, p, here, there) ==
    /\ pc[c] = here
    /\ Goto(c, there)
    /\ Set(p, Unwritten(c))
    /\ UNCHANGED <<aside, addVars, relayVars, historyVars>>

\* create_new: the command ends with an error when the file exists.
CreateNew(c, p, here, there) ==
    /\ pc[c] = here
    /\ \/ /\ file[p] = Absent
          /\ Goto(c, there)
          /\ Set(p, Unwritten(c))
       \/ /\ file[p] # Absent
          /\ Goto(c, "failed")
          /\ UNCHANGED <<file, steady>>
    /\ UNCHANGED <<aside, addVars, relayVars, historyVars>>

\* The open file is written, wherever it was moved to; or the write fails.
Write(c, p, here, there) ==
    /\ pc[c] = here
    /\ \/ /\ Goto(c, there)
          /\ file' = [file EXCEPT ![p] = IF @ = Unwritten(c) THEN Whole(c) ELSE @]
          /\ aside' = [q \in TokenPaths |->
                          IF q = p /\ aside[q] = Unwritten(c) THEN Whole(c) ELSE aside[q]]
          /\ steady' = IF file[p] = Unwritten(c) THEN steady \ {p} ELSE steady
       \/ /\ Goto(c, "failed")
          /\ UNCHANGED <<file, aside, steady>>
    /\ UNCHANGED <<addVars, relayVars, historyVars>>

-----------------------------------------------------------------------------
(* keygen.                                                                 *)

KeygenChecks(k, p, here, there) ==
    /\ pc[k] = here
    /\ Goto(k, IF file[p] = Absent THEN there ELSE "failed")
    /\ UNCHANGED <<file, aside, addVars, relayVars, historyVars, steady>>

generate(k) ==
    \/ KeygenChecks(k, Key, "check", "check_public")
    \/ KeygenChecks(k, Pub, "check_public", "create_private")
    \/ CreateNew(k, Key, "create_private", "write_private")
    \/ Write(k, Key, "write_private", "create_public")
    \/ CreateNew(k, Pub, "create_public", "write_public")
    \/ Write(k, Pub, "write_public", "done")

-----------------------------------------------------------------------------
(* device add.                                                             *)

AddChecks(a) ==
    /\ pc[a] = "check"
    /\ Goto(a, IF file[device_id[a]] = Absent THEN "load_key" ELSE "failed")
    /\ UNCHANGED <<file, aside, addVars, relayVars, historyVars, steady>>

\* The token and the pairing code are made in memory, then the file.
LoadPublicKey(a) ==
    /\ pc[a] = "load_key"
    /\ Goto(a, IF file[Pub].whole THEN "create" ELSE "failed")
    /\ key_read' = [key_read EXCEPT ![a] = file[Pub].by]
    /\ UNCHANGED <<file, aside, device_id, relayVars, historyVars, steady>>

add_device(a) ==
    \/ AddChecks(a)
    \/ LoadPublicKey(a)
    \/ CreateNew(a, device_id[a], "create", "write")
    \/ Write(a, device_id[a], "write", "done")

-----------------------------------------------------------------------------
(* The operator, as the deployment guide tells him.                        *)

\* mv x.token x.token.disabled, and back; a move replaces its target.
MoveAway(p) ==
    /\ file[p] # Absent /\ moves < MaxMoves
    /\ aside' = [aside EXCEPT ![p] = file[p]]
    /\ Set(p, Absent)
    /\ moves' = moves + 1
    /\ touched' = touched \cup {p}
    /\ UNCHANGED <<pc, addVars, relayVars>>

MoveBack(p) ==
    /\ aside[p] # Absent /\ moves < MaxMoves
    /\ aside' = [aside EXCEPT ![p] = Absent]
    /\ Set(p, aside[p])
    /\ moves' = moves + 1
    /\ touched' = touched \cup {p}
    /\ UNCHANGED <<pc, addVars, relayVars>>

\* openssl rand -hex 32 | tee controller.token: emptied, then written.
Tee(s) ==
    \/ CreateOver(s, Controller, "check", "write")
    \/ Write(s, Controller, "write", "done")

-----------------------------------------------------------------------------
(* The relay.                                                              *)

\* ServerIdentity::load, and the first load_auth_snapshot begins.
Start ==
    /\ server = "down" /\ file[Key].whole
    /\ server' = "starting"
    /\ UNCHANGED <<file, aside, pc, addVars, auth, loading, next, listed,
                   historyVars, steady>>

\* The process ends, in the middle of a load or not.
Stop ==
    /\ server # "down"
    /\ server' = "down"
    /\ auth' = NoTokens
    /\ loading' = "idle" /\ next' = NoTokens /\ listed' = {}
    /\ UNCHANGED <<file, aside, pc, addVars, historyVars, steady>>

\* An error: the last valid snapshot stays, and a relay that starts ends.
LoadFails ==
    /\ loading' = "idle" /\ next' = NoTokens /\ listed' = {}
    /\ server' = IF server = "starting" THEN "down" ELSE server
    /\ UNCHANGED auth

ReadController ==
    /\ server # "down" /\ loading = "idle"
    /\ \/ /\ file[Controller].whole
          /\ next' = [next EXCEPT ![Controller] = file[Controller].by]
          /\ loading' = "listing"
          /\ UNCHANGED <<server, auth, listed>>
       \/ /\ ~file[Controller].whole
          /\ LoadFails
    /\ UNCHANGED <<file, aside, pc, addVars, historyVars, steady>>

\* fs::read_dir; names that do not end in .token are passed over.
ListDevices ==
    /\ loading = "listing"
    /\ loading' = "reading"
    /\ listed' = {d \in Devices : file[d] # Absent}
    /\ steady' = Devices
    /\ UNCHANGED <<file, aside, pc, addVars, server, auth, next, historyVars>>

\* Faulty: a file that cannot be read or is not valid is passed over.
ReadDeviceSkipping(d) ==
    /\ loading = "reading" /\ d \in listed
    /\ listed' = listed \ {d}
    /\ next' = [next EXCEPT ![d] = IF file[d].whole THEN file[d].by ELSE "nobody"]
    /\ UNCHANGED <<file, aside, pc, addVars, server, auth, loading,
                   historyVars, steady>>

\* One file that has gone since it was listed, or is not a token, fails the
\* whole load.
ReadDevice(d) ==
    /\ loading = "reading" /\ d \in listed
    /\ \/ /\ file[d].whole
          /\ next' = [next EXCEPT ![d] = file[d].by]
          /\ listed' = listed \ {d}
          /\ UNCHANGED <<server, auth, loading>>
       \/ /\ ~file[d].whole
          /\ LoadFails
    /\ UNCHANGED <<file, aside, pc, addVars, historyVars, steady>>

\* Faulty: what is new is added to what was there.
ApplyMerging ==
    /\ loading = "reading" /\ listed = {}
    /\ server' = "up"
    /\ auth' = [p \in TokenPaths |-> IF next[p] = "nobody" THEN auth[p] ELSE next[p]]
    /\ loading' = "idle" /\ next' = NoTokens
    /\ UNCHANGED <<file, aside, pc, addVars, listed, historyVars, steady>>

Apply ==
    /\ loading = "reading" /\ listed = {}
    /\ server' = "up"
    /\ auth' = next
    /\ loading' = "idle" /\ next' = NoTokens
    /\ UNCHANGED <<file, aside, pc, addVars, listed, historyVars, steady>>

load_auth_snapshot ==
    \/ ReadController
    \/ ListDevices
    \/ \E d \in Devices : ReadDevice(d)
    \/ Apply

\* Whether a Hello with this role, id and token is answered with HelloOk.
authenticate(role, d, token) ==
    token = (IF role = "Controller" THEN auth[Controller] ELSE auth[d])

-----------------------------------------------------------------------------

Next ==
    \/ \E k \in Keygens : generate(k)
    \/ \E a \in Adders : add_device(a)
    \/ \E s \in Secrets : Tee(s)
    \/ \E p \in TokenPaths : MoveAway(p) \/ MoveBack(p)
    \/ Start
    \/ Stop
    \/ load_auth_snapshot

\* The relay's interval keeps ticking, and its reads return.  Nobody has to
\* run, or to finish, a command.
Spec == Init /\ [][Next]_vars /\ WF_vars(load_auth_snapshot)

-----------------------------------------------------------------------------
(* Properties.                                                             *)

TypeOK ==
    /\ file \in [Paths -> Contents]
    /\ aside \in [TokenPaths -> Contents]
    /\ pc \in [Makers -> {"check", "check_public", "create_private", "write_private",
                          "create_public", "write_public", "load_key", "create",
                          "write", "done", "failed"}]
    /\ device_id \in [Adders -> Devices]
    /\ key_read \in [Adders -> Makers \cup {"nobody"}]
    /\ server \in {"down", "starting", "up"}
    /\ auth \in [TokenPaths -> Makers \cup {"nobody"}]
    /\ loading \in {"idle", "listing", "reading"}
    /\ next \in [TokenPaths -> Makers \cup {"nobody"}]
    /\ listed \subseteq Devices
    /\ moves \in 0..MaxMoves
    /\ touched \subseteq TokenPaths
    /\ steady \subseteq Devices

\* However many keygens run at once, and wherever they fail, a public key
\* file was made by the run whose private key the relay loads (identity.rs,
\* generate).
PublicKeyMatches == file[Pub] # Absent => file[Key] = Whole(file[Pub].by)

\* A pairing code that device add printed names the relay's key, and the
\* token in it is the one on disk until the operator moves that file, though
\* another device add for the same id ran beside it (server.rs, add_device).
PrintedCodesWork ==
    \A a \in Adders : pc[a] = "done" =>
        /\ file[Key] = Whole(key_read[a])
        /\ device_id[a] \notin touched => file[device_id[a]] = Whole(a)

\* A load that is applied is faithful to every device file that stood
\* untouched while it read the directory: none of them is broken, and the
\* snapshot has their tokens and no others, whatever was half-written or moved
\* beside it (server.rs, load_device_token_records).
LoadsSeeSteadyFiles ==
    [][Apply => \A d \in steady :
                    /\ file[d] = Absent \/ file[d].whole
                    /\ auth'[d] = file[d].by]_vars

Loadable ==
    /\ file[Controller].whole
    /\ \A d \in Devices : file[d] = Absent \/ file[d].whole

\* When the files are left alone and none is broken, a running relay comes
\* to accept exactly the tokens in them: an added device gets in, a file
\* moved away keeps its device out, an old controller token is refused
\* (server.rs, spawn_auth_reload, authenticate).
ReloadCatchesUp ==
    <>[](server = "up" /\ Loadable =>
            \A t \in Makers :
                /\ \A d \in Devices :
                      authenticate("Agent", d, t) <=> file[d] = Whole(t)
                /\ \A d \in Devices :
                      authenticate("Controller", d, t) <=> file[Controller] = Whole(t))

=============================================================================
