-------------------------- MODULE TokenFiles_proofs --------------------------
(***************************************************************************)
(* For any numbers of devices, keygens, device adds and tokens: the type    *)
(* invariant of TokenFiles, that a public key file belongs to the private   *)
(* key, and that the pairing codes that were printed are good.              *)
(*                                                                         *)
(* The argument: a file has one writer.  create_new lets one command at a   *)
(* time hold a path as Unwritten, nobody else writes there, and nobody      *)
(* moves the key files away; so a keygen that is past a path owns it, and   *)
(* a device add owns its token file until the operator touches it.          *)
(***************************************************************************)
EXTENDS TokenFiles, TLAPS

-----------------------------------------------------------------------------
(* The inductive invariant.                                                *)

\* The files of a keygen on its way.
KeysInPlace ==
    \A k \in Keygens :
        /\ pc[k] = "write_private" => file[Key] = Unwritten(k)
        /\ pc[k] \in {"create_public", "write_public"} => file[Key] = Whole(k)
        /\ pc[k] = "write_public" => file[Pub] = Unwritten(k)

\* The files of a device add on its way.
CodesInPlace ==
    \A a \in Adders :
        /\ pc[a] \in {"create", "write", "done"} => file[Pub] = Whole(key_read[a])
        /\ pc[a] = "write" /\ device_id[a] \notin touched => file[device_id[a]] = Unwritten(a)
        /\ pc[a] = "done" /\ device_id[a] \notin touched => file[device_id[a]] = Whole(a)

\* The load on its way: of the files that stood still, those it is done with
\* are as it has them.
LoadInPlace ==
    /\ loading \in {"idle", "listing"} => \A d \in Devices : next[d] = "nobody"
    /\ loading = "reading" => \A d \in steady \ listed :
           (file[d] = Absent \/ file[d].whole) /\ next[d] = file[d].by

IInv == TypeOK /\ PublicKeyMatches /\ KeysInPlace /\ CodesInPlace /\ LoadInPlace

-----------------------------------------------------------------------------
LEMMA PathFacts ==
    /\ Key \in Paths /\ Pub \in Paths /\ Controller \in Paths
    /\ Devices \subseteq Paths /\ TokenPaths \subseteq Paths
    /\ Devices \subseteq TokenPaths /\ Controller \in TokenPaths
    /\ Key \notin TokenPaths /\ Pub \notin TokenPaths /\ Key # Pub
    /\ Controller \notin Devices
    BY PathsAssumption DEF Paths, TokenPaths, Key, Pub, Controller

LEMMA MakerFacts ==
    /\ Keygens \subseteq Makers /\ Adders \subseteq Makers /\ Secrets \subseteq Makers
    /\ \A c \in Makers : c # "nobody"
    /\ \A k \in Keygens : k \notin Adders /\ k \notin Secrets
    /\ \A a \in Adders : a \notin Keygens /\ a \notin Secrets
    BY MakersAssumption DEF Makers

LEMMA ContentFacts ==
    /\ Absent \in Contents
    /\ \A c \in Makers :
          /\ Unwritten(c) \in Contents /\ Whole(c) \in Contents
          /\ Unwritten(c) # Absent /\ Whole(c) # Absent
          /\ Whole(c).by = c /\ Unwritten(c).by = c
          /\ \A d \in Makers : /\ Unwritten(c) # Whole(d)
                               /\ Whole(c) = Whole(d) => c = d
                               /\ Unwritten(c) = Unwritten(d) => c = d
    /\ \A x \in Contents : x.whole => \E c \in Makers : x = Whole(c)
    /\ \A x \in Contents : x.by \in Makers \cup {"nobody"}
<1>1. /\ Absent.by = "nobody" /\ Absent.whole = FALSE
      /\ \A c \in Makers : /\ Unwritten(c).by = c /\ Unwritten(c).whole = FALSE
                           /\ Whole(c).by = c /\ Whole(c).whole = TRUE
    BY DEF Absent, Unwritten, Whole
<1>2. \A c \in Makers : c # "nobody"
    BY MakerFacts
<1>3. \A c \in Makers : Unwritten(c) # Absent /\ Whole(c) # Absent
    BY <1>1, <1>2, Zenon
<1>4. \A c, d \in Makers : /\ Unwritten(c) # Whole(d)
                           /\ Whole(c) = Whole(d) => c = d
                           /\ Unwritten(c) = Unwritten(d) => c = d
    BY <1>1, Zenon
<1>5. Absent \in Contents /\ \A c \in Makers : Unwritten(c) \in Contents /\ Whole(c) \in Contents
    BY Zenon DEF Contents
<1>6. \A x \in Contents : \/ x = Absent
                           \/ \E c \in Makers : x = Unwritten(c)
                           \/ \E d \in Makers : x = Whole(d)
    BY Zenon DEF Contents
<1>7. \A x \in Contents : x.whole => \E c \in Makers : x = Whole(c)
    BY <1>1, <1>6, Zenon
<1>8. ASSUME NEW x \in Contents PROVE x.by \in Makers \cup {"nobody"}
  <2>1. CASE x = Absent
      BY <1>1, <2>1, SMT
  <2>2. CASE \E c \in Makers : x = Unwritten(c)
    <3>1. PICK c \in Makers : x = Unwritten(c)
        BY <2>2
    <3> QED
        BY <1>1, <3>1, Zenon
  <2>3. CASE \E c \in Makers : x = Whole(c)
    <3>1. PICK c \in Makers : x = Whole(c)
        BY <2>3
    <3> QED
        BY <1>1, <3>1, Zenon
  <2> QED
      BY <1>6, <2>1, <2>2, <2>3
<1> QED
    BY <1>1, <1>3, <1>4, <1>5, <1>7, <1>8, Zenon

-----------------------------------------------------------------------------
(* Types.                                                                  *)

FileType ==
    /\ file \in [Paths -> Contents]
    /\ aside \in [TokenPaths -> Contents]
    /\ steady \subseteq Devices

PcType ==
    pc \in [Makers -> {"check", "check_public", "create_private", "write_private",
                       "create_public", "write_public", "load_key", "create",
                       "write", "done", "failed"}]

LEMMA GotoType ==
    ASSUME PcType, NEW c \in Makers, NEW there, Goto(c, there),
           there \in {"check", "check_public", "create_private", "write_private",
                      "create_public", "write_public", "load_key", "create",
                      "write", "done", "failed"}
    PROVE  PcType'
    BY DEF PcType, Goto

LEMMA SetType ==
    ASSUME FileType, NEW p \in Paths, NEW content \in Contents, Set(p, content)
    PROVE  file' \in [Paths -> Contents] /\ steady' \subseteq Devices
    BY DEF FileType, Set

LEMMA CreateType ==
    ASSUME FileType, NEW c \in Makers, NEW p \in Paths, NEW here, NEW there,
           CreateNew(c, p, here, there) \/ CreateOver(c, p, here, there)
    PROVE  FileType'
<1>1. Unwritten(c) \in Contents
    BY ContentFacts
<1>2. CASE Set(p, Unwritten(c)) /\ UNCHANGED aside
    BY <1>1, <1>2, SetType DEF FileType
<1>3. CASE UNCHANGED <<file, steady, aside>>
    BY <1>3 DEF FileType
<1> QED
    BY <1>2, <1>3 DEF CreateNew, CreateOver

LEMMA WriteType ==
    ASSUME FileType, NEW c \in Makers, NEW p \in Paths, NEW here, NEW there,
           Write(c, p, here, there)
    PROVE  FileType'
<1>1. Whole(c) \in Contents
    BY ContentFacts
<1>2. CASE UNCHANGED <<file, aside, steady>>
    BY <1>2 DEF FileType
<1>3. CASE /\ file' = [file EXCEPT ![p] = IF @ = Unwritten(c) THEN Whole(c) ELSE @]
           /\ aside' = [q \in TokenPaths |->
                          IF q = p /\ aside[q] = Unwritten(c) THEN Whole(c) ELSE aside[q]]
           /\ steady' = IF file[p] = Unwritten(c) THEN steady \ {p} ELSE steady
    BY <1>1, <1>3 DEF FileType
<1> QED
    BY <1>2, <1>3 DEF Write

AddType ==
    /\ device_id \in [Adders -> Devices]
    /\ key_read \in [Adders -> Makers \cup {"nobody"}]

RelayType ==
    /\ server \in {"down", "starting", "up"}
    /\ auth \in [TokenPaths -> Makers \cup {"nobody"}]
    /\ loading \in {"idle", "listing", "reading"}
    /\ next \in [TokenPaths -> Makers \cup {"nobody"}]
    /\ listed \subseteq Devices

HistoryType == moves \in 0..MaxMoves /\ touched \subseteq TokenPaths

LEMMA TypeParts == TypeOK <=> FileType /\ PcType /\ AddType /\ RelayType /\ HistoryType
    BY DEF TypeOK, FileType, PcType, AddType, RelayType, HistoryType

LEMMA TypePartsNext ==
    TypeOK' <=> FileType' /\ PcType' /\ AddType' /\ RelayType' /\ HistoryType'
    BY DEF TypeOK, FileType, PcType, AddType, RelayType, HistoryType

LEMMA TypeInit == Init => TypeOK
<1> SUFFICES ASSUME Init PROVE TypeOK
    OBVIOUS
<1>1. FileType
    BY ContentFacts DEF Init, FileType
<1>2. PcType
    BY DEF Init, PcType
<1>3. AddType
    BY DEF Init, AddType
<1>4. RelayType
    BY DEF Init, RelayType, NoTokens
<1>5. HistoryType
    BY MovesAssumption DEF Init, HistoryType
<1> QED
    BY <1>1, <1>2, <1>3, <1>4, <1>5, TypeParts

\* The steps of the commands.
LEMMA CommandType ==
    ASSUME TypeOK, NEW c \in Makers, NEW p \in Paths, NEW here,
           NEW there \in {"check_public", "create_private", "write_private",
                         "create_public", "write_public", "create", "write", "done"},
           \/ CreateNew(c, p, here, there) \/ CreateOver(c, p, here, there)
           \/ Write(c, p, here, there) \/ KeygenChecks(c, p, here, there)
    PROVE  TypeOK'
<1>0. FileType /\ PcType /\ AddType /\ RelayType /\ HistoryType
    BY TypeParts
<1>1. FileType'
  <2>1. CASE KeygenChecks(c, p, here, there)
      BY <1>0, <2>1 DEF KeygenChecks, FileType
  <2> QED
      BY <1>0, <2>1, CreateType, WriteType
<1>2. PcType'
  <2>1. Goto(c, there) \/ Goto(c, "failed")
      BY DEF CreateNew, CreateOver, Write, KeygenChecks
  <2> QED
      BY <1>0, <2>1, GotoType
<1>3. UNCHANGED <<addVars, relayVars, historyVars>>
    BY DEF CreateNew, CreateOver, Write, KeygenChecks
<1>4. (AddType /\ RelayType /\ HistoryType)'
    BY <1>0, <1>3 DEF AddType, RelayType, HistoryType, addVars, relayVars, historyVars
<1> QED
    BY <1>1, <1>2, <1>4, TypePartsNext

LEMMA TypeStep == TypeOK /\ [Next]_vars => TypeOK'
<1> SUFFICES ASSUME TypeOK, [Next]_vars PROVE TypeOK'
    OBVIOUS
<1>0. FileType /\ PcType /\ AddType /\ RelayType /\ HistoryType
    BY TypeParts
<1>a. Key \in Paths /\ Pub \in Paths /\ Controller \in Paths /\ TokenPaths \subseteq Paths
    BY PathFacts
<1>1. ASSUME NEW k \in Keygens, generate(k) PROVE TypeOK'
    BY <1>1, <1>a, CommandType, MakerFacts DEF generate
<1>2. ASSUME NEW a \in Adders, add_device(a) PROVE TypeOK'
  <2>1. device_id[a] \in Paths /\ a \in Makers
      BY <1>0, PathFacts, MakerFacts DEF AddType
  <2>2. CASE AddChecks(a)
    <3>1. PcType'
      <4>1. Goto(a, "load_key") \/ Goto(a, "failed")
          BY <2>2 DEF AddChecks
      <4> QED
          BY <1>0, <2>1, <4>1, GotoType
    <3>2. (FileType /\ AddType /\ RelayType /\ HistoryType)'
        BY <1>0, <2>2 DEF AddChecks, FileType, AddType, RelayType, HistoryType,
                          addVars, relayVars, historyVars
    <3> QED
        BY <3>1, <3>2, TypePartsNext
  <2>3. CASE LoadPublicKey(a)
    <3>1. PcType'
      <4>1. Goto(a, "create") \/ Goto(a, "failed")
          BY <2>3 DEF LoadPublicKey
      <4> QED
          BY <1>0, <2>1, <4>1, GotoType
    <3>2. file[Pub].by \in Makers \cup {"nobody"}
        BY <1>0, <1>a, ContentFacts DEF FileType
    <3>3. AddType'
        BY <1>0, <2>3, <3>2 DEF LoadPublicKey, AddType
    <3>4. (FileType /\ RelayType /\ HistoryType)'
        BY <1>0, <2>3 DEF LoadPublicKey, FileType, RelayType, HistoryType,
                          relayVars, historyVars
    <3> QED
        BY <3>1, <3>3, <3>4, TypePartsNext
  <2> QED
      BY <1>2, <2>1, <2>2, <2>3, CommandType DEF add_device
<1>3. ASSUME NEW s \in Secrets, Tee(s) PROVE TypeOK'
    BY <1>3, <1>a, CommandType, MakerFacts DEF Tee
<1>4. ASSUME NEW p \in TokenPaths, MoveAway(p) \/ MoveBack(p) PROVE TypeOK'
  <2>1. FileType'
    <3>1. aside[p] \in Contents /\ file[p] \in Contents /\ p \in Paths /\ Absent \in Contents
        BY <1>0, <1>a, ContentFacts DEF FileType
    <3>2. aside' \in [TokenPaths -> Contents]
        BY <1>0, <1>4, <3>1 DEF MoveAway, MoveBack, FileType
    <3>3. file' \in [Paths -> Contents] /\ steady' \subseteq Devices
        BY <1>0, <1>4, <3>1, SetType DEF MoveAway, MoveBack
    <3> QED
        BY <3>2, <3>3 DEF FileType
  <2>2. HistoryType'
      BY <1>0, <1>4, MovesAssumption DEF MoveAway, MoveBack, HistoryType
  <2>3. (PcType /\ AddType /\ RelayType)'
      BY <1>0, <1>4 DEF MoveAway, MoveBack, PcType, AddType, RelayType, addVars, relayVars
  <2> QED
      BY <2>1, <2>2, <2>3, TypePartsNext
<1>5. ASSUME Start \/ Stop \/ load_auth_snapshot PROVE TypeOK'
  <2>1. /\ FileType' /\ PcType' /\ AddType' /\ HistoryType'
    <3>1. UNCHANGED <<file, aside, pc, addVars, historyVars>>
        BY <1>5 DEF Start, Stop, load_auth_snapshot, ReadController, ListDevices,
                    ReadDevice, Apply
    <3>2. steady' \in {steady, Devices}
        BY <1>5 DEF Start, Stop, load_auth_snapshot, ReadController, ListDevices,
                    ReadDevice, Apply
    <3> QED
        BY <1>0, <3>1, <3>2 DEF FileType, PcType, AddType, HistoryType, addVars, historyVars
  <2>2. RelayType'
    <3>1. CASE Start
        BY <1>0, <3>1 DEF Start, RelayType
    <3>2. CASE Stop
        BY <1>0, <3>2 DEF Stop, RelayType, NoTokens
    <3>3. ASSUME LoadFails PROVE RelayType'
        BY <1>0, <3>3 DEF LoadFails, RelayType, NoTokens
    <3>4. ASSUME NEW p \in TokenPaths PROVE file[p].by \in Makers \cup {"nobody"}
        BY <1>0, <1>a, ContentFacts DEF FileType
    <3>5. CASE ReadController
      <4>1. file[Controller].by \in Makers \cup {"nobody"}
          BY <3>4, PathFacts
      <4> QED
          BY <1>0, <3>3, <3>5, <4>1 DEF ReadController, RelayType
    <3>6. CASE ListDevices
        BY <1>0, <3>6 DEF ListDevices, RelayType
    <3>7. ASSUME NEW d \in Devices, ReadDevice(d) PROVE RelayType'
      <4>1. file[d].by \in Makers \cup {"nobody"}
          BY <3>4, PathFacts
      <4> QED
          BY <1>0, <3>3, <3>7, <4>1 DEF ReadDevice, RelayType
    <3>8. CASE Apply
        BY <1>0, <3>8 DEF Apply, RelayType, NoTokens
    <3> QED
        BY <1>5, <3>1, <3>2, <3>5, <3>6, <3>7, <3>8 DEF load_auth_snapshot
  <2> QED
      BY <2>1, <2>2, TypePartsNext
<1>6. CASE UNCHANGED vars
    BY <1>0, <1>6, TypePartsNext DEF vars, addVars, relayVars, historyVars, FileType, PcType,
                      AddType, RelayType, HistoryType
<1> QED
    BY <1>1, <1>2, <1>3, <1>4, <1>5, <1>6 DEF Next

-----------------------------------------------------------------------------
(* Who owns which file.                                                    *)

\* What happens to one path p: nothing, an owner's step, or the operator's.
Untouched(p) == file'[p] = file[p]

\* A command c, at the label "here" before the step, creates or writes p.
Creates(c, p) == file[p] = Absent /\ file'[p] = Unwritten(c)
Writes(c, p) == file[p] = Unwritten(c) /\ file'[p] = Whole(c)

LEMMA CreateNewStep ==
    ASSUME TypeOK, NEW c \in Makers, NEW p \in Paths, NEW here, NEW there,
           CreateNew(c, p, here, there)
    PROVE  /\ \A q \in Paths \ {p} : Untouched(q)
           /\ pc[c] = here
           /\ \A d \in Makers \ {c} : pc'[d] = pc[d]
           /\ \/ pc'[c] = there /\ Creates(c, p)
              \/ pc'[c] = "failed" /\ Untouched(p)
           /\ UNCHANGED <<device_id, key_read, touched>>
    BY DEF TypeOK, CreateNew, Goto, Set, Untouched, Creates, addVars, historyVars

LEMMA CreateOverStep ==
    ASSUME TypeOK, NEW c \in Makers, NEW p \in Paths, NEW here, NEW there,
           CreateOver(c, p, here, there)
    PROVE  /\ \A q \in Paths \ {p} : Untouched(q)
           /\ \A d \in Makers \ {c} : pc'[d] = pc[d]
           /\ UNCHANGED <<device_id, key_read, touched>>
    BY DEF TypeOK, CreateOver, Goto, Set, Untouched, addVars, historyVars

LEMMA WriteStep ==
    ASSUME TypeOK, NEW c \in Makers, NEW p \in Paths, NEW here, NEW there,
           Write(c, p, here, there)
    PROVE  /\ \A q \in Paths \ {p} : Untouched(q)
           /\ pc[c] = here
           /\ \A d \in Makers \ {c} : pc'[d] = pc[d]
           /\ \/ pc'[c] = there /\ Writes(c, p)
              \/ pc'[c] = there /\ file[p] # Unwritten(c) /\ Untouched(p)
              \/ pc'[c] = "failed" /\ Untouched(p)
           /\ UNCHANGED <<device_id, key_read, touched>>
<1>1. pc[c] = here /\ UNCHANGED <<device_id, key_read, touched>>
    BY DEF Write, addVars, historyVars
<1>2. CASE Goto(c, "failed") /\ UNCHANGED file
    BY <1>1, <1>2 DEF TypeOK, Goto, Untouched
<1>3. CASE /\ Goto(c, there)
           /\ file' = [file EXCEPT ![p] = IF @ = Unwritten(c) THEN Whole(c) ELSE @]
    BY <1>1, <1>3 DEF TypeOK, Goto, Untouched, Writes
<1> QED
    BY <1>2, <1>3 DEF Write

LEMMA ChecksStep ==
    ASSUME TypeOK, NEW k \in Makers, NEW p, NEW here, NEW there,
           KeygenChecks(k, p, here, there)
    PROVE  /\ UNCHANGED <<file, device_id, key_read, touched>>
           /\ \A d \in Makers \ {k} : pc'[d] = pc[d]
           /\ pc'[k] \in {there, "failed"}
    BY DEF TypeOK, KeygenChecks, Goto, addVars, historyVars

KeyInv == PublicKeyMatches /\ KeysInPlace

LEMMA WholeFacts ==
    ASSUME NEW x, NEW y
    PROVE  Whole(x) # Absent /\ Whole(x) # Unwritten(y) /\ Whole(x).by = x
<1>1. Whole(x).whole = TRUE /\ Absent.whole = FALSE /\ Unwritten(y).whole = FALSE /\ Whole(x).by = x
    BY DEF Whole, Absent, Unwritten
<1> QED
    BY <1>1, Zenon

LEMMA KeysQuiet ==
    ASSUME KeyInv, Untouched(Key), Untouched(Pub), \A k \in Keygens : pc'[k] = pc[k]
    PROVE  KeyInv'
    BY DEF KeyInv, PublicKeyMatches, KeysInPlace, Untouched

\* A keygen creates the private key, the public key, or writes one of them.
LEMMA KeysStep ==
    ASSUME TypeOK, KeyInv, NEW k \in Keygens, generate(k)
    PROVE  KeyInv'
<1>0. k \in Makers /\ Key \in Paths /\ Pub \in Paths /\ Key # Pub /\ Keygens \subseteq Makers
    BY MakerFacts, PathFacts
<1>1. ASSUME NEW p, NEW here, NEW there \in {"check_public", "create_private"},
             KeygenChecks(k, p, here, there)
      PROVE  KeyInv'
    BY <1>0, <1>1, ChecksStep DEF KeyInv, PublicKeyMatches, KeysInPlace
<1>2. CASE CreateNew(k, Key, "create_private", "write_private")
  <2>1. CASE pc'[k] = "failed" /\ Untouched(Key)
      BY <1>0, <1>2, <2>1, CreateNewStep DEF KeyInv, PublicKeyMatches, KeysInPlace, Untouched
  <2>2. CASE pc'[k] = "write_private" /\ Creates(k, Key)
    <3>1. file[Key] = Absent /\ file'[Key] = Unwritten(k) /\ file'[Pub] = file[Pub]
        BY <1>0, <1>2, <2>2, CreateNewStep DEF Creates, Untouched
    <3>2. file[Pub] = Absent
        BY <3>1, WholeFacts DEF KeyInv, PublicKeyMatches
    <3>3. \A j \in Keygens : pc[j] \notin {"write_private", "create_public", "write_public"}
        BY <1>0, <3>1, WholeFacts, ContentFacts DEF KeyInv, KeysInPlace
    <3>4. \A j \in Keygens \ {k} : pc'[j] = pc[j]
        BY <1>0, <1>2, CreateNewStep
    <3> QED
        BY <2>2, <3>1, <3>2, <3>3, <3>4 DEF KeyInv, PublicKeyMatches, KeysInPlace
  <2> QED
      BY <1>0, <1>2, <2>1, <2>2, CreateNewStep
<1>3. CASE Write(k, Key, "write_private", "create_public")
  <2>0. /\ pc[k] = "write_private" /\ file[Key] = Unwritten(k) /\ file'[Pub] = file[Pub]
        /\ \A j \in Keygens \ {k} : pc'[j] = pc[j]
      BY <1>0, <1>3, WriteStep DEF KeyInv, KeysInPlace, Untouched
  <2>1. file[Pub] = Absent
      BY <2>0, WholeFacts DEF KeyInv, PublicKeyMatches
  <2>2. \A j \in Keygens \ {k} : pc[j] \notin {"write_private", "create_public", "write_public"}
      BY <1>0, <2>0, WholeFacts, ContentFacts DEF KeyInv, KeysInPlace
  <2>3. \/ pc'[k] = "create_public" /\ file'[Key] = Whole(k)
        \/ pc'[k] = "failed"
      BY <1>0, <1>3, <2>0, WriteStep DEF Writes
  <2> QED
      BY <2>0, <2>1, <2>2, <2>3 DEF KeyInv, PublicKeyMatches, KeysInPlace
<1>4. CASE CreateNew(k, Pub, "create_public", "write_public")
  <2>0. /\ file[Key] = Whole(k) /\ file'[Key] = file[Key]
        /\ \A j \in Keygens \ {k} : pc'[j] = pc[j]
      BY <1>0, <1>4, CreateNewStep DEF KeyInv, KeysInPlace, Untouched
  <2>1. \A j \in Keygens \ {k} : pc[j] \notin {"write_private", "create_public", "write_public"}
      BY <1>0, <2>0, WholeFacts, ContentFacts DEF KeyInv, KeysInPlace
  <2>2. \/ pc'[k] = "write_public" /\ file'[Pub] = Unwritten(k)
        \/ pc'[k] = "failed" /\ file'[Pub] = file[Pub]
      BY <1>0, <1>4, CreateNewStep DEF Creates, Untouched
  <2>3. Unwritten(k).by = k
      BY <1>0, ContentFacts
  <2> QED
      BY <2>0, <2>1, <2>2, <2>3 DEF KeyInv, PublicKeyMatches, KeysInPlace
<1>5. CASE Write(k, Pub, "write_public", "done")
  <2>0. /\ file[Key] = Whole(k) /\ file'[Key] = file[Key] /\ file[Pub] = Unwritten(k)
        /\ \A j \in Keygens \ {k} : pc'[j] = pc[j]
      BY <1>0, <1>5, WriteStep DEF KeyInv, KeysInPlace, Untouched
  <2>1. \A j \in Keygens \ {k} : pc[j] \notin {"write_private", "create_public", "write_public"}
      BY <1>0, <2>0, WholeFacts, ContentFacts DEF KeyInv, KeysInPlace
  <2>2. \/ pc'[k] = "done" /\ file'[Pub] = Whole(k)
        \/ pc'[k] = "failed" /\ file'[Pub] = file[Pub]
      BY <1>0, <1>5, <2>0, WriteStep DEF Writes, Untouched
  <2>3. Whole(k).by = k
      BY WholeFacts
  <2> QED
      BY <2>0, <2>1, <2>2, <2>3 DEF KeyInv, PublicKeyMatches, KeysInPlace
<1> QED
    BY <1>1, <1>2, <1>3, <1>4, <1>5 DEF generate

\* Once it is written, nobody writes the public key.
LEMMA PublicKeyStays ==
    ASSUME TypeOK, NEW k \in Keygens, generate(k), NEW x, file[Pub] = Whole(x)
    PROVE  Untouched(Pub)
<1>0. k \in Makers /\ Key \in Paths /\ Pub \in Paths /\ Key # Pub
    BY MakerFacts, PathFacts
<1>1. file[Pub] # Absent /\ file[Pub] # Unwritten(k)
    BY WholeFacts
<1>2. ASSUME NEW p, NEW here, NEW there, KeygenChecks(k, p, here, there)
      PROVE  Untouched(Pub)
    BY <1>2 DEF KeygenChecks, Untouched
<1>3. ASSUME NEW p \in {Key, Pub}, NEW here, NEW there,
             CreateNew(k, p, here, there) \/ Write(k, p, here, there)
      PROVE  Untouched(Pub)
    BY <1>0, <1>1, <1>3, CreateNewStep, WriteStep DEF Creates, Writes
<1> QED
    BY <1>2, <1>3 DEF generate

\* Whatever leaves the public key, the device adds, and the token files that
\* the operator has not touched as they are.
LEMMA CodesQuiet ==
    ASSUME TypeOK, CodesInPlace,
           \A x : file[Pub] = Whole(x) => Untouched(Pub),
           \A a \in Adders : pc'[a] = pc[a],
           UNCHANGED <<device_id, key_read>>, touched \subseteq touched',
           \A d \in Devices \ touched' : Untouched(d)
    PROVE  CodesInPlace'
<1> SUFFICES ASSUME NEW a \in Adders
             PROVE /\ pc[a] \in {"create", "write", "done"} => file'[Pub] = Whole(key_read[a])
                   /\ pc[a] = "write" /\ device_id[a] \notin touched' =>
                         file'[device_id[a]] = Unwritten(a)
                   /\ pc[a] = "done" /\ device_id[a] \notin touched' =>
                         file'[device_id[a]] = Whole(a)
    BY DEF CodesInPlace
<1>1. device_id[a] \in Devices
    BY DEF TypeOK
<1>2. pc[a] \in {"create", "write", "done"} => file'[Pub] = Whole(key_read[a])
    BY DEF CodesInPlace, Untouched
<1>3. device_id[a] \notin touched' =>
         device_id[a] \notin touched /\ file'[device_id[a]] = file[device_id[a]]
    BY <1>1 DEF Untouched
<1> QED
    BY <1>2, <1>3 DEF CodesInPlace

LEMMA CodesStep ==
    ASSUME TypeOK, CodesInPlace, NEW a \in Adders, add_device(a)
    PROVE  CodesInPlace'
<1> DEFINE d == device_id[a]
<1>0. /\ a \in Makers /\ Adders \subseteq Makers /\ d \in Devices /\ d \in Paths
      /\ Pub \in Paths /\ Pub # d
      /\ \A b \in Adders : device_id[b] \in Devices /\ device_id[b] \in Paths
    BY MakerFacts, PathFacts DEF TypeOK
<1> HIDE DEF d
<1>1. CASE AddChecks(a)
  <2>1. /\ UNCHANGED <<file, device_id, key_read, touched>>
        /\ pc'[a] \in {"load_key", "failed"} /\ \A b \in Adders \ {a} : pc'[b] = pc[b]
      BY <1>0, <1>1 DEF AddChecks, Goto, TypeOK, addVars, historyVars
  <2> QED
      BY <2>1 DEF CodesInPlace
<1>2. CASE LoadPublicKey(a)
  <2>1. /\ UNCHANGED <<file, device_id, touched>>
        /\ \/ pc'[a] = "create" /\ file[Pub].whole
           \/ pc'[a] = "failed"
        /\ \A b \in Adders \ {a} : pc'[b] = pc[b] /\ key_read'[b] = key_read[b]
        /\ key_read'[a] = file[Pub].by
      BY <1>0, <1>2 DEF LoadPublicKey, Goto, TypeOK, historyVars
  <2>2. file[Pub] \in Contents
      BY <1>0 DEF TypeOK
  <2>3. file[Pub].whole => file[Pub] = Whole(file[Pub].by)
      BY <2>2, ContentFacts, WholeFacts
  <2> QED
      BY <2>1, <2>3 DEF CodesInPlace
\* What the other device adds own stays: a file that is neither absent nor a's.
<1>3. ASSUME file'[Pub] = file[Pub], \A q \in Paths \ {d} : Untouched(q),
             \A b \in Makers \ {a} : pc'[b] = pc[b],
             UNCHANGED <<device_id, key_read, touched>>,
             Untouched(d) \/ file[d] \in {Absent, Unwritten(a)},
             NEW b \in Adders \ {a}
      PROVE  /\ pc'[b] \in {"create", "write", "done"} => file'[Pub] = Whole(key_read'[b])
             /\ pc'[b] = "write" /\ device_id'[b] \notin touched' =>
                   file'[device_id'[b]] = Unwritten(b)
             /\ pc'[b] = "done" /\ device_id'[b] \notin touched' =>
                   file'[device_id'[b]] = Whole(b)
  <2>0. b \in Adders /\ b \in Makers /\ b # a /\ pc'[b] = pc[b]
      BY <1>0, <1>3
  <2>1. CASE device_id[b] = d /\ ~Untouched(d)
    <3>1. file[device_id[b]] # Unwritten(b) /\ file[device_id[b]] # Whole(b)
        BY <1>0, <1>3, <2>0, <2>1, ContentFacts
    <3> QED
        BY <1>3, <2>0, <3>1 DEF CodesInPlace
  <2>2. CASE Untouched(device_id[b])
      BY <1>3, <2>0, <2>2 DEF CodesInPlace, Untouched
  <2> QED
      BY <1>0, <1>3, <2>0, <2>1, <2>2
<1>4. CASE CreateNew(a, d, "create", "write")
  <2>1. /\ file'[Pub] = file[Pub] /\ \A q \in Paths \ {d} : Untouched(q)
        /\ \A b \in Makers \ {a} : pc'[b] = pc[b]
        /\ UNCHANGED <<device_id, key_read, touched>>
        /\ pc[a] = "create"
        /\ \/ pc'[a] = "write" /\ file[d] = Absent /\ file'[d] = Unwritten(a)
           \/ pc'[a] = "failed" /\ Untouched(d)
      BY <1>0, <1>4, CreateNewStep DEF Creates, Untouched
  <2>2. file[Pub] = Whole(key_read[a])
      BY <2>1 DEF CodesInPlace
  <2> QED
      BY <1>3, <2>1, <2>2 DEF CodesInPlace, d
<1>5. CASE Write(a, d, "write", "done")
  <2>1. /\ file'[Pub] = file[Pub] /\ \A q \in Paths \ {d} : Untouched(q)
        /\ \A b \in Makers \ {a} : pc'[b] = pc[b]
        /\ UNCHANGED <<device_id, key_read, touched>>
        /\ pc[a] = "write"
        /\ \/ pc'[a] = "done" /\ file[d] = Unwritten(a) /\ file'[d] = Whole(a)
           \/ pc'[a] = "done" /\ file[d] # Unwritten(a) /\ Untouched(d)
           \/ pc'[a] = "failed" /\ Untouched(d)
      BY <1>0, <1>5, WriteStep DEF Writes, Untouched
  <2>2. /\ file[Pub] = Whole(key_read[a])
        /\ d \notin touched => file[d] = Unwritten(a)
      BY <2>1 DEF CodesInPlace, d
  <2> QED
      BY <1>3, <2>1, <2>2 DEF CodesInPlace, d
<1> QED
    BY <1>1, <1>2, <1>4, <1>5 DEF add_device, d

-----------------------------------------------------------------------------
(* The load.                                                               *)

\* A step of somebody else: what it changes does not stand still.
Elsewhere ==
    /\ UNCHANGED relayVars
    /\ steady' \subseteq steady /\ \A d \in steady' : Untouched(d)

LEMMA SetElsewhere ==
    ASSUME TypeOK, NEW p \in Paths, NEW content, Set(p, content), UNCHANGED relayVars
    PROVE  Elsewhere
    BY PathFacts DEF TypeOK, Set, Elsewhere, Untouched

LEMMA CommandElsewhere ==
    ASSUME TypeOK, NEW c \in Makers, NEW p \in Paths, NEW here, NEW there,
           \/ CreateNew(c, p, here, there) \/ CreateOver(c, p, here, there)
           \/ Write(c, p, here, there)
    PROVE  Elsewhere
<1>1. CASE UNCHANGED <<file, steady, relayVars>>
    BY <1>1 DEF Elsewhere, Untouched
<1>2. CASE Set(p, Unwritten(c)) /\ UNCHANGED relayVars
    BY <1>2, SetElsewhere
<1>3. CASE Write(c, p, here, there)
  <2>1. UNCHANGED relayVars
      BY <1>3 DEF Write
  <2>2. CASE UNCHANGED <<file, steady>>
      BY <1>1, <2>1, <2>2
  <2>3. CASE /\ file' = [file EXCEPT ![p] = IF @ = Unwritten(c) THEN Whole(c) ELSE @]
             /\ steady' = IF file[p] = Unwritten(c) THEN steady \ {p} ELSE steady
      BY <2>1, <2>3, PathFacts DEF TypeOK, Elsewhere, Untouched
  <2> QED
      BY <1>3, <2>2, <2>3 DEF Write
<1> QED
    BY <1>1, <1>2, <1>3 DEF CreateNew, CreateOver

\* Whatever others do, the load has the files that stood still as they are.
LEMMA LoadStep == TypeOK /\ LoadInPlace /\ [Next]_vars => LoadInPlace'
<1> SUFFICES ASSUME TypeOK, LoadInPlace, [Next]_vars PROVE LoadInPlace'
    OBVIOUS
<1>1. ASSUME Elsewhere PROVE LoadInPlace'
    BY <1>1 DEF Elsewhere, Untouched, LoadInPlace, relayVars
<1>2. ASSUME UNCHANGED <<file, steady, relayVars>> PROVE LoadInPlace'
    BY <1>1, <1>2 DEF Elsewhere, Untouched
<1>3. ASSUME NEW k \in Keygens, generate(k) PROVE LoadInPlace'
  <2>1. k \in Makers /\ Key \in Paths /\ Pub \in Paths
      BY PathFacts, MakerFacts
  <2>2. ASSUME NEW p, NEW here, NEW there, KeygenChecks(k, p, here, there) PROVE LoadInPlace'
      BY <1>2, <2>2 DEF KeygenChecks
  <2> QED
      BY <1>1, <1>3, <2>1, <2>2, CommandElsewhere DEF generate
<1>4. ASSUME NEW a \in Adders, add_device(a) PROVE LoadInPlace'
  <2>1. a \in Makers /\ device_id[a] \in Paths
      BY PathFacts, MakerFacts DEF TypeOK
  <2>2. CASE AddChecks(a) \/ LoadPublicKey(a)
      BY <1>2, <2>2 DEF AddChecks, LoadPublicKey
  <2> QED
      BY <1>1, <1>4, <2>1, <2>2, CommandElsewhere DEF add_device
<1>5. ASSUME NEW s \in Secrets, Tee(s) PROVE LoadInPlace'
  <2>1. s \in Makers /\ Controller \in Paths
      BY PathFacts, MakerFacts
  <2> QED
      BY <1>1, <1>5, <2>1, CommandElsewhere DEF Tee
<1>6. ASSUME NEW p \in TokenPaths, MoveAway(p) \/ MoveBack(p) PROVE LoadInPlace'
  <2>1. p \in Paths
      BY PathFacts
  <2> QED
      BY <1>1, <1>6, <2>1, SetElsewhere DEF MoveAway, MoveBack
<1>7. CASE Start
    BY <1>7 DEF Start, LoadInPlace
<1>8. CASE Stop
    BY <1>8, PathFacts DEF Stop, LoadInPlace, NoTokens
<1>9. ASSUME LoadFails PROVE LoadInPlace'
    BY <1>9, PathFacts DEF LoadFails, LoadInPlace, NoTokens
<1>10. CASE ReadController
  <2>1. ASSUME next' = [next EXCEPT ![Controller] = file[Controller].by],
               loading = "idle", loading' = "listing"
        PROVE  LoadInPlace'
      BY <2>1, PathFacts DEF TypeOK, LoadInPlace
  <2> QED
      BY <1>9, <1>10, <2>1 DEF ReadController
<1>11. CASE ListDevices
  <2>1. /\ loading = "listing" /\ loading' = "reading" /\ file' = file /\ next' = next
        /\ steady' = Devices /\ listed' = {d \in Devices : file[d] # Absent}
      BY <1>11 DEF ListDevices
  <2>2. Absent.by = "nobody"
      BY DEF Absent
  <2> QED
      BY <2>1, <2>2 DEF LoadInPlace
<1>12. ASSUME NEW d \in Devices, ReadDevice(d) PROVE LoadInPlace'
  <2>1. ASSUME file[d].whole, next' = [next EXCEPT ![d] = file[d].by],
               listed' = listed \ {d}, UNCHANGED <<loading, file, steady>>,
               loading = "reading"
        PROVE  LoadInPlace'
      BY <2>1, PathFacts DEF TypeOK, LoadInPlace
  <2> QED
      BY <1>9, <1>12, <2>1 DEF ReadDevice
<1>13. CASE Apply
    BY <1>13, PathFacts DEF Apply, LoadInPlace, NoTokens
<1>14. CASE UNCHANGED vars
    BY <1>2, <1>14 DEF vars
<1> QED
    BY <1>3, <1>4, <1>5, <1>6, <1>7, <1>8, <1>10, <1>11, <1>12, <1>13, <1>14
       DEF Next, load_auth_snapshot

-----------------------------------------------------------------------------
(* The invariant.                                                          *)

LEMMA InvInit == Init => IInv
<1> SUFFICES ASSUME Init PROVE IInv
    OBVIOUS
<1>1. PublicKeyMatches
    BY PathFacts DEF Init, PublicKeyMatches
<1>2. KeysInPlace /\ CodesInPlace
    BY MakerFacts DEF Init, KeysInPlace, CodesInPlace
<1>3. LoadInPlace
    BY PathFacts DEF Init, LoadInPlace, NoTokens
<1> QED
    BY <1>1, <1>2, <1>3, TypeInit DEF IInv

LEMMA InvStep == IInv /\ [Next]_vars => IInv'
<1> SUFFICES ASSUME IInv, [Next]_vars PROVE KeyInv' /\ CodesInPlace'
    BY TypeStep, LoadStep DEF IInv, KeyInv
<1>0. /\ TypeOK /\ KeyInv /\ CodesInPlace
      /\ Key \in Paths /\ Pub \in Paths /\ Controller \in Paths /\ Devices \subseteq Paths
      /\ Key \notin TokenPaths /\ Pub \notin TokenPaths /\ Devices \subseteq TokenPaths
      /\ Controller \notin Devices /\ TokenPaths \subseteq Paths
    BY PathFacts DEF IInv, KeyInv
<1>1. ASSUME NEW k \in Keygens, generate(k) PROVE KeyInv' /\ CodesInPlace'
  <2>1. /\ \A q \in Paths \ {Key, Pub} : Untouched(q)
        /\ \A c \in Makers \ {k} : pc'[c] = pc[c]
        /\ UNCHANGED <<device_id, key_read, touched>>
    <3>1. ASSUME NEW p \in {Key, Pub}, NEW here, NEW there,
                 \/ CreateNew(k, p, here, there) \/ Write(k, p, here, there)
                 \/ KeygenChecks(k, p, here, there)
          PROVE  /\ \A q \in Paths \ {Key, Pub} : Untouched(q)
                 /\ \A c \in Makers \ {k} : pc'[c] = pc[c]
                 /\ UNCHANGED <<device_id, key_read, touched>>
      <4>0. k \in Makers /\ p \in Paths
          BY <1>0, MakerFacts
      <4>1. CASE CreateNew(k, p, here, there)
          BY <1>0, <4>0, <4>1, CreateNewStep
      <4>2. CASE Write(k, p, here, there)
          BY <1>0, <4>0, <4>2, WriteStep
      <4>3. CASE KeygenChecks(k, p, here, there)
          BY <1>0, <4>0, <4>3, ChecksStep DEF Untouched
      <4> QED
          BY <3>1, <4>1, <4>2, <4>3
    <3> QED
        BY <1>1, <3>1 DEF generate
  <2>2. \A x : file[Pub] = Whole(x) => Untouched(Pub)
      BY <1>0, <1>1, PublicKeyStays
  <2>3. \A a \in Adders : pc'[a] = pc[a]
      BY <2>1, MakerFacts
  <2>4. \A d \in Devices \ touched' : Untouched(d)
      BY <1>0, <2>1
  <2>5. CodesInPlace'
      BY <1>0, <2>1, <2>2, <2>3, <2>4, CodesQuiet
  <2> QED
      BY <1>0, <1>1, <2>5, KeysStep
<1>2. ASSUME NEW a \in Adders, add_device(a) PROVE KeyInv' /\ CodesInPlace'
  <2>0. a \in Makers /\ device_id[a] \in Devices /\ \A k \in Keygens : k \in Makers \ {a}
      BY <1>0, MakerFacts DEF TypeOK
  <2>1. Untouched(Key) /\ Untouched(Pub) /\ \A k \in Keygens : pc'[k] = pc[k]
    <3>1. CASE AddChecks(a) \/ LoadPublicKey(a)
        BY <1>0, <2>0, <3>1 DEF AddChecks, LoadPublicKey, Goto, TypeOK, Untouched
    <3>2. ASSUME NEW here, NEW there,
                 CreateNew(a, device_id[a], here, there) \/ Write(a, device_id[a], here, there)
          PROVE  Untouched(Key) /\ Untouched(Pub) /\ \A k \in Keygens : pc'[k] = pc[k]
      <4>1. device_id[a] \in Paths /\ Key \in Paths \ {device_id[a]} /\ Pub \in Paths \ {device_id[a]}
          BY <1>0, <2>0
      <4> QED
          BY <1>0, <2>0, <3>2, <4>1, CreateNewStep, WriteStep
    <3> QED
        BY <1>2, <3>1, <3>2 DEF add_device
  <2> QED
      BY <1>0, <1>2, <2>1, KeysQuiet, CodesStep
<1>3. ASSUME NEW s \in Secrets, Tee(s) PROVE KeyInv' /\ CodesInPlace'
  <2>0. s \in Makers /\ \A c \in Keygens \cup Adders : c \in Makers \ {s}
      BY MakerFacts
  <2>1. /\ \A q \in Paths \ {Controller} : Untouched(q)
        /\ \A c \in Makers \ {s} : pc'[c] = pc[c]
        /\ UNCHANGED <<device_id, key_read, touched>>
      BY <1>0, <1>3, <2>0, CreateOverStep, WriteStep DEF Tee
  <2>2. Untouched(Key) /\ Untouched(Pub) /\ \A d \in Devices : Untouched(d)
      BY <1>0, <2>1, PathFacts
  <2>3. \A c \in Keygens \cup Adders : pc'[c] = pc[c]
      BY <2>0, <2>1
  <2>4. KeyInv'
      BY <1>0, <2>2, <2>3, KeysQuiet
  <2>5. CodesInPlace'
      BY <1>0, <2>1, <2>2, <2>3, CodesQuiet
  <2> QED
      BY <2>4, <2>5
<1>4. ASSUME NEW p \in TokenPaths, MoveAway(p) \/ MoveBack(p) PROVE KeyInv' /\ CodesInPlace'
  <2>1. /\ UNCHANGED <<pc, device_id, key_read>> /\ touched' = touched \cup {p}
        /\ \A q \in Paths \ {p} : Untouched(q)
      BY <1>0, <1>4 DEF MoveAway, MoveBack, Set, Untouched, TypeOK, addVars
  <2>2. Untouched(Key) /\ Untouched(Pub) /\ \A d \in Devices \ touched' : Untouched(d)
      BY <1>0, <2>1
  <2>3. KeyInv'
      BY <1>0, <2>1, <2>2, KeysQuiet
  <2>4. CodesInPlace'
      BY <1>0, <2>1, <2>2, CodesQuiet
  <2> QED
      BY <2>3, <2>4
<1>5. CASE Start \/ Stop \/ load_auth_snapshot \/ UNCHANGED vars
  <2>1. UNCHANGED <<file, pc, device_id, key_read, touched>>
      BY <1>5 DEF Start, Stop, load_auth_snapshot, ReadController, ListDevices,
                  ReadDevice, Apply, vars, addVars, historyVars
  <2> QED
      BY <1>0, <2>1 DEF KeyInv, PublicKeyMatches, KeysInPlace, CodesInPlace
<1> QED
    BY <1>1, <1>2, <1>3, <1>4, <1>5 DEF Next

\* The inductive invariant holds in every reachable state: a command that is
\* past a path owns the file there.
THEOREM Invariant == Spec => []IInv
    BY InvInit, InvStep, PTL DEF Spec

\* Type correctness, for any sets of devices and commands.
THEOREM TypeCorrect == Spec => []TypeOK
<1>1. IInv => TypeOK
    BY DEF IInv
<1> QED
    BY <1>1, Invariant, PTL

\* The public key file belongs to the private key, however many keygens ran
\* at once and wherever they failed (identity.rs, generate).
THEOREM KeysMatch == Spec => []PublicKeyMatches
<1>1. IInv => PublicKeyMatches
    BY DEF IInv
<1> QED
    BY <1>1, Invariant, PTL

\* A printed pairing code names the relay's key, and its token is on disk
\* until the operator moves it (server.rs, add_device).
THEOREM PrintedCodesAreGood == Spec => []PrintedCodesWork
<1>1. IInv => PrintedCodesWork
  <2> SUFFICES ASSUME IInv, NEW a \in Adders, pc[a] = "done"
               PROVE  /\ file[Key] = Whole(key_read[a])
                      /\ device_id[a] \notin touched => file[device_id[a]] = Whole(a)
      BY DEF PrintedCodesWork
  <2>1. /\ file[Pub] = Whole(key_read[a])
        /\ device_id[a] \notin touched => file[device_id[a]] = Whole(a)
      BY DEF IInv, CodesInPlace
  <2>2. file[Key] = Whole(file[Pub].by) /\ file[Pub].by = key_read[a]
      BY <2>1, WholeFacts DEF IInv, PublicKeyMatches
  <2> QED
      BY <2>1, <2>2
<1> QED
    BY <1>1, Invariant, PTL

\* A load that is applied has the tokens of all the device files that stood
\* still while it read them, and no others, however many commands and moves ran
\* beside it (server.rs, load_device_token_records).
THEOREM LoadsAreFaithful == Spec => LoadsSeeSteadyFiles
<1>1. IInv => [Apply => \A d \in steady :
                    /\ file[d] = Absent \/ file[d].whole
                    /\ auth'[d] = file[d].by]_vars
  <2> SUFFICES ASSUME IInv, Apply, NEW d \in steady
               PROVE  /\ file[d] = Absent \/ file[d].whole
                      /\ auth'[d] = file[d].by
      OBVIOUS
  <2>1. d \in steady \ listed /\ loading = "reading" /\ auth' = next
      BY DEF Apply
  <2> QED
      BY <2>1 DEF IInv, LoadInPlace
<1> QED
    BY <1>1, Invariant, PTL DEF LoadsSeeSteadyFiles
=============================================================================
