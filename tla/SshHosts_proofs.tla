--------------------------- MODULE SshHosts_proofs ---------------------------
(***************************************************************************)
(* For any devices, names and lines, and any number of starts and kills:    *)
(* the hosts that this version configured have their pairing code, a name   *)
(* is one device's, and only a write that is cut off loses lines of the     *)
(* user's.                                                                  *)
(***************************************************************************)
EXTENDS SshHosts, NaturalsInduction, WellFoundedInduction, TLAPS

-----------------------------------------------------------------------------
(* The inductive invariant.                                                *)

\* Why: who is past WriteSetup has left a good code, and no copy replaces one.
SetupInPlace ==
    /\ window \in {"setup", "config"} => settings.code = "good"
    /\ window = "config" \/ configured # {} => connect_setup = "good"

\* Inductive: the device being configured is one, and the parts above.
IInv ==
    /\ TypeOK /\ NamesAreUnique /\ SetupInPlace
    /\ window \in {"setup", "config"} => device \in Devices

-----------------------------------------------------------------------------
-----------------------------------------------------------------------------
(* The pairing code.                                                       *)

LEMMA SetupInit == Init => SetupInPlace
    BY DEF Init, SetupInPlace

LEMMA SetupStep == SetupInPlace /\ [Next]_vars => SetupInPlace'
<1> SUFFICES ASSUME SetupInPlace, [Next]_vars PROVE SetupInPlace'
    OBVIOUS
<1>1. CASE Start
    BY <1>1, LegacyAssumption DEF Start, SetupInPlace, files
<1>2. CASE MigrateSetup
    BY <1>2, FilesAssumption DEF MigrateSetup, SetupInPlace
<1>3. CASE RewriteSetupPath
    BY <1>3 DEF RewriteSetupPath, SetupInPlace
<1>4. CASE LoadSettings
    BY <1>4 DEF LoadSettings, SetupInPlace
<1>5. ASSUME NEW code \in Codes, EditCode(code) PROVE SetupInPlace'
    BY <1>5 DEF EditCode, SetupInPlace, files
<1>6. CASE Save
    BY <1>6 DEF Save, SetupInPlace
<1>7. ASSUME NEW d \in Devices, NEW name \in Names, SaveHostAlias(d, name)
      PROVE  SetupInPlace'
    BY <1>7 DEF SaveHostAlias, SetupInPlace
<1>8. ASSUME NEW d \in Devices, Configure(d) PROVE SetupInPlace'
    BY <1>8 DEF Configure, SetupInPlace
<1>9. CASE WriteSetup
    BY <1>9 DEF WriteSetup, SetupInPlace
<1>10. CASE UpdateConfig
  <2>1. window = "config" /\ window' = "up" /\ connect_setup' = connect_setup
      BY <1>10 DEF UpdateConfig
  <2> QED
      BY <2>1 DEF SetupInPlace
<1>11. CASE Exit
  <2>1. /\ window' = "down" /\ configured' = configured
        /\ connect_setup # None => connect_setup' = connect_setup
      BY <1>11 DEF Exit
  <2> QED
      BY <2>1, FilesAssumption DEF SetupInPlace
<1>12. ASSUME NEW line \in Lines, AddLine(line) PROVE SetupInPlace'
    BY <1>12 DEF AddLine, SetupInPlace
<1>13. CASE DeleteManaged
    BY <1>13 DEF DeleteManaged, SetupInPlace
<1>14. CASE UNCHANGED vars
    BY <1>14 DEF vars, files, SetupInPlace
<1> QED
    BY <1>1, <1>2, <1>3, <1>4, <1>5, <1>6, <1>7, <1>8, <1>9, <1>10, <1>11, <1>12,
       <1>13, <1>14 DEF Next

\* ssh to a host that this version configured finds its pairing code, at
\* whatever step the window was killed (install_ssh_host, write_private_file).
THEOREM ConfiguredHostsAlwaysWork == Spec => []ConfiguredHostsWork
<1>1. SetupInPlace => ConfiguredHostsWork
    BY DEF SetupInPlace, ConfiguredHostsWork
<1>2. Spec => []SetupInPlace
    BY SetupInit, SetupStep, PTL DEF Spec
<1> QED
    BY <1>1, <1>2, PTL

-----------------------------------------------------------------------------
(* The user's lines.                                                       *)

File(before, marks, blocks, after) ==
    [before |-> before, marks |-> marks, blocks |-> blocks, after |-> after]

Marks == {"none", "open", "closed"}

ConfigInv ==
    /\ tears \in Nat
    /\ \E marks \in Marks : \E before, blocks, after :
          config = File(before, marks, blocks, after)

KeepsLines == tears' = tears =>
    config.before \cup config.after \subseteq config'.before \cup config'.after

LEMMA LinesInit == Init => ConfigInv
<1> SUFFICES ASSUME Init PROVE ConfigInv
    OBVIOUS
<1>1. PICK before \in SUBSET Lines, old \in IF Legacy THEN SUBSET Devices ELSE {{}} :
          config \in
              IF old = {} THEN {[before |-> before, marks |-> "none", blocks |-> <<>>, after |-> {}]}
              ELSE {[before |-> before, marks |-> "closed", after |-> {},
                     blocks |-> <<[host |-> d, device |-> d, setup |-> "old"]>>] : d \in old}
    BY DEF Init
<1>2. CASE config = [before |-> before, marks |-> "none", blocks |-> <<>>, after |-> {}]
    BY <1>2 DEF Init, ConfigInv, File, Marks
<1>3. ASSUME NEW d,
             config = [before |-> before, marks |-> "closed", after |-> {},
                       blocks |-> <<[host |-> d, device |-> d, setup |-> "old"]>>]
      PROVE  ConfigInv
  <2>1. config = File(before, "closed", <<[host |-> d, device |-> d, setup |-> "old"]>>, {})
      BY <1>3 DEF File
  <2> QED
      BY <2>1 DEF Init, ConfigInv, Marks
<1> QED
    BY <1>1, <1>2, <1>3

\* A write of a file that has the lines of the one it replaces.
LEMMA WriteKeeps ==
    ASSUME ConfigInv, NEW file,
           \E marks \in Marks : \E blocks : file = File(config.before, marks, blocks, config.after),
           WriteConfig(file) \/ TearConfig(file)
    PROVE  ConfigInv' /\ KeepsLines
<1> PICK marks \in Marks : \E blocks : file = File(config.before, marks, blocks, config.after)
    OBVIOUS
<1>1. PICK blocks : file = File(config.before, marks, blocks, config.after)
    OBVIOUS
<1>2. CASE WriteConfig(file)
    BY <1>1, <1>2 DEF WriteConfig, ConfigInv, KeepsLines, File
<1>3. CASE TearConfig(file)
  <2>1. tears' = tears + 1 /\ tears' \in Nat /\ tears' # tears
      BY <1>3 DEF TearConfig, ConfigInv
  <2>2. config' \in CutOff(file)
      BY <1>3 DEF TearConfig
  <2>3. CASE \E kept : config' = [before |-> kept, marks |-> "none", blocks |-> <<>>, after |-> {}]
      BY <2>1, <2>3 DEF ConfigInv, KeepsLines, File, Marks
  <2>4. CASE \E n : config' = [file EXCEPT !.marks = "open", !.blocks = SubSeq(@, 1, n), !.after = {}]
    <3>1. PICK n : config' = [file EXCEPT !.marks = "open", !.blocks = SubSeq(@, 1, n), !.after = {}]
        BY <2>4
    <3>2. config' = File(config.before, "open", SubSeq(blocks, 1, n), {})
        BY <1>1, <3>1 DEF File
    <3> QED
        BY <2>1, <3>2 DEF ConfigInv, KeepsLines, Marks
  <2>5. CASE \E kept : config' = [file EXCEPT !.after = kept]
    <3>1. PICK kept : config' = [file EXCEPT !.after = kept]
        BY <2>5
    <3>2. config' = File(config.before, marks, blocks, kept)
        BY <1>1, <3>1 DEF File
    <3> QED
        BY <2>1, <3>2 DEF ConfigInv, KeepsLines, Marks
  <2> QED
      BY <2>2, <2>3, <2>4, <2>5 DEF CutOff
<1> QED
    BY <1>2, <1>3

\* The two texts that the program writes.
LEMMA NewTexts ==
    ASSUME ConfigInv
    PROVE  /\ \E marks \in Marks : \E blocks :
                 Rewritten = File(config.before, marks, blocks, config.after)
           /\ \A block : \A file \in Updated(block) :
                 \E marks \in Marks : \E blocks : file = File(config.before, marks, blocks, config.after)
<1> PICK marks \in Marks : \E before, blocks, after :
        config = File(before, marks, blocks, after)
    BY DEF ConfigInv
<1>1. PICK before, blocks, after : config = File(before, marks, blocks, after)
    OBVIOUS
<1>2. config.before = before /\ config.after = after /\ config.marks \in Marks
    BY <1>1 DEF File
<1>3. ASSUME NEW new PROVE [config EXCEPT !.blocks = new] = File(before, marks, new, after)
    BY <1>1 DEF File
<1>5. Rewritten = [config EXCEPT !.blocks =
                     [i \in DOMAIN config.blocks |-> [config.blocks[i] EXCEPT !.setup = "new"]]]
    BY <1>1 DEF Rewritten, File
<1>6. ASSUME NEW block, NEW file \in Updated(block)
      PROVE  \E m \in Marks : \E b : file = File(before, m, b, after)
  <2>1. \/ file = File(before, "closed", <<block>>, after)
        \/ file = [config EXCEPT !.blocks = Replace(block)]
    <3>1. CASE config.marks = "none"
        BY <1>2, <1>6, <3>1 DEF Updated, File
    <3>2. CASE config.marks = "closed"
        BY <1>6, <3>2 DEF Updated
    <3>3. CASE config.marks = "open"
        BY <1>6, <3>3 DEF Updated
    <3> QED
        BY <1>2, <3>1, <3>2, <3>3 DEF Marks
  <2>2. "closed" \in Marks
      BY DEF Marks
  <2> QED
      BY <1>3, <2>1, <2>2
<1>7. \E m \in Marks : \E b : Rewritten = File(config.before, m, b, config.after)
    BY <1>2, <1>3, <1>5
<1>8. \A block : \A file \in Updated(block) :
         \E m \in Marks : \E b : file = File(config.before, m, b, config.after)
    BY <1>2, <1>6
<1> QED
    BY <1>7, <1>8, Zenon

LEMMA LinesStep == ConfigInv /\ [Next]_vars => ConfigInv' /\ KeepsLines
<1> SUFFICES ASSUME ConfigInv, [Next]_vars PROVE ConfigInv' /\ KeepsLines
    OBVIOUS
<1>1. CASE UNCHANGED <<config, tears>>
    BY <1>1 DEF ConfigInv, KeepsLines
<1>2. ASSUME NEW file, WriteConfig(file) \/ TearConfig(file),
             file = Rewritten \/ \E block : file \in Updated(block)
      PROVE  ConfigInv' /\ KeepsLines
  <2>1. \E marks \in Marks : \E blocks :
           file = File(config.before, marks, blocks, config.after)
      BY <1>2, NewTexts
  <2> QED
      BY <1>2, <2>1, WriteKeeps
<1>3. CASE Start
    BY <1>1, <1>3 DEF Start, files
<1>4. CASE MigrateSetup
    BY <1>1, <1>4 DEF MigrateSetup
<1>5. CASE RewriteSetupPath
    BY <1>1, <1>2, <1>5 DEF RewriteSetupPath
<1>6. CASE LoadSettings
    BY <1>1, <1>6 DEF LoadSettings
<1>7. ASSUME NEW code \in Codes, EditCode(code) PROVE ConfigInv' /\ KeepsLines
    BY <1>1, <1>7 DEF EditCode, files
<1>8. CASE Save
    BY <1>1, <1>8 DEF Save
<1>9. ASSUME NEW d \in Devices, NEW name \in Names, SaveHostAlias(d, name)
      PROVE  ConfigInv' /\ KeepsLines
    BY <1>1, <1>9 DEF SaveHostAlias
<1>10. ASSUME NEW d \in Devices, Configure(d) PROVE ConfigInv' /\ KeepsLines
    BY <1>1, <1>10 DEF Configure
<1>11. CASE WriteSetup
    BY <1>1, <1>11 DEF WriteSetup
<1>12. CASE UpdateConfig
  <2>1. \/ \E block : \E file \in Updated(block) : WriteConfig(file) \/ TearConfig(file)
        \/ UNCHANGED <<config, tears>>
      BY <1>12 DEF UpdateConfig
  <2> QED
      BY <1>1, <1>2, <2>1
<1>13. CASE Exit
  <2>1. \/ UNCHANGED <<config, tears>>
        \/ TearConfig(Rewritten)
        \/ \E block : \E file \in Updated(block) : TearConfig(file)
      BY <1>13 DEF Exit
  <2> QED
      BY <1>1, <1>2, <2>1
<1>14. ASSUME NEW line \in Lines, AddLine(line) PROVE ConfigInv' /\ KeepsLines
  <2> PICK marks \in Marks : \E before, blocks, after :
          config = File(before, marks, blocks, after)
      BY DEF ConfigInv
  <2>1. PICK before, blocks, after : config = File(before, marks, blocks, after)
      OBVIOUS
  <2>2. tears' = tears
      BY <1>14 DEF AddLine
  <2>3. \/ config' = File(before \cup {line}, marks, blocks, after)
        \/ config' = File(before, marks, blocks, after \cup {line})
      BY <1>14, <2>1 DEF AddLine, File
  <2>4. ConfigInv'
      BY <2>2, <2>3 DEF ConfigInv
  <2>5. KeepsLines
      BY <2>1, <2>3 DEF KeepsLines, File
  <2> QED
      BY <2>4, <2>5
<1>15. CASE DeleteManaged
  <2>1. /\ tears' = tears
        /\ config' = File(config.before \cup config.after, "none", <<>>, {})
      BY <1>15 DEF DeleteManaged, File
  <2> QED
      BY <2>1 DEF ConfigInv, KeepsLines, File, Marks
<1>16. CASE UNCHANGED vars
    BY <1>1, <1>16 DEF vars, files
<1> QED
    BY <1>3, <1>4, <1>5, <1>6, <1>7, <1>8, <1>9, <1>10, <1>11, <1>12, <1>13, <1>14,
       <1>15, <1>16 DEF Next

\* Only a write that is cut off loses lines of the user's, whatever the other
\* writes make of a file without its end marker (update_managed_ssh_config,
\* rewrite_setup_path_in_ssh_config).
THEOREM OnlyTornWritesLoseLines == Spec => UserLinesKept
<1>1. ConfigInv /\ [Next]_vars =>
          [tears' = tears => config.before \cup config.after
                                 \subseteq config'.before \cup config'.after]_vars
    BY LinesStep DEF KeepsLines
<1> QED
    BY <1>1, LinesInit, LinesStep, PTL DEF Spec, UserLinesKept

-----------------------------------------------------------------------------
(* The names.                                                              *)

\* Lists of Host blocks in which a name is one device's.
Distinct(s) == \A i, j \in DOMAIN s : i # j => Differ(s[i], s[j])
BlockLists == {s \in Seq(Block) : Distinct(s)}

LEMMA BlockListIs ==
    ASSUME NEW s \in BlockLists
    PROVE  /\ s \in Seq(Block) /\ Len(s) \in Nat /\ DOMAIN s = 1..Len(s)
           /\ \A i \in 1..Len(s) : s[i] \in Block
           /\ \A i, j \in 1..Len(s) : i # j => Differ(s[i], s[j])
BY DEF BlockLists, Distinct

LEMMA ShortLists ==
    ASSUME NEW b \in Block
    PROVE  <<>> \in BlockLists /\ <<b>> \in BlockLists
BY DEF BlockLists, Distinct

\* A list that is cut off.
LEMMA BeginningOfList ==
    ASSUME NEW s \in BlockLists, NEW n \in 0..Len(s)
    PROVE  SubSeq(s, 1, n) \in BlockLists
<1>1. /\ SubSeq(s, 1, n) \in Seq(Block) /\ DOMAIN SubSeq(s, 1, n) = 1..n
      /\ \A i \in 1..n : SubSeq(s, 1, n)[i] = s[i] /\ i \in 1..Len(s)
  BY BlockListIs
<1>2. \A i, j \in 1..n : i # j => Differ(SubSeq(s, 1, n)[i], SubSeq(s, 1, n)[j])
  BY <1>1, BlockListIs
<1> QED
  BY <1>1, <1>2, Zenon DEF BlockLists, Distinct

\* A list whose blocks name another file.
LEMMA RewrittenList ==
    ASSUME NEW s \in BlockLists
    PROVE  [i \in DOMAIN s |-> [s[i] EXCEPT !.setup = "new"]] \in BlockLists
<1> DEFINE t == [i \in DOMAIN s |-> [s[i] EXCEPT !.setup = "new"]]
<1>1. \A i \in 1..Len(s) : t[i] \in Block /\ t[i].host = s[i].host /\ t[i].device = s[i].device
  BY BlockListIs DEF Block
<1>2. t \in Seq(Block) /\ DOMAIN t = 1..Len(s)
  <2>1. DOMAIN s = 1..Len(s) /\ Len(s) \in Nat
    BY BlockListIs
  <2>2. t \in [1..Len(s) -> Block] /\ DOMAIN t = 1..Len(s)
    BY <1>1, <2>1
  <2> HIDE DEF t
  <2> QED
    BY <2>1, <2>2
<1> HIDE DEF t
<1>3. \A i, j \in DOMAIN t : i # j => Differ(t[i], t[j])
  BY <1>1, <1>2, BlockListIs DEF Differ
<1> QED
  BY <1>2, <1>3 DEF BlockLists, Distinct, t

LEMMA SetInduction ==
    ASSUME NEW S \in SUBSET Nat, 0 \in S, \A n \in S : n + 1 \in S
    PROVE  S = Nat
<1> SUFFICES ASSUME Nat \ S # {} PROVE FALSE
  OBVIOUS
<1>1. PICK x \in Nat \ S : \A y \in Nat \ S : ~ (<<y, x>> \in OpToRel(<, Nat))
  BY NatLessThanWellFounded, WFMin
<1>2. \A y \in Nat \ S : ~(y < x)
  BY <1>1 DEF OpToRel
<1>3. x - 1 \in Nat /\ x - 1 < x /\ (x - 1) + 1 = x
  OBVIOUS
<1> QED
  BY <1>2, <1>3

\* What among of Retained is for the first n blocks.
Choice(s, b, n, before) ==
    IF n = 0 THEN <<>> ELSE IF Differ(s[n], b) THEN Append(before, s[n]) ELSE before

LEMMA RetainedExists ==
    ASSUME NEW s \in BlockLists, NEW b
    PROVE  \E f : f = [n \in 0..Len(s) |-> Choice(s, b, n, f[n - 1])]
<1> DEFINE S == {m \in Nat : m <= Len(s) =>
                     \E f : f = [n \in 0..m |-> Choice(s, b, n, f[n - 1])]}
<1>1. 0 \in S
  <2> DEFINE f == [n \in 0..0 |-> <<>>]
  <2>1. f = [n \in 0..0 |-> Choice(s, b, n, f[n - 1])]
    BY DEF Choice
  <2> QED
    BY <2>1
<1>2. ASSUME NEW m \in S PROVE m + 1 \in S
  <2> SUFFICES ASSUME m + 1 <= Len(s)
               PROVE  \E f : f = [n \in 0..(m + 1) |-> Choice(s, b, n, f[n - 1])]
    BY BlockListIs
  <2>1. PICK g : g = [n \in 0..m |-> Choice(s, b, n, g[n - 1])]
    BY BlockListIs
  <2> DEFINE f == [n \in 0..(m + 1) |->
                     IF n = m + 1 THEN Choice(s, b, n, g[m]) ELSE g[n]]
  <2>2. \A n \in 0..(m + 1) : f[n] = Choice(s, b, n, f[n - 1])
    <3> SUFFICES ASSUME NEW n \in 0..(m + 1) PROVE f[n] = Choice(s, b, n, f[n - 1])
      OBVIOUS
    <3>1. CASE n = m + 1
      <4>1. n - 1 = m /\ m \in 0..(m + 1) /\ m # m + 1
        BY <3>1
      <4> QED
        BY <3>1, <4>1
    <3>2. CASE n = 0
      <4>1. 0 \in 0..m /\ 0 # m + 1
        OBVIOUS
      <4> QED
        BY <2>1, <3>2, <4>1 DEF Choice
    <3>3. CASE n # m + 1 /\ n # 0
      <4>1. n \in 0..m /\ n - 1 \in 0..(m + 1) /\ n - 1 # m + 1
        BY <3>3
      <4>2. f[n] = g[n] /\ f[n - 1] = g[n - 1] /\ g[n] = Choice(s, b, n, g[n - 1])
        BY <2>1, <3>3, <4>1
      <4> QED
        BY <4>2
    <3> QED
      BY <3>1, <3>2, <3>3
  <2>3. f = [n \in 0..(m + 1) |-> f[n]]
    OBVIOUS
  <2> HIDE DEF f
  <2>4. f = [n \in 0..(m + 1) |-> Choice(s, b, n, f[n - 1])]
    BY <2>2, <2>3
  <2> QED
    BY <2>4
<1>3. S = Nat
  BY <1>1, <1>2, SetInduction
<1> QED
  BY <1>3, BlockListIs

\* A list without the blocks of a host and of a device, and one of both.
LEMMA ReplacedList ==
    ASSUME NEW s \in BlockLists, NEW b \in Block
    PROVE  Append(Retained(s, b), b) \in BlockLists
<1> DEFINE E(f) == [n \in 0..Len(s) |-> Choice(s, b, n, f[n - 1])]
           among == CHOOSE f : f = E(f)
           Good(q, n) == /\ q \in BlockLists
                         /\ \A j \in 1..Len(q) :
                                \E i \in 1..n : q[j] = s[i] /\ Differ(s[i], b)
<1>1. Retained(s, b) = among[Len(s)]
  BY DEF Retained, Choice
<1>2. among = E(among)
  <2>1. \E f : f = E(f)
    BY RetainedExists
  <2> HIDE DEF E
  <2> QED
    BY <2>1
<1> HIDE DEF among
<1>3. \A n \in 0..Len(s) : among[n] = Choice(s, b, n, among[n - 1])
  BY <1>2
<1> DEFINE S == {n \in Nat : n <= Len(s) => Good(among[n], n)}
<1>4. 0 \in S
  <2>1. among[0] = <<>>
    BY <1>3, BlockListIs DEF Choice
  <2>2. <<>> \in BlockLists /\ Len(<<>>) = 0
    BY ShortLists
  <2> QED
    BY <2>1, <2>2
<1>5. ASSUME NEW n \in S PROVE n + 1 \in S
  <2> SUFFICES ASSUME n + 1 <= Len(s) PROVE Good(among[n + 1], n + 1)
    OBVIOUS
  <2> DEFINE q == among[n]
             r == s[n + 1]
  <2>1. /\ n + 1 \in 1..Len(s) /\ n + 1 \in 0..Len(s) /\ n + 1 # 0 /\ (n + 1) - 1 = n
        /\ r \in Block
    BY BlockListIs
  <2>2. among[n + 1] = IF Differ(r, b) THEN Append(q, r) ELSE q
    BY <1>3, <2>1 DEF Choice
  <2>3. Good(q, n)
    BY <2>1, BlockListIs
  <2> HIDE DEF q
  <2>4. Good(q, n + 1)
    BY <2>3
  <2>5. ASSUME Differ(r, b) PROVE Good(Append(q, r), n + 1)
    <3>1. /\ Append(q, r) \in Seq(Block) /\ DOMAIN Append(q, r) = 1..(Len(q) + 1)
          /\ Len(Append(q, r)) = Len(q) + 1 /\ Len(q) \in Nat
          /\ Append(q, r)[Len(q) + 1] = r
          /\ \A j \in 1..Len(q) : Append(q, r)[j] = q[j]
      BY <2>1, <2>3, BlockListIs
    <3>2. \A j \in 1..Len(q) : Differ(q[j], r) /\ Differ(r, q[j])
      <4> SUFFICES ASSUME NEW j \in 1..Len(q) PROVE Differ(q[j], r) /\ Differ(r, q[j])
        OBVIOUS
      <4>1. PICK i \in 1..n : q[j] = s[i]
        BY <2>3
      <4>2. i \in 1..Len(s) /\ i # n + 1
        BY <2>1
      <4> QED
        BY <2>1, <4>1, <4>2, BlockListIs
    <3>3. \A j \in 1..(Len(q) + 1) : j \in 1..Len(q) \/ j = Len(q) + 1
      BY <3>1
    <3>4. \A j, k \in 1..(Len(q) + 1) : j # k => Differ(Append(q, r)[j], Append(q, r)[k])
      <4>1. \A j, k \in 1..Len(q) : j # k => Differ(q[j], q[k])
        BY <2>3, BlockListIs
      <4> QED
        BY <3>1, <3>2, <3>3, <4>1
    <3>5. Append(q, r) \in BlockLists
      BY <3>1, <3>4 DEF BlockLists, Distinct
    <3>6. ASSUME NEW j \in 1..(Len(q) + 1)
          PROVE  \E i \in 1..(n + 1) : Append(q, r)[j] = s[i] /\ Differ(s[i], b)
      <4>1. CASE j = Len(q) + 1
        BY <2>1, <2>5, <3>1, <4>1
      <4>2. CASE j \in 1..Len(q)
        BY <2>4, <3>1, <4>2
      <4> QED
        BY <3>3, <4>1, <4>2
    <3> QED
      BY <3>1, <3>5, <3>6
  <2> QED
    BY <2>2, <2>4, <2>5
<1>6. S = Nat
  BY <1>4, <1>5, SetInduction
<1> DEFINE q == among[Len(s)]
<1>7. Good(q, Len(s))
  BY <1>6, BlockListIs
<1> HIDE DEF q
<1>8. /\ Append(q, b) \in Seq(Block) /\ DOMAIN Append(q, b) = 1..(Len(q) + 1)
      /\ Len(q) \in Nat /\ Append(q, b)[Len(q) + 1] = b
      /\ \A j \in 1..Len(q) : Append(q, b)[j] = q[j]
  BY <1>7, BlockListIs
<1>9. \A j \in 1..Len(q) : Differ(q[j], b) /\ Differ(b, q[j])
  BY <1>7 DEF Differ
<1>10. \A j, k \in 1..(Len(q) + 1) : j # k => Differ(Append(q, b)[j], Append(q, b)[k])
  <2>1. \A j \in 1..(Len(q) + 1) : j \in 1..Len(q) \/ j = Len(q) + 1
    BY <1>8
  <2>2. \A j, k \in 1..Len(q) : j # k => Differ(q[j], q[k])
    BY <1>7, BlockListIs
  <2> QED
    BY <1>8, <1>9, <2>1, <2>2
<1> QED
  BY <1>1, <1>8, <1>10 DEF BlockLists, Distinct, q

-----------------------------------------------------------------------------
(* Types, and the names in the SSH configuration.                          *)

Files == [before : SUBSET Lines, marks : {"none", "open", "closed"},
          blocks : BlockLists, after : SUBSET Lines]

LEMMA FilesAre ==
    ASSUME NEW f \in Files
    PROVE  /\ f.before \in SUBSET Lines /\ f.after \in SUBSET Lines
           /\ f.marks \in {"none", "open", "closed"} /\ f.blocks \in BlockLists
           /\ f = [before |-> f.before, marks |-> f.marks, blocks |-> f.blocks,
                   after |-> f.after]
BY DEF Files

\* What is left of a write that was cut off.
LEMMA CutOffType ==
    ASSUME NEW f \in Files, NEW g \in CutOff(f)
    PROVE  g \in Files
<1>1. CASE \E kept \in SUBSET f.before :
               g = [before |-> kept, marks |-> "none", blocks |-> <<>>, after |-> {}]
  <2>1. <<>> \in BlockLists
    BY DEF BlockLists, Distinct
  <2> QED
    BY <1>1, <2>1, FilesAre DEF Files
<1>2. CASE \E n \in 0..Len(f.blocks) :
               g = [f EXCEPT !.marks = "open", !.blocks = SubSeq(@, 1, n), !.after = {}]
  <2>1. PICK n \in 0..Len(f.blocks) :
            g = [f EXCEPT !.marks = "open", !.blocks = SubSeq(@, 1, n), !.after = {}]
    BY <1>2
  <2>2. SubSeq(f.blocks, 1, n) \in BlockLists
    BY FilesAre, BeginningOfList
  <2>3. g = [before |-> f.before, marks |-> "open", blocks |-> SubSeq(f.blocks, 1, n),
             after |-> {}]
    <3>1. PICK x, m, y, z : f = [before |-> x, marks |-> m, blocks |-> y, after |-> z]
      BY DEF Files
    <3> QED
      BY <2>1, <3>1
  <2> QED
    BY <2>2, <2>3, FilesAre DEF Files
<1>3. CASE \E kept \in SUBSET f.after : g = [f EXCEPT !.after = kept]
  BY <1>3, FilesAre DEF Files
<1> QED
  BY <1>1, <1>2, <1>3 DEF CutOff

LEMMA RewrittenType ==
    ASSUME config \in Files
    PROVE  Rewritten \in Files
<1>1. [i \in DOMAIN config.blocks |-> [config.blocks[i] EXCEPT !.setup = "new"]] \in BlockLists
  BY FilesAre, RewrittenList
<1>2. Rewritten = [before |-> config.before, marks |-> config.marks,
                   blocks |-> [i \in DOMAIN config.blocks |->
                                  [config.blocks[i] EXCEPT !.setup = "new"]],
                   after |-> config.after]
  BY FilesAre DEF Rewritten
<1> QED
  BY <1>1, <1>2, FilesAre DEF Files

LEMMA UpdatedType ==
    ASSUME config \in Files, NEW block \in Block, NEW file \in Updated(block)
    PROVE  file \in Files
<1>1. CASE config.marks = "none"
  BY <1>1, FilesAre, ShortLists DEF Updated, Files
<1>2. CASE config.marks = "closed"
  <2>1. file = [config EXCEPT !.blocks = Replace(block)]
    BY <1>2 DEF Updated
  <2>2. Replace(block) \in BlockLists
    BY FilesAre, ReplacedList DEF Replace
  <2>3. file = [before |-> config.before, marks |-> config.marks,
                blocks |-> Replace(block), after |-> config.after]
    BY <2>1, FilesAre
  <2> QED
    BY <2>2, <2>3, FilesAre DEF Files
<1>3. CASE config.marks = "open"
  BY <1>3 DEF Updated
<1> QED
  BY <1>1, <1>2, <1>3, FilesAre

LEMMA WriteType ==
    ASSUME NEW file \in Files, tears \in 0..MaxTears, WriteConfig(file) \/ TearConfig(file)
    PROVE  config' \in Files /\ tears' \in 0..MaxTears
BY CutOffType, BoundsAssumption DEF WriteConfig, TearConfig

\* The window's part of the state.
WindowTyped ==
    /\ window \in {"down", "migrate", "rewrite", "load", "up", "setup", "config"}
    /\ device \in Devices \cup {None}
    /\ window \in {"setup", "config"} => device \in Devices
    /\ settings \in Settings
    /\ connect_json \in {None, Partial} \cup Settings
    /\ connect_setup \in {None, Partial, "good"}
    /\ configured \subseteq Devices

FilesTyped == config \in Files /\ tears \in 0..MaxTears

LEMMA SettingsAre ==
    /\ NoSettings \in Settings /\ LegacySettings \in Settings
    /\ \A s \in Settings : s.code \in Codes /\ s.aliases \in [Devices -> Names \cup {None}]
    /\ \A s \in Settings, code \in Codes : [s EXCEPT !.code = code] \in Settings
    /\ \A s \in Settings, d \in Devices, a \in Names \cup {None} :
           [s EXCEPT !.aliases[d] = a] \in Settings
BY DEF NoSettings, LegacySettings, Settings, Codes

\* The block that UpdateConfig writes.
LEMMA NewBlock ==
    ASSUME WindowTyped, window = "config"
    PROVE  [host |-> HostOf(device), device |-> device, setup |-> "new"] \in Block
<1>1. device \in Devices /\ settings.aliases \in [Devices -> Names \cup {None}]
  BY SettingsAre DEF WindowTyped
<1>2. HostOf(device) \in Names
  BY <1>1 DEF HostOf, Names
<1> QED
  BY <1>1, <1>2 DEF Block

LEMMA WindowStep == WindowTyped /\ SetupInPlace /\ [Next]_vars => WindowTyped'
<1> SUFFICES ASSUME WindowTyped, SetupInPlace, [Next]_vars PROVE WindowTyped'
  OBVIOUS
<1>1. CASE Start
  BY <1>1, SettingsAre DEF Start, WindowTyped, files
<1>2. CASE MigrateSetup
  BY <1>2, SettingsAre DEF MigrateSetup, WindowTyped, files
<1>3. CASE RewriteSetupPath
  BY <1>3, SettingsAre DEF RewriteSetupPath, WindowTyped, files
<1>4. CASE LoadSettings
  BY <1>4, SettingsAre DEF LoadSettings, WindowTyped, files
<1>5. ASSUME NEW code \in Codes, EditCode(code)
      PROVE  WindowTyped'
  BY <1>5, SettingsAre DEF EditCode, WindowTyped, files
<1>6. CASE Save
  BY <1>6, SettingsAre DEF Save, WindowTyped, files, SaveSettings
<1>7. ASSUME NEW d \in Devices, Configure(d)
      PROVE  WindowTyped'
  BY <1>7, SettingsAre DEF Configure, WindowTyped, files
<1>8. ASSUME NEW d \in Devices, NEW name \in Names, SaveHostAlias(d, name)
      PROVE  WindowTyped'
  <2>1. settings' \in Settings
    <3> DEFINE a == IF name = d THEN None ELSE name
    <3>1. a \in Names \cup {None}
      OBVIOUS
    <3>2. settings' = [settings EXCEPT !.aliases[d] = a]
      BY <1>8 DEF SaveHostAlias
    <3> HIDE DEF a
    <3> QED
      BY <3>1, <3>2, SettingsAre DEF WindowTyped
  <2> QED
    BY <1>8, <2>1 DEF SaveHostAlias, WindowTyped, SaveSettings
<1>9. CASE WriteSetup
  BY <1>9, SettingsAre DEF WriteSetup, WindowTyped, files, SetupInPlace
<1>10. CASE UpdateConfig
  BY <1>10, SettingsAre DEF UpdateConfig, WindowTyped, files
<1>11. CASE Exit
  BY <1>11, SettingsAre DEF Exit, WindowTyped, files
<1>12. ASSUME NEW line \in Lines, AddLine(line)
      PROVE  WindowTyped'
  BY <1>12, SettingsAre DEF AddLine, WindowTyped, files
<1>13. CASE DeleteManaged
  BY <1>13, SettingsAre DEF DeleteManaged, WindowTyped, files
<1>14. CASE UNCHANGED vars
  BY <1>14 DEF vars, files, WindowTyped
<1> QED
  BY <1>1, <1>2, <1>3, <1>4, <1>5, <1>6, <1>7,
     <1>8, <1>9, <1>10, <1>11, <1>12, <1>13, <1>14 DEF Next

LEMMA FilesStep == WindowTyped /\ FilesTyped /\ [Next]_vars => FilesTyped'
<1> SUFFICES ASSUME WindowTyped, FilesTyped, [Next]_vars PROVE FilesTyped'
  OBVIOUS
<1>1. CASE Start
  BY <1>1 DEF Start, FilesTyped, files
<1>2. CASE MigrateSetup
  BY <1>2 DEF MigrateSetup, FilesTyped, files
<1>3. CASE RewriteSetupPath
  BY <1>3, RewrittenType, WriteType DEF RewriteSetupPath, FilesTyped
<1>4. CASE LoadSettings
  BY <1>4 DEF LoadSettings, FilesTyped, files
<1>5. ASSUME NEW code \in Codes, EditCode(code)
      PROVE  FilesTyped'
  BY <1>5 DEF EditCode, FilesTyped, files
<1>6. CASE Save
  BY <1>6 DEF Save, FilesTyped, files
<1>7. ASSUME NEW d \in Devices, Configure(d)
      PROVE  FilesTyped'
  BY <1>7 DEF Configure, FilesTyped, files
<1>8. ASSUME NEW d \in Devices, NEW name \in Names, SaveHostAlias(d, name)
      PROVE  FilesTyped'
  BY <1>8 DEF SaveHostAlias, FilesTyped, files
<1>9. CASE WriteSetup
  BY <1>9 DEF WriteSetup, FilesTyped, files
<1>10. CASE UpdateConfig
  <2>1. \/ UNCHANGED <<config, tears>>
        \/ \E file \in Updated([host |-> HostOf(device), device |-> device, setup |-> "new"]) :
              WriteConfig(file) \/ TearConfig(file)
    BY <1>10 DEF UpdateConfig
  <2>2. [host |-> HostOf(device), device |-> device, setup |-> "new"] \in Block
    BY <1>10, NewBlock DEF UpdateConfig
  <2> QED
    BY <2>1, <2>2, UpdatedType, WriteType DEF FilesTyped
<1>11. CASE Exit
  <2>1. CASE UNCHANGED <<config, tears>>
    BY <2>1 DEF FilesTyped
  <2>2. CASE TearConfig(Rewritten)
    BY <2>2, RewrittenType, WriteType DEF FilesTyped
  <2>3. ASSUME window = "config",
               NEW file \in Updated([host |-> HostOf(device), device |-> device, setup |-> "new"]),
               TearConfig(file)
        PROVE  FilesTyped'
    BY <2>3, NewBlock, UpdatedType, WriteType DEF FilesTyped
  <2> QED
    BY <1>11, <2>1, <2>2, <2>3 DEF Exit
<1>12. ASSUME NEW line \in Lines, AddLine(line)
      PROVE  FilesTyped'
  <2>1. \/ config' = [before |-> config.before \cup {line}, marks |-> config.marks,
                       blocks |-> config.blocks, after |-> config.after]
        \/ config' = [before |-> config.before, marks |-> config.marks,
                       blocks |-> config.blocks, after |-> config.after \cup {line}]
    BY <1>12, FilesAre DEF AddLine, FilesTyped
  <2> QED
    BY <1>12, <2>1, FilesAre DEF AddLine, FilesTyped, Files
<1>13. CASE DeleteManaged
  <2>1. <<>> \in BlockLists
    BY DEF BlockLists, Distinct
  <2> QED
    BY <1>13, <2>1, FilesAre DEF DeleteManaged, FilesTyped, Files
<1>14. CASE UNCHANGED vars
  BY <1>14 DEF vars, files, FilesTyped
<1> QED
  BY <1>1, <1>2, <1>3, <1>4, <1>5, <1>6, <1>7,
     <1>8, <1>9, <1>10, <1>11, <1>12, <1>13, <1>14 DEF Next

LEMMA TypesInit == Init => WindowTyped /\ FilesTyped
<1> SUFFICES ASSUME Init PROVE WindowTyped /\ FilesTyped
  OBVIOUS
<1>1. WindowTyped
  BY SettingsAre DEF Init, WindowTyped
<1>2. config \in Files
  <2>1. \E before \in SUBSET Lines :
           \/ config = [before |-> before, marks |-> "none", blocks |-> <<>>, after |-> {}]
           \/ \E d \in Devices :
                 config = [before |-> before, marks |-> "closed", after |-> {},
                           blocks |-> <<[host |-> d, device |-> d, setup |-> "old"]>>]
    BY DEF Init
  <2>2. <<>> \in BlockLists
    BY DEF BlockLists, Distinct
  <2>3. ASSUME NEW d \in Devices
        PROVE  <<[host |-> d, device |-> d, setup |-> "old"]>> \in BlockLists
    BY ShortLists DEF Block, Names
  <2> QED
    BY <2>1, <2>2, <2>3 DEF Files
<1>3. tears \in 0..MaxTears
  BY BoundsAssumption DEF Init
<1> QED
  BY <1>1, <1>2, <1>3 DEF FilesTyped

\* The inductive invariant.
THEOREM Invariant == Spec => []IInv
<1>1. WindowTyped /\ FilesTyped /\ SetupInPlace => IInv
  <2> SUFFICES ASSUME WindowTyped, FilesTyped, SetupInPlace PROVE IInv
    OBVIOUS
  <2>1. /\ config.blocks \in Seq(Block) /\ Distinct(config.blocks)
        /\ config \in [before : SUBSET Lines, marks : {"none", "open", "closed"},
                       blocks : Seq(Block), after : SUBSET Lines]
    <3>1. config \in Files /\ BlockLists \subseteq Seq(Block)
      BY DEF FilesTyped, BlockLists
    <3>2. config.blocks \in Seq(Block) /\ Distinct(config.blocks)
      BY <3>1, FilesAre, Zenon DEF BlockLists
    <3> QED
      BY <3>1, <3>2 DEF Files
  <2>2. TypeOK
    BY <2>1, Zenon DEF WindowTyped, FilesTyped, TypeOK
  <2>3. NamesAreUnique
    BY <2>1, Zenon DEF NamesAreUnique, Distinct
  <2> QED
    BY <2>2, <2>3, Zenon DEF WindowTyped, IInv
<1> QED
  BY TypesInit, WindowStep, FilesStep, SetupInit, SetupStep, <1>1, PTL DEF Spec

\* What is in memory, in the settings, in the setup file and in the SSH
\* configuration has its type, also after any write that was cut off.
THEOREM TypeCorrect == Spec => []TypeOK
<1>1. IInv => TypeOK
  BY DEF IInv
<1> QED
  BY Invariant, <1>1, PTL

\* A name in the SSH configuration is one device's and a device has one name,
\* after any series of renamings, names handed on, and writes cut off
\* (update_managed_ssh_config 1627-1638): what retain keeps of a list without
\* repetitions has none, and differs from the block that is pushed.
THEOREM NamesStayUnique == Spec => []NamesAreUnique
<1>1. IInv => NamesAreUnique
  BY DEF IInv
<1> QED
  BY Invariant, <1>1, PTL
=============================================================================
