-------------------------- MODULE HmiMessagesProofs --------------------------
(***************************************************************************)
(* What HmiMessages promises, for any percentages, statuses and reports.   *)
(* The strengthening is about the stored percentage: while an upgrade runs *)
(* it is 100 or more only if it was when the upgrade began, and nothing    *)
(* has been reported since.                                                *)
(*                                                                         *)
(* The last section is about the two readers of L1Manifest, for manifests  *)
(* with any packages.                                                      *)
(***************************************************************************)
EXTENDS HmiMessages, L1Manifest, TLAPS

StalePercent ==
  upgrade = "running" /\ percent >= 100 => before >= 100 /\ empties /\ report = <<>>

\* The lengths of all messages: a message to the HMI is longer than 255 bytes if and only
\* if it is a progress report (lines 237 to 485).
LEMMA Lengths ==
  ASSUME NEW p \in Percents, NEW s \in Statuses, NEW u \in 0..63
  PROVE  /\ HmiLength(1, p, s, u) \in 134..197
         /\ HmiLength(2, p, s, u) \in 93..156
         /\ HmiLength(3, p, s, u) \in 316..332
<1>1. StatusLength[s] \in 0..14
  BY HmiMessagesAssumption
<1>2. Digits(p) \in 1..3
  BY DEF Digits
<1>3. HmiLength(1, p, s, u) = 134 + u /\ HmiLength(2, p, s, u) = 93 + u
  BY DEF HmiLength
<1>4. HmiLength(3, p, s, u) = 258 + 3 * 19 + StatusLength[s] + Digits(p)
  BY DEF HmiLength
<1> QED
  BY <1>1, <1>2, <1>3, <1>4

\* The shifts to the left lose the number of whole 256s (lines 291 to 295).
LEMMA HmiHeaders ==
  ASSUME NEW n \in Nat
  PROVE  /\ HmiHeader(n) \in Seq(0..255)
         /\ Announced(HmiHeader(n)) = n % 256
<1>1. n % 256 \in 0..255
  OBVIOUS
<1>2. HmiHeader(n) = <<0, 0, 0, n % 256>>
  BY DEF HmiHeader, ShiftedLeft
<1> QED
  BY <1>1, <1>2 DEF Announced

\* The shifts to the right lose nothing (lines 791 to 794).
LEMMA DmcHeaders ==
  ASSUME NEW n \in Nat, n <= 2043
  PROVE  /\ DmcHeader(n) \in Seq(0..255)
         /\ Announced(DmcHeader(n)) = n
<1> DEFINE b == n \div 256
<1>2. b \in 0..7 /\ n % 256 \in 0..255 /\ n = b * 256 + (n % 256)
  OBVIOUS
<1>3. b \div 256 = 0 /\ b % 256 = b
  BY <1>2
<1>4. 0 \div 256 = 0 /\ 0 % 256 = 0
  OBVIOUS
<1>5. DmcHeader(n) = <<0, 0, b, n % 256>>
  BY <1>3, <1>4 DEF DmcHeader
<1> HIDE DEF b
<1> QED
  BY <1>2, <1>5 DEF Announced

\* What a message to the HMI looks like: its header announces its length, but for 256
\* bytes of a progress report.
LEMMA ToHmiSound ==
  ASSUME NEW p \in Percents, NEW s \in Statuses, NEW u \in 0..63,
         NEW func \in 1..3, NEW why \in {"asked", "pushed"}
  PROVE  ToHmi(func, p, s, u, why) \in Messages /\ Framed(ToHmi(func, p, s, u, why))
<1> DEFINE m == ToHmi(func, p, s, u, why)
           n == HmiLength(func, p, s, u)
<1>1. /\ func = 3 => n \in 316..332
      /\ func # 3 => n \in 93..197
  BY Lengths
<1>2. n \in Nat /\ n \in 0..2043 /\ n % 256 = IF func = 3 THEN n - 256 ELSE n
  BY <1>1, SMT
<1>3. HmiHeader(n) \in Seq(0..255) /\ Announced(HmiHeader(n)) = n % 256
  BY <1>2, HmiHeaders
<1>4. /\ m.to = "hmi" /\ m.func = func /\ m.percent = p /\ m.why = why
      /\ m.length = n /\ m.header = HmiHeader(n)
      /\ m = [to |-> "hmi", func |-> func, length |-> n, header |-> HmiHeader(n),
             percent |-> p, why |-> why]
  BY DEF ToHmi
<1> HIDE DEF n, m
<1>5. m \in Messages /\ Framed(m)
  BY <1>2, <1>3, <1>4, SMT DEF Messages, Framed
<1> QED
  BY <1>4, <1>5 DEF m

\* And one to the DMC.
LEMMA ToDmcSound ==
  ASSUME NEW func \in 1..2, NEW len, len \in 0..2043, NEW m, m = ToDmc(func, len)
  PROVE  m.to = "dmc" /\ m \in Messages /\ Framed(m)
<1>0. len \in Nat /\ len <= 2043
  BY SMT
<1>1. DmcHeader(len) \in Seq(0..255) /\ Announced(DmcHeader(len)) = len
  BY <1>0, DmcHeaders
<1>2. 0 \in Percents
  BY HmiMessagesAssumption
<1> QED
  BY <1>1, <1>2, SMT DEF ToDmc, Messages, Framed

-----------------------------------------------------------------------------

IInv == TypeOK /\ StalePercent /\ EndsRightly /\ EndNotPushed /\ FramedUpTo256

LEMMA InitInvariant == Init => IInv
BY HmiMessagesAssumption, SMT
   DEF Init, IInv, TypeOK, StalePercent, EndsRightly, EndNotPushed, FramedUpTo256, SaysEnd

\* What an entry of a report holds.
LEMMA EntryValues ==
  ASSUME NEW entries \in Reports, NEW i \in 1..Len(entries)
  PROVE  /\ entries \in Seq(Entries) /\ Len(entries) \in Nat
         /\ entries[i].key = "progress_percent" => entries[i].value \in Percents
<1>1. entries \in Seq(Entries)
  BY HmiMessagesAssumption
<1>2. entries[i] \in Entries
  BY <1>1
<1> QED
  BY <1>1, <1>2, SMT DEF Entries

\* A step that sends messages and does nothing else to the data of an upgrade.
LEMMA ToldOnly ==
  ASSUME IInv, UNCHANGED upgradeData, uuid' \in 0..63,
         \A m \in told' :
           /\ m \in Messages
           /\ m.to = "hmi" => m.why = "asked"
           /\ Framed(m)
  PROVE  IInv'
<1>1. TypeOK'
  BY DEF IInv, TypeOK, upgradeData
<1>2. StalePercent' /\ EndsRightly'
  BY DEF IInv, StalePercent, EndsRightly, upgradeData, SaysEnd
<1>3. EndNotPushed' /\ FramedUpTo256'
  BY DEF EndNotPushed, FramedUpTo256
<1> QED
  BY <1>1, <1>2, <1>3 DEF IInv

LEMMA TellDmcInvariant == IInv /\ TellDmc => IInv'
<1> SUFFICES ASSUME IInv, TellDmc PROVE IInv'
  OBVIOUS
<1>1. uuid' \in 0..63 /\ UNCHANGED upgradeData
  BY DEF TellDmc, IInv, TypeOK
<1>2. ASSUME NEW func \in 1..2, NEW len, len \in 0..2043, told' = {ToDmc(func, len)}
      PROVE  IInv'
  <2> DEFINE n == ToDmc(func, len)
  <2>1. n.to = "dmc" /\ n \in Messages /\ Framed(n)
    BY <1>2, ToDmcSound
  <2>2. told' = {n}
    BY <1>2
  <2> HIDE DEF n
  <2> QED
    BY <1>1, <2>1, <2>2, ToldOnly
<1>3. CASE told' = {ToDmc(1, 1022)}
  BY <1>3, <1>2, SMT
<1>4. CASE \E len \in StatusReports : told' = {ToDmc(2, len)}
  <2>1. PICK len \in StatusReports : told' = {ToDmc(2, len)}
    BY <1>4
  <2>2. len \in 0..2043
    BY HmiMessagesAssumption, SMT
  <2> QED
    BY <1>2, <2>1, <2>2, SMT
<1> QED
  BY <1>3, <1>4 DEF TellDmc

LEMMA RequestInvariant ==
  ASSUME NEW func \in 0..3, IInv, Request(func)
  PROVE  IInv'
<1>1. uuid' \in 0..63 /\ UNCHANGED upgradeData
  BY HmiMessagesAssumption, SMT DEF Request, IInv, TypeOK
<1>2. CASE told' = {}
  BY <1>1, <1>2, ToldOnly
<1>3. CASE func \in 1..3 /\ told' = {ToHmi(func, percent, status, uuid', "asked")}
  <2>1. percent \in Percents /\ status \in Statuses
    BY DEF IInv, TypeOK
  <2> PICK u \in 0..63, why \in {"asked", "pushed"} : u = uuid' /\ why = "asked"
    BY <1>1
  <2> DEFINE n == ToHmi(func, percent, status, u, why)
  <2>2. func \in 1..3
    BY <1>3
  <2>3. n \in Messages /\ Framed(n)
    BY <2>1, <2>2, ToHmiSound
  <2>5. n.why = "asked"
    BY DEF ToHmi
  <2>4. told' = {n}
    BY <1>3
  <2> HIDE DEF n
  <2> QED
    BY <1>1, <2>3, <2>4, <2>5, ToldOnly
<1>4. told' = {} \/ (func \in 1..3 /\ told' = {ToHmi(func, percent, status, uuid', "asked")})
  BY DEF Request
<1> QED
  BY <1>2, <1>3, <1>4

\* A report that has no entries says nothing.
LEMMA EmptySaysNothing == ~SaysEnd(<<>>)
BY SMT DEF SaysEnd

LEMMA UpgradeBeginsInvariant == IInv /\ UpgradeBegins => IInv'
<1> SUFFICES ASSUME IInv, UpgradeBegins PROVE IInv'
  OBVIOUS
<1>1. TypeOK'
  BY DEF IInv, UpgradeBegins, TypeOK, Results
<1>2. StalePercent'
  BY DEF UpgradeBegins, StalePercent
<1>3. EndsRightly'
  BY EmptySaysNothing DEF UpgradeBegins, EndsRightly
<1>4. EndNotPushed' /\ FramedUpTo256'
  BY DEF UpgradeBegins, EndNotPushed, FramedUpTo256
<1> QED
  BY <1>1, <1>2, <1>3, <1>4 DEF IInv

\* After a report that does not end the upgrade, the percentage is below 100, unless the
\* report had no entries (lines 363 to 390).
LEMMA RunningBelow100 ==
  ASSUME IInv, NEW entries \in Reports, NEW n \in 0..Len(entries),
         Walks(entries, n, "running"),
         NEW p \in Percents, Becomes("progress_percent", percent, entries, n, p)
  PROVE  IF entries = <<>> THEN p = percent ELSE p < 100
<1>1. entries \in Seq(Entries) /\ p \in Int
  BY HmiMessagesAssumption, SMT
<1>2. n = Len(entries) /\ (n > 0 => ~EndsAt(entries, n))
  BY DEF Walks
<1>3. CASE entries = <<>>
  <2>1. n = 0 /\ 1..n = {}
    BY <1>2, <1>3, SMT
  <2> QED
    BY <1>3, <2>1 DEF Becomes
<1>4. CASE entries # <<>>
  <2>1. n > 0
    BY <1>1, <1>2, <1>4, SMT
  <2>2. ~Full(entries, n)
    BY <1>2, <2>1 DEF EndsAt
  <2>3. ~(p >= 100)
    BY <2>2 DEF Full
  <2> QED
    BY <1>1, <1>4, <2>3, SMT
<1> QED
  BY <1>3, <1>4

\* A report that says that the upgrade is complete ends it.
LEMMA EndIsSeen ==
  ASSUME NEW entries \in Reports, NEW n \in 0..Len(entries), Walks(entries, n, "running")
  PROVE  ~SaysEnd(entries)
<1> SUFFICES ASSUME SaysEnd(entries) PROVE FALSE
  OBVIOUS
<1>1. PICK i \in 1..Len(entries) :
        entries[i].key = "progress_percent" /\ entries[i].value >= 100
  BY DEF SaysEnd
<1>2. entries \in Seq(Entries) /\ Len(entries) \in Nat /\ entries[i].value \in Percents
  BY <1>1, EntryValues
<1>3. n = Len(entries) /\ i \in 1..n
  BY <1>1 DEF Walks
<1>4. ~EndsAt(entries, i)
  <2>1. CASE i = n
    BY <1>2, <1>3, <2>1, SMT DEF Walks
  <2>2. CASE i # n
    <3>1. i \in 1..(n - 1)
      BY <1>2, <1>3, <2>2, SMT
    <3> QED
      BY <3>1 DEF Walks
  <2> QED
    BY <2>1, <2>2
<1>5. Becomes("progress_percent", percent, entries, i, entries[i].value)
  <2>1. i \in 1..i /\ (i + 1)..i = {}
    BY <1>2, SMT
  <2> QED
    BY <1>1, <2>1 DEF Becomes
<1> QED
  BY <1>1, <1>2, <1>4, <1>5 DEF EndsAt, Full

\* The walk ends at 100 because the report says so, or because of the percentage that
\* was stored before it.
LEMMA EndHasReason ==
  ASSUME IInv, upgrade = "running",
         NEW entries \in Reports, NEW n \in 0..Len(entries),
         Walks(entries, n, "succeeded"), ~SaysEnd(entries)
  PROVE  before >= 100 /\ empties /\ report = <<>> /\ entries # <<>>
<1>1. /\ n > 0 /\ entries[n].key # "error" /\ Full(entries, n)
      /\ \A i \in 1..(n - 1) : ~EndsAt(entries, i)
  BY DEF Walks
<1>2. PICK v \in Percents : v >= 100 /\ Becomes("progress_percent", percent, entries, n, v)
  BY <1>1 DEF Full
<1>3. entries \in Seq(Entries) /\ Len(entries) \in Nat /\ entries # <<>>
  BY <1>1, HmiMessagesAssumption, SMT
<1>4. ASSUME NEW i \in 1..n, entries[i].key = "progress_percent", entries[i].value = v
      PROVE  FALSE
  <2>1. \A j \in 1..(i - 1) : entries[j].key # "error"
    <3> SUFFICES ASSUME NEW j \in 1..(i - 1) PROVE entries[j].key # "error"
      OBVIOUS
    <3>1. j \in 1..(n - 1)
      BY <1>3, <1>4, SMT
    <3> QED
      BY <1>1, <3>1 DEF EndsAt
  <2>2. i \in 1..Len(entries)
    BY <1>3, <1>4, SMT
  <2> QED
    BY <1>2, <1>4, <2>1, <2>2 DEF SaysEnd
<1>5. v = percent
  BY <1>2, <1>4 DEF Becomes
<1> QED
  BY <1>2, <1>3, <1>5 DEF IInv, StalePercent

LEMMA ReportInvariant ==
  ASSUME NEW entries \in Reports, IInv, Report(entries)
  PROVE  IInv'
<1>1. PICK n \in 0..Len(entries) :
        /\ Walks(entries, n, upgrade') /\ upgrade' \in Results
        /\ percent' \in Percents /\ Becomes("progress_percent", percent, entries, n, percent')
        /\ status' \in Statuses
  BY DEF Report
<1>2. /\ upgrade = "running" /\ UNCHANGED <<uuid, before>>
      /\ told' = (IF upgrade' = "running" THEN {ToHmi(3, percent', status', uuid, "pushed")} ELSE {})
      /\ report' = entries /\ empties' = (empties /\ report = <<>>)
  BY DEF Report
<1>3. uuid \in 0..63 /\ before \in Percents
  BY DEF IInv, TypeOK
<1>4. StalePercent'
  <2> SUFFICES ASSUME upgrade' = "running", percent' >= 100
               PROVE  before' >= 100 /\ empties' /\ report' = <<>>
    BY DEF StalePercent
  <2>1. IF entries = <<>> THEN percent' = percent ELSE percent' < 100
    BY <1>1, RunningBelow100
  <2>2. entries = <<>> /\ percent' = percent
    BY <1>1, <2>1, HmiMessagesAssumption, SMT
  <2> QED
    BY <1>2, <2>2 DEF IInv, StalePercent
<1>5. EndsRightly'
  <2>1. upgrade' = "running" => ~SaysEnd(entries)
    BY <1>1, EndIsSeen
  <2>2. upgrade' = "succeeded" /\ ~SaysEnd(entries) =>
          before >= 100 /\ empties /\ report = <<>> /\ entries # <<>>
    BY <1>1, <1>2, EndHasReason
  <2> QED
    BY <1>2, <2>1, <2>2 DEF EndsRightly
<1>6. /\ told' \subseteq Messages /\ FramedUpTo256'
      /\ \A m \in told' : upgrade' = "running" /\ m.percent = percent'
  <2>1. CASE upgrade' # "running"
    BY <1>2, <2>1 DEF FramedUpTo256
  <2>2. CASE upgrade' = "running"
    <3> PICK p \in Percents, s \in Statuses : p = percent' /\ s = status'
      BY <1>1
    <3> PICK func \in 1..3, why \in {"asked", "pushed"} : func = 3 /\ why = "pushed"
      OBVIOUS
    <3> DEFINE m == ToHmi(func, p, s, uuid, why)
    <3>1. m \in Messages /\ Framed(m)
      BY <1>3, ToHmiSound
    <3>3. m.percent = p
      BY DEF ToHmi
    <3>2. told' = {m}
      BY <1>2, <2>2
    <3> HIDE DEF m
    <3> QED
      BY <2>2, <3>1, <3>2, <3>3 DEF FramedUpTo256
  <2> QED
    BY <2>1, <2>2
<1>7. EndNotPushed'
  BY <1>4, <1>6 DEF EndNotPushed, StalePercent
<1>8. TypeOK'
  BY <1>1, <1>2, <1>3, <1>6 DEF TypeOK, IInv
<1> QED
  BY <1>4, <1>5, <1>6, <1>7, <1>8 DEF IInv

LEMMA StepInvariant == IInv /\ [Next]_vars => IInv'
<1> SUFFICES ASSUME IInv, [Next]_vars PROVE IInv'
  OBVIOUS
<1>1. CASE TellDmc
  BY <1>1, TellDmcInvariant
<1>2. CASE \E func \in 0..3 : Request(func)
  BY <1>2, RequestInvariant
<1>3. CASE UpgradeBegins
  BY <1>3, UpgradeBeginsInvariant
<1>4. CASE \E entries \in Reports : Report(entries)
  BY <1>4, ReportInvariant
<1>5. CASE UNCHANGED vars
  BY <1>5 DEF vars, upgradeData, IInv, TypeOK, StalePercent, EndsRightly, EndNotPushed,
              FramedUpTo256, SaysEnd
<1> QED
  BY <1>1, <1>2, <1>3, <1>4, <1>5 DEF Next

LEMMA Invariant == Spec => []IInv
BY InitInvariant, StepInvariant, PTL DEF Spec

\* Types of the state and of every message (lines 208 to 557), whatever the reports.
THEOREM MessagesTyping == Spec => []TypeOK
<1>1. IInv => TypeOK
  BY DEF IInv
<1> QED
  BY <1>1, Invariant, PTL

\* A report that says 100 ends the upgrade, and only that one does, but for the stale
\* percentage of an earlier upgrade (line 379).
THEOREM UpgradesEndRightly == Spec => []EndsRightly
<1>1. IInv => EndsRightly
  BY DEF IInv
<1> QED
  BY <1>1, Invariant, PTL

\* What the HMI is told without asking never shows an end of this upgrade (line 1062).
THEOREM NoEndPushed == Spec => []EndNotPushed
<1>1. IInv => EndNotPushed
  BY DEF IInv
<1> QED
  BY <1>1, Invariant, PTL

\* The announced length is right up to the 256 bytes that the shifts lose (line 476).
THEOREM LengthsLose256 == Spec => []FramedUpTo256
<1>1. IInv => FramedUpTo256
  BY DEF IInv
<1> QED
  BY <1>1, Invariant, PTL

-----------------------------------------------------------------------------
(* The two readers of a manifest *)

\* Of the at most four packages, bs_parse_l1_manifest keeps those before the first that
\* is not complete (lines 53 to 127 of bs_dlc_utils.c).
LEMMA KeptPackages ==
  ASSUME NEW list \in Seq(Packages), Len(list) <= MaxPkgNum
  PROVE  /\ Kept(list) \in 0..Len(list)
         /\ \A i \in 1..Kept(list) : Complete(list[i])
         /\ Kept(list) < Len(list) => ~Complete(list[Kept(list) + 1])
<1> DEFINE First(n) == /\ \A i \in 1..n : Complete(list[i])
                       /\ n < Len(list) => ~Complete(list[n + 1])
<1>1. Len(list) \in 0..4
  <2>1. Len(list) \in Nat
    OBVIOUS
  <2>2. \A n \in Nat : n <= 4 => n \in 0..4
    OBVIOUS
  <2> QED
    BY <2>1, <2>2, Zenon DEF MaxPkgNum
<1>2. \E n \in 0..Len(list) : First(n)
  <2>1. CASE 0 < Len(list) /\ ~Complete(list[1])
    <3>1. First(0)
      BY <2>1
    <3> QED
      BY <1>1, <3>1
  <2>2. CASE 1 < Len(list) /\ Complete(list[1]) /\ ~Complete(list[2])
    <3>1. First(1)
      BY <2>2
    <3> QED
      BY <1>1, <2>2, <3>1
  <2>3. CASE 2 < Len(list) /\ Complete(list[1]) /\ Complete(list[2]) /\ ~Complete(list[3])
    <3>1. First(2)
      BY <2>3
    <3> QED
      BY <1>1, <2>3, <3>1
  <2>4. CASE /\ 3 < Len(list) /\ Complete(list[1]) /\ Complete(list[2]) /\ Complete(list[3])
             /\ ~Complete(list[4])
    <3>1. First(3)
      BY <2>4
    <3> QED
      BY <1>1, <2>4, <3>1
  <2>5. CASE \A i \in 1..Len(list) : Complete(list[i])
    <3>1. First(Len(list))
      BY <1>1, <2>5
    <3> QED
      BY <1>1, <3>1
  <2> QED
    BY <1>1, <2>1, <2>2, <2>3, <2>4, <2>5
<1>3. Kept(list) = CHOOSE n \in 0..Len(list) : First(n)
  BY DEF Kept
<1>4. Kept(list) \in 0..Len(list) /\ First(Kept(list))
  <2> HIDE DEF First
  <2> QED
    BY <1>2, <1>3
<1> QED
  BY <1>4

\* dmc_msg_parse (lines 681 to 783 of dlc_server.c) accepts the first package if it is
\* complete.
LEMMA CompleteAccepted ==
  ASSUME NEW doc \in Documents, doc.json, ~doc.capitals, doc.manifest = "object",
         doc.packages = "array", doc.list # <<>>, Complete(doc.list[1])
  PROVE  dmc_msg_parse(doc) =
           [stat |-> "DLC_PKG_NEW",
            dev_id |-> IF doc.list[1].ecu = "WPC" THEN "WPC" ELSE "VDCM"]
BY DEF dmc_msg_parse, FirstItem, Complete

\* Whatever manifests there are, dmc_msg_parse accepts the first package for the device
\* for which bs_parse_l1_manifest keeps it, and refuses a manifest that the other one
\* accepts only for capitals in the names or for having no packages.
THEOREM ReadersAgree == ManifestSpec => []ParsersAgree
<1> DEFINE Inv == manifest \in Documents \cup {NoManifest}
<1>1. ManifestInit => Inv
  BY DEF ManifestInit
<1>2. Inv /\ [ReadManifest]_manifest => Inv'
  BY DEF ReadManifest
<1>3. Inv => ParsersAgree
  <2> SUFFICES ASSUME manifest \in Documents PROVE ParsersAgree
    BY DEF ParsersAgree
  <2> DEFINE bs == bs_parse_l1_manifest(manifest)
             dmc == dmc_msg_parse(manifest)
             list == manifest.list
             read == /\ manifest.json /\ manifest.manifest = "object"
                     /\ manifest.packages = "array" /\ Len(list) <= MaxPkgNum
  <2>1. list \in Seq(Packages)
    BY L1ManifestAssumption DEF Documents
  <2>2. CASE ~read
    <3>1. bs = [rc |-> "BAD_DOCUMENT", pkg_num |-> 0, dev_ids |-> <<>>]
      BY <2>2 DEF bs_parse_l1_manifest
    <3>2. bs.rc # "OK" /\ ~(bs.pkg_num > 0)
      BY <3>1
    <3> QED
      BY <3>2 DEF ParsersAgree
  <2>3. CASE read
    <3>1. bs = [rc |-> IF Kept(list) = Len(list) THEN "OK" ELSE "BAD_DOCUMENT",
                pkg_num |-> Kept(list), dev_ids |-> [i \in 1..Kept(list) |-> list[i].ecu]]
      BY <2>3 DEF bs_parse_l1_manifest
    <3>2. Kept(list) \in 0..Len(list) /\ \A i \in 1..Kept(list) : Complete(list[i])
      BY <2>1, <2>3, KeptPackages
    <3>3. ASSUME Kept(list) > 0, ~manifest.capitals
          PROVE  /\ bs.dev_ids[1] = list[1].ecu
                 /\ dmc = [stat |-> "DLC_PKG_NEW",
                           dev_id |-> IF list[1].ecu = "WPC" THEN "WPC" ELSE "VDCM"]
      <4>1. list # <<>> /\ 1 \in 1..Kept(list) /\ Complete(list[1])
        BY <2>1, <3>2, <3>3
      <4>2. bs.dev_ids[1] = list[1].ecu
        BY <3>1, <4>1
      <4> QED
        BY <2>3, <3>3, <4>1, <4>2, CompleteAccepted
    <3>4. ASSUME Kept(list) = Len(list), list # <<>>
          PROVE  Kept(list) > 0
      BY <2>1, <3>4
    <3>5. /\ bs.pkg_num = Kept(list)
          /\ bs.rc = "OK" => Kept(list) = Len(list)
      BY <3>1
    <3> HIDE DEF bs, dmc
    <3>6. ASSUME bs.pkg_num > 0, ~manifest.capitals
          PROVE  /\ dmc.stat = "DLC_PKG_NEW"
                 /\ bs.dev_ids[1] \in {"WPC", "VDCM"} => dmc.dev_id = bs.dev_ids[1]
      BY <3>3, <3>5, <3>6
    <3>7. ASSUME bs.rc = "OK", dmc.stat = "STAT_INVALID"
          PROVE  manifest.capitals \/ list = <<>>
      BY <3>4, <3>5, <3>6, <3>7
    <3> QED
      BY <3>6, <3>7 DEF ParsersAgree, bs, dmc
  <2> QED
    BY <2>2, <2>3
<1> QED
  BY <1>1, <1>2, <1>3, PTL DEF ManifestSpec
=============================================================================
