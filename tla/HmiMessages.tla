---------------------------- MODULE HmiMessages -----------------------------
(***************************************************************************)
(* What dlc_server.c tells its peers, and what it tells them about: the    *)
(* static buffers from which the messages to the HMI are written, the walk *)
(* of hmi_resp_upgrade_stat_update over a report of the orchestrator, and  *)
(* the four bytes of length in front of each message.                      *)
(*                                                                         *)
(* Text is abstracted to its length.  The lengths are those of the strings *)
(* in the code: every field that nobody ever assigns has the value that    *)
(* init_hmi_objs gives it.  The three times keep the 19 characters of their*)
(* format.  Sessions says whom a message reaches, and DlcServer when the   *)
(* orchestrator is asked for a report; here one upgrade follows the other. *)
(***************************************************************************)
EXTENDS Integers, Sequences

CONSTANTS
  Percents,       \* values of progress_percent
  Statuses,       \* values of status; "in_progress" stands for "in progress"
  StatusLength,   \* their lengths
  Reports,        \* what the orchestrator may report: sequences of entries
  Uuids,          \* lengths of the uuid that a request may have
  StatusReports   \* lengths of the status reports for the DMC

Entries ==
  [key : {"progress_percent"}, value : Percents] \cup
  [key : {"status"}, value : Statuses] \cup
  [key : {"error", "other"}, value : {"any"}]

ASSUME HmiMessagesAssumption ==
  /\ Percents \subseteq 0..999 /\ 0 \in Percents
  /\ "in_progress" \in Statuses
  /\ StatusLength \in [Statuses -> 0..14]
  /\ Reports \subseteq Seq(Entries)
  /\ Uuids \subseteq 0..63
  /\ StatusReports \subseteq 0..2043

VARIABLES
  percent, status,  \* of hmi_upgrade_stat
  uuid,             \* length of the static uuid of hmi_payload_parser
  told,             \* the messages that the last step has sent
  upgrade,          \* "none", "running", "succeeded", "failed"
  before,           \* percent when this upgrade began
  report,           \* the last report about this upgrade
  empties           \* the reports before it had no entries

upgradeData == <<percent, status, upgrade, before, report, empties>>
vars == <<upgradeData, uuid, told>>

-----------------------------------------------------------------------------
(* The length in front of a message *)

\* The low byte of n << 8 * bytes.
ShiftedLeft(n, bytes) == IF bytes = 0 THEN n % 256 ELSE 0

\* Mutant: the four bytes themselves do not count.
HmiHeaderExclusive(pc) ==
  <<ShiftedLeft(pc - 4, 3), ShiftedLeft(pc - 4, 2), ShiftedLeft(pc - 4, 1), ShiftedLeft(pc - 4, 0)>>

\* To the HMI, the length counts these four bytes.
HmiHeader(pc) ==
  <<ShiftedLeft(pc, 3), ShiftedLeft(pc, 2), ShiftedLeft(pc, 1), ShiftedLeft(pc, 0)>>

\* To the DMC it does not; three shifts of 8 are one of 24.
DmcHeader(len) ==
  <<(((len \div 256) \div 256) \div 256) % 256, ((len \div 256) \div 256) % 256,
    (len \div 256) % 256, len % 256>>

\* The number that a peer finds in these four bytes.
Announced(header) ==
  ((header[1] * 256 + header[2]) * 256 + header[3]) * 256 + header[4]

Digits(p) == IF p < 10 THEN 1 ELSE IF p < 100 THEN 2 ELSE 3

\* What hmi_resp_check_new_pkg, hmi_resp_start_upgrade and hmi_resp_upgrade_stat
\* return: the length of the message, with the length, and a byte behind the last '}'.
HmiLength(func, p, s, u) ==
  CASE func = 1 -> 134 + u
    [] func = 2 -> 93 + u
    [] func = 3 -> 258 + 3 * 19 + StatusLength[s] + Digits(p)

ToHmi(func, p, s, u, why) ==
  [to |-> "hmi", func |-> func, length |-> HmiLength(func, p, s, u),
   header |-> HmiHeader(HmiLength(func, p, s, u)), percent |-> p, why |-> why]

ToDmc(func, len) ==
  [to |-> "dmc", func |-> func, length |-> len,
   header |-> DmcHeader(len), percent |-> 0, why |-> "pushed"]

Init ==
  /\ percent = 0 /\ status = "in_progress" /\ uuid = 0
  /\ upgrade = "none" /\ before = 0 /\ report = <<>> /\ empties = TRUE
  /\ told = {}

-----------------------------------------------------------------------------
(* Messages *)

\* The inventory, which is a constant, and a status report that is passed on.
TellDmc ==
  /\ \/ told' = {ToDmc(1, 1022)}
     \/ \E len \in StatusReports : told' = {ToDmc(2, len)}
  /\ UNCHANGED <<upgradeData, uuid>>

\* A request that has a uuid overwrites that of an earlier one. START_UPGRADE is only
\* answered if a package is ready; func = 0 stands for a request that is not understood.
Request(func) ==
  /\ UNCHANGED upgradeData
  /\ uuid' \in Uuids \cup {uuid}
  /\ \/ func \in {1, 2, 3} /\ told' = {ToHmi(func, percent, status, uuid', "asked")}
     \/ func \in {0, 2} /\ told' = {}

-----------------------------------------------------------------------------
(* Reports of the orchestrator *)

\* Mutant: the percentage is unknown at first.
UpgradeBeginsAnew ==
  /\ upgrade # "running"
  /\ upgrade' = "running"
  /\ percent' = -1
  /\ before' = percent /\ report' = <<>> /\ empties' = TRUE /\ told' = {}
  /\ UNCHANGED <<status, uuid>>

\* An upgrade begins; nothing is reset.
UpgradeBegins ==
  /\ upgrade # "running"
  /\ upgrade' = "running"
  /\ before' = percent /\ report' = <<>> /\ empties' = TRUE /\ told' = {}
  /\ UNCHANGED <<percent, status, uuid>>

\* After n entries, a field that was old and is set by entries with this key is v.
Becomes(key, old, entries, n, v) ==
  \/ v = old /\ \A i \in 1..n : entries[i].key # key
  \/ \E i \in 1..n : /\ entries[i].key = key /\ entries[i].value = v
                     /\ \A j \in (i + 1)..n : entries[j].key # key

Full(entries, n) ==
  \E v \in Percents : v >= 100 /\ Becomes("progress_percent", percent, entries, n, v)

\* Mutant: the percentage is only looked at when the walk is over.
EndsAtLast(entries, n) ==
  entries[n].key = "error" \/ (n = Len(entries) /\ Full(entries, n))

\* The walk ends at an error, or when the stored percentage has reached 100.
EndsAt(entries, n) ==
  entries[n].key = "error" \/ Full(entries, n)

Results == {"running", "failed", "succeeded"}

\* hmi_resp_upgrade_stat_update looks at n entries and returns 0, -1 or 1.
Walks(entries, n, result) ==
  /\ \A i \in 1..(n - 1) : ~EndsAt(entries, i)
  /\ \/ n = Len(entries) /\ (n > 0 => ~EndsAt(entries, n)) /\ result = "running"
     \/ n > 0 /\ entries[n].key = "error" /\ result = "failed"
     \/ n > 0 /\ entries[n].key # "error" /\ Full(entries, n) /\ result = "succeeded"

\* Mutant: the HMI is told about every report.
ReportToldAlways(entries) ==
  /\ upgrade = "running"
  /\ UNCHANGED <<uuid, before>>
  /\ \E n \in 0..Len(entries), result \in Results :
       /\ Walks(entries, n, result)
       /\ upgrade' = result
       /\ percent' \in {p \in Percents : Becomes("progress_percent", percent, entries, n, p)}
       /\ status' \in {s \in Statuses : Becomes("status", status, entries, n, s)}
  /\ told' = {ToHmi(3, percent', status', uuid, "pushed")}
  /\ report' = entries
  /\ empties' = (empties /\ report = <<>>)

\* A report: while the upgrade runs, the HMI is told about it.
Report(entries) ==
  /\ upgrade = "running"
  /\ UNCHANGED <<uuid, before>>
  /\ \E n \in 0..Len(entries), result \in Results :
       /\ Walks(entries, n, result)
       /\ upgrade' = result
       /\ percent' \in {p \in Percents : Becomes("progress_percent", percent, entries, n, p)}
       /\ status' \in {s \in Statuses : Becomes("status", status, entries, n, s)}
  /\ told' = IF upgrade' = "running" THEN {ToHmi(3, percent', status', uuid, "pushed")} ELSE {}
  /\ report' = entries
  /\ empties' = (empties /\ report = <<>>)

-----------------------------------------------------------------------------

Next ==
  \/ TellDmc
  \/ \E func \in 0..3 : Request(func)
  \/ UpgradeBegins
  \/ \E entries \in Reports : Report(entries)

Spec == Init /\ [][Next]_vars

-----------------------------------------------------------------------------
(* Properties *)

Messages ==
  [to : {"hmi", "dmc"}, func : 1..3, length : 0..2043,
   header : Seq(0..255), percent : Percents, why : {"asked", "pushed"}]

\* Types; the percentage is one that the orchestrator has reported, or 0.
TypeOK ==
  /\ percent \in Percents /\ before \in Percents
  /\ status \in Statuses
  /\ uuid \in 0..63
  /\ upgrade \in {"none"} \cup Results
  /\ report \in Reports \cup {<<>>}
  /\ empties \in BOOLEAN
  /\ told \subseteq Messages

\* A report that says that the upgrade is complete, before any error.
SaysEnd(entries) ==
  \E i \in 1..Len(entries) :
    /\ entries[i].key = "progress_percent" /\ entries[i].value >= 100
    /\ \A j \in 1..(i - 1) : entries[j].key # "error"

\* The stale percentage (line 379): a report that says so ends the upgrade, wherever
\* in the report it does; and an upgrade ends as a success on no other report, except
\* on the first that has entries, after an upgrade that had reached 100.
EndsRightly ==
  /\ upgrade = "running" => ~SaysEnd(report)
  /\ upgrade = "succeeded" /\ ~SaysEnd(report) => before >= 100 /\ empties /\ report # <<>>

\* The end of an upgrade is not pushed to the HMI (line 1062): a message that was not
\* asked for shows 100 only if the orchestrator had nothing to report, after an upgrade
\* that had reached 100.
EndNotPushed ==
  \A m \in told :
    m.to = "hmi" /\ m.why = "pushed" /\ m.percent >= 100 => before >= 100 /\ report = <<>> /\ empties

Framed(m) ==
  Announced(m.header) = IF m.to = "hmi" /\ m.func = 3 THEN m.length - 256 ELSE m.length

\* The shifts to the left (line 348): all the same, the length in front of the answers
\* to CHECK_NEW_PACKAGE and START_UPGRADE is right, with any uuid, and so is that in
\* front of any message to the DMC; a progress report announces 256 bytes too few.
FramedUpTo256 == \A m \in told : Framed(m)

\* "the value of pc is the length", the comments at lines 291, 347 and 475.
LengthAnnounced == \A m \in told : m.to = "hmi" => Announced(m.header) = m.length
=============================================================================
