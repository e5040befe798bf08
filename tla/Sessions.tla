------------------------------ MODULE Sessions ------------------------------
(***************************************************************************)
(* The connections of dlc_server.c to its two peers, and the threads they  *)
(* start: the DMC, which main() serves on port 3000, the HMI, which a      *)
(* thread serves on port 3001, and the monitor thread, which takes status  *)
(* reports of the orchestrator on port 8019 and forwards them to the DMC.  *)
(*                                                                         *)
(* g_ctx.dmc and g_ctx.hmi point to the connection accepted last; nothing  *)
(* resets them when it is closed and freed by mongoose.  Peers connect,    *)
(* send what they have to say in pieces of any size, leave, and come back  *)
(* (as another member of Dmcs or Hmis).  What a manifest or a START_UPGRADE*)
(* then sets off is the business of DlcServer; StatLock says when main()   *)
(* and the HMI thread poll.                                                *)
(*                                                                         *)
(* Of the bytes of a manifest only two words matter to dmc_msg_handler,    *)
(* "fotaProtocolVersion" and the name of the device; the first four bytes  *)
(* it receives are never looked at.  Neither a receive buffer of the DMC,  *)
(* which is searched with strstr, nor one of an HMI, which cJSON parses,   *)
(* ends with a zero: both readers may go on in what the heap holds, which  *)
(* may be anything that was received or sent before.                       *)
(*                                                                         *)
(* The monitor thread and the threads that poll an upgrade (tdr_stat of    *)
(* DlcServer) load g_ctx.dmc or g_ctx.hmi, and mg_send then appends to the *)
(* send_mbuf of that connection.  The threads that own the connections     *)
(* close, free, replace and empty them meanwhile, with no lock.            *)
(***************************************************************************)
EXTENDS Naturals, Sequences, SequencesExt

CONSTANTS
  Dmcs, Hmis,  \* connections, each opened at most once
  Manifests,   \* what each DMC may send: a set of sequences of devices
  Requests,    \* what each HMI may ask: a set of sequences of kinds
  Monitor,     \* the thread that forwards status reports to the DMC
  Reporters,   \* threads that report progress to the HMI
  None         \* NULL

Devices == {"WPC", "VDCM"}
Kinds   == {"START_UPGRADE", "UPGRADE_PROGRESS", "CHECK_NEW_PACKAGE"}
Words   == {"version"} \cup Devices
Conns   == Dmcs \cup Hmis
Senders == {Monitor} \cup Reporters

ASSUME SessionsAssumption ==
  /\ None \notin Conns /\ Dmcs \cap Hmis = {} /\ Monitor \notin Reporters
  /\ Manifests \in [Dmcs -> SUBSET Seq(Devices)]
  /\ Requests \in [Hmis -> SUBSET Seq(Kinds)]

VARIABLES
  up,         \* of the process: "up", "exited", "crashed"
  main,       \* "poll", or "greet": in the handler of an accept, 10 s long
  hmiThread,  \* "none", "starting", "listening"
  monitors,   \* monitor threads that have yet to bind their port
  monitor,    \* one has bound it
  dmc, hmi,   \* g_ctx.dmc and g_ctx.hmi
  state,      \* of each connection: "new", "open", "closed"
  sends,      \* the manifests each DMC sends, in this order
  came,       \* words of them received; a manifest is two words
  aligned,    \* the next byte of a DMC is the first of a manifest
  whole,      \* DMCs of which every piece was one whole manifest
  asks,       \* what each HMI asks, in this order
  got,        \* pieces of it received; a request is two pieces
  overread,   \* a match was made with a word behind the piece
  handled,    \* devices of the manifests of each DMC that were acted upon
  accepted,   \* connections in the order they were accepted
  answers,    \* answers sent: by whose request, to whom, for what kind, and whether the
              \* first request on that connection was cut
  sending,    \* of each sender: the connection it has loaded, for mg_send
  strays      \* how often each has sent to a connection that was replaced

threads == <<main, hmiThread, monitors, monitor>>
dmcData == <<sends, came, aligned, whole, overread, handled>>
hmiData == <<asks, got, answers>>
reports == <<sending, strays>>
vars == <<up, threads, dmc, hmi, state, dmcData, hmiData, accepted, reports>>

\* The words of a sequence of manifests.
WordsOf(s) == [i \in 1..(2 * Len(s)) |-> IF i % 2 = 1 THEN "version" ELSE s[i \div 2]]

Init ==
  /\ up = "up" /\ main = "poll" /\ hmiThread = "none"
  /\ monitors = 0 /\ monitor = FALSE
  /\ dmc = None /\ hmi = None
  /\ state = [c \in Conns |-> "new"]
  /\ sends \in [Dmcs -> UNION {Manifests[d] : d \in Dmcs}]
  /\ \A d \in Dmcs : sends[d] \in Manifests[d]
  /\ came = [d \in Dmcs |-> 0]
  /\ aligned = [d \in Dmcs |-> TRUE]
  /\ asks \in [Hmis -> UNION {Requests[h] : h \in Hmis}]
  /\ \A h \in Hmis : asks[h] \in Requests[h]
  /\ got = [h \in Hmis |-> 0]
  /\ whole = Dmcs /\ overread = FALSE
  /\ handled = [d \in Dmcs |-> <<>>]
  /\ accepted = <<>> /\ answers = {}
  /\ sending = [s \in Senders |-> None]
  /\ strays = [s \in Senders |-> [c \in Conns |-> 0]]

\* Some of these threads are in an mg_send to c.
InSend(c, ss) == \E s \in ss : sending[s] = c

\* mg_send to c. If c was freed, or another thread, one of others, appends to its
\* send_mbuf at the same time, that goes unnoticed or ends the process. (A heap that was
\* damaged and breaks later is not modelled.)
SendTo(c, others) ==
  IF state[c] = "open" /\ ~InSend(c, others) THEN up' = "up" ELSE up' \in {"up", "crashed"}

-----------------------------------------------------------------------------
(* Connections *)

Open(c) ==
  /\ state[c] = "new"
  /\ state' = [state EXCEPT ![c] = "open"]
  /\ accepted' = Append(accepted, c)
  /\ UNCHANGED reports

\* A connection ends. Neither handler has a case for MG_EV_CLOSE.
Close(c) ==
  /\ up = "up"
  /\ state[c] = "open"
  /\ c \in Dmcs => main = "poll"
  /\ state' = [state EXCEPT ![c] = "closed"]
  /\ UNCHANGED <<up, threads, dmc, hmi, dmcData, hmiData, accepted, reports>>

\* The thread of c empties the send_mbuf that another one is appending to
\* (mg_write_to_socket, or the realloc after it): this ends the process, or nothing is
\* left of it that the model could tell.
WriteRaces(c) ==
  /\ up = "up"
  /\ state[c] = "open" /\ InSend(c, Senders)
  /\ c \in Dmcs => main = "poll"
  /\ up' = "crashed"
  /\ UNCHANGED <<threads, dmc, hmi, state, dmcData, hmiData, accepted, reports>>

-----------------------------------------------------------------------------
(* The DMC *)

\* MG_EV_ACCEPT up to the sleep: every accept starts a thread for the HMI. The port
\* of a second one is taken, which hmi_thread does not look at.
DmcAccept(d) ==
  /\ up = "up" /\ main = "poll"
  /\ Open(d)
  /\ dmc' = d
  /\ main' = "greet"
  /\ hmiThread' = IF hmiThread = "none" THEN "starting" ELSE hmiThread
  /\ UNCHANGED <<up, monitors, monitor, hmi, dmcData, hmiData>>

\* After the sleep: the inventory is sent, and a monitor thread started.
DmcGreeted ==
  /\ up = "up" /\ main = "greet"
  /\ main' = "poll"
  /\ monitors' = monitors + 1
  /\ SendTo(dmc, Senders)
  /\ UNCHANGED <<hmiThread, monitor, dmc, hmi, state, dmcData, hmiData, accepted, reports>>

\* The device that a search among the words finds: WPC is looked for first.
Found(words) ==
  IF "version" \notin words THEN {}
  ELSE IF "WPC" \in words THEN {"WPC"}
  ELSE words \cap Devices

\* The words of what is the next piece of n words, the first of which is cut, or behind
\* the four bytes that are skipped, with first = 2, and the last cut with last = 1.
Piece(d, n, first, last) ==
  ToSet(SubSeq(WordsOf(sends[d]), came[d] + first, came[d] + n - last))

Sizes(d) == 1..(2 * Len(sends[d]) - came[d])

\* Mutant: what was received stays in the buffer.
DmcReceiveKeeps(d) ==
  /\ up = "up" /\ main = "poll" /\ state[d] = "open"
  /\ \E n \in Sizes(d) :
       LET words == ToSet(SubSeq(WordsOf(sends[d]), 1, came[d] + n)) IN
       /\ came' = [came EXCEPT ![d] = @ + n]
       /\ aligned' = [aligned EXCEPT ![d] = (came[d] + n) % 2 = 0]
       /\ whole' = IF n = 2 /\ aligned[d] THEN whole ELSE whole \ {d}
       /\ handled' = [handled EXCEPT ![d] = @ \o SetToSeq(Found(words))]
  /\ UNCHANGED <<up, threads, dmc, hmi, state, sends, hmiData, accepted, reports, overread>>

\* MG_EV_RECV: some words arrive, and are discarded whatever was found among them, and
\* behind them in the heap: all words are in the inventory (line 16), which was there
\* when it was sent.
DmcReceive(d) ==
  /\ up = "up" /\ main = "poll" /\ state[d] = "open"
  /\ \E n \in Sizes(d), first \in {1, 2}, last \in {0, 1}, boundary \in BOOLEAN :
       LET words == Piece(d, n, first, last) IN
       /\ aligned[d] => first = 1
       /\ boundary => last = 0 /\ (came[d] + n) % 2 = 0
       /\ came' = [came EXCEPT ![d] = @ + n]
       /\ aligned' = [aligned EXCEPT ![d] = boundary]
       /\ whole' = IF aligned[d] /\ n = 2 /\ boundary THEN whole ELSE whole \ {d}
       /\ \E old \in SUBSET Words :
            /\ handled' = [handled EXCEPT ![d] = @ \o SetToSeq(Found(words \cup old))]
            /\ overread' = (overread \/ Found(words \cup old) # Found(words))
  /\ UNCHANGED <<up, threads, dmc, hmi, state, sends, hmiData, accepted, reports>>

-----------------------------------------------------------------------------
(* The monitor thread *)

\* Mutant: a monitor that cannot bind returns.
MonitorSurvives ==
  /\ up = "up" /\ monitors > 0
  /\ monitors' = monitors - 1
  /\ monitor' = TRUE
  /\ UNCHANGED <<up, main, hmiThread, dmc, hmi, state, dmcData, hmiData, accepted, reports>>

\* A second monitor cannot bind the port of the first, and exits with the process.
MonitorBinds ==
  /\ up = "up" /\ monitors > 0
  /\ monitors' = monitors - 1
  /\ monitor' = TRUE
  /\ up' = IF monitor THEN "exited" ELSE "up"
  /\ UNCHANGED <<main, hmiThread, dmc, hmi, state, dmcData, hmiData, accepted, reports>>

-----------------------------------------------------------------------------
(* Reports from threads that own neither connection *)

\* The pointer that a sender loads.
Target(s) == IF s = Monitor THEN dmc ELSE hmi

Load(s) ==
  /\ up = "up" /\ sending[s] = None
  /\ Target(s) # None
  /\ sending' = [sending EXCEPT ![s] = Target(s)]
  /\ UNCHANGED <<up, threads, dmc, hmi, state, dmcData, hmiData, accepted, strays>>

\* A status report of the orchestrator is forwarded to the DMC.
StatusReport == monitor /\ Load(Monitor)

\* The progress of an upgrade is told to the HMI (see HmiKnown of DlcServer).
ProgressReport(s) == Load(s)

\* Mutant: a sender keeps the pointer that it has loaded.
SendKeepsPointer(s) ==
  /\ up = "up" /\ sending[s] # None
  /\ SendTo(sending[s], Senders \ {s})
  /\ strays' = IF sending[s] = Target(s) THEN strays
               ELSE [strays EXCEPT ![s][sending[s]] = @ + 1]
  /\ UNCHANGED <<threads, dmc, hmi, state, dmcData, hmiData, accepted, sending>>

\* mg_send to the connection that was loaded, whatever has become of it.
Send(s) ==
  /\ up = "up" /\ sending[s] # None
  /\ SendTo(sending[s], Senders \ {s})
  /\ sending' = [sending EXCEPT ![s] = None]
  /\ strays' = IF sending[s] = Target(s) THEN strays
               ELSE [strays EXCEPT ![s][sending[s]] = @ + 1]
  /\ UNCHANGED <<threads, dmc, hmi, state, dmcData, hmiData, accepted>>

-----------------------------------------------------------------------------
(* The HMI *)

HmiBinds ==
  /\ up = "up" /\ hmiThread = "starting"
  /\ hmiThread' = "listening"
  /\ UNCHANGED <<up, main, monitors, monitor, dmc, hmi, state, dmcData, hmiData, accepted,
                 reports>>

\* Mutants: the wrong pointer is set; the first connection stays the one that is
\* answered.
HmiAcceptAsDmc(h) ==
  /\ up = "up" /\ hmiThread = "listening"
  /\ Open(h)
  /\ dmc' = h
  /\ UNCHANGED <<up, threads, hmi, dmcData, hmiData>>

HmiAcceptKeeps(h) ==
  /\ up = "up" /\ hmiThread = "listening"
  /\ Open(h)
  /\ hmi' = IF hmi = None THEN h ELSE hmi
  /\ UNCHANGED <<up, threads, dmc, dmcData, hmiData>>

HmiAccept(h) ==
  /\ up = "up" /\ hmiThread = "listening"
  /\ Open(h)
  /\ hmi' = h
  /\ UNCHANGED <<up, threads, dmc, dmcData, hmiData>>

\* hmi_payload_parser answers to g_ctx.hmi, in the thread that accepts and closes its
\* connections; START_UPGRADE only if a package is ready.
Answer(h, kind, cut) ==
  \/ /\ SendTo(hmi, Senders)
     /\ answers' = answers \cup {[by |-> h, to |-> hmi, kind |-> kind, cut |-> cut]}
  \/ /\ kind = "START_UPGRADE"
     /\ UNCHANGED <<up, answers>>

\* While the first request is not complete, cJSON makes nothing of the buffer, or a
\* request of any kind, that the bytes behind the buffer complete or, as the parser
\* skips four bytes, are; or something on which the parser crashes, an array or a uuid
\* that is no string.
AnswerCut(h) ==
  \/ \E kind \in Kinds : Answer(h, kind, TRUE)
  \/ up' \in {"up", "crashed"} /\ UNCHANGED answers

\* Mutant: a request in two pieces is not put together.
HmiReceiveWhole(h) ==
  /\ up = "up" /\ state[h] = "open"
  /\ \E n \in (got[h] + 1)..(2 * Len(asks[h])) :
       /\ got' = [got EXCEPT ![h] = n]
       /\ IF n >= got[h] + 2 THEN Answer(h, asks[h][1], FALSE) ELSE AnswerCut(h)
  /\ UNCHANGED <<threads, dmc, hmi, state, dmcData, asks, accepted, reports>>

\* MG_EV_RECV: the buffer is never drained, so that each time the first request is
\* parsed, once it is complete; cJSON does not look at what follows it.
HmiReceive(h) ==
  /\ up = "up" /\ state[h] = "open"
  /\ \E n \in (got[h] + 1)..(2 * Len(asks[h])) :
       /\ got' = [got EXCEPT ![h] = n]
       /\ IF n >= 2 THEN Answer(h, asks[h][1], FALSE) ELSE AnswerCut(h)
  /\ UNCHANGED <<threads, dmc, hmi, state, dmcData, asks, accepted, reports>>

-----------------------------------------------------------------------------

Next ==
  \/ \E d \in Dmcs : DmcAccept(d) \/ DmcReceive(d)
  \/ \E h \in Hmis : HmiAccept(h) \/ HmiReceive(h)
  \/ \E c \in Conns : Close(c) \/ WriteRaces(c)
  \/ \E s \in Reporters : ProgressReport(s)
  \/ \E s \in Senders : Send(s)
  \/ DmcGreeted \/ MonitorBinds \/ StatusReport \/ HmiBinds

Spec == Init /\ [][Next]_vars

\* The threads of the server run; its peers need not do anything.
Fairness == WF_vars(DmcGreeted) /\ WF_vars(MonitorBinds) /\ WF_vars(HmiBinds)

FairSpec == Spec /\ Fairness

-----------------------------------------------------------------------------
(* Properties *)

\* Types; both pointers point to connections that were accepted.
TypeOK ==
  /\ up \in {"up", "exited", "crashed"} /\ main \in {"poll", "greet"}
  /\ hmiThread \in {"none", "starting", "listening"}
  /\ monitors \in Nat /\ monitor \in BOOLEAN
  /\ dmc \in {None} \cup {d \in Dmcs : state[d] # "new"}
  /\ hmi \in {None} \cup {h \in Hmis : state[h] # "new"}
  /\ state \in [Conns -> {"new", "open", "closed"}]
  /\ \A d \in Dmcs : sends[d] \in Manifests[d]
  /\ came \in [Dmcs -> Nat] /\ whole \subseteq Dmcs
  /\ aligned \in [Dmcs -> BOOLEAN]
  /\ overread \in BOOLEAN /\ handled \in [Dmcs -> Seq(Devices)]
  /\ \A h \in Hmis : asks[h] \in Requests[h]
  /\ got \in [Hmis -> Nat]
  /\ accepted \in Seq(Conns)
  /\ answers \subseteq [by : Hmis, to : Hmis, kind : Kinds, cut : BOOLEAN]
  /\ sending \in [Senders -> {None} \cup {c \in Conns : state[c] # "new"}]
  /\ strays \in [Senders -> [Conns -> Nat]]

\* t is what is left of s when some of its elements are taken out.
SomeOf(t, s) ==
  \E f \in [DOMAIN t -> DOMAIN s] :
    /\ \A i \in DOMAIN t : t[i] = s[f[i]]
    /\ \A i, j \in DOMAIN t : i < j => f[i] < f[j]

\* Manifests in pieces (line 850): as long as no search reads on behind a piece, the
\* manifests acted upon are some of those that the DMC has sent, in that order and each
\* once; and they are all of them when each has arrived in a piece of its own.
ManifestsAsSent ==
  ~overread => \A d \in Dmcs :
    LET received == SubSeq(sends[d], 1, came[d] \div 2) IN
    /\ SomeOf(handled[d], received)
    /\ d \in whole => handled[d] = received

\* The connection of a kind that was accepted last, if there is one.
Latest(conns) ==
  {c \in conns : \E i \in DOMAIN accepted :
     /\ accepted[i] = c
     /\ \A j \in DOMAIN accepted : j > i => accepted[j] \notin conns}

\* Who asks gets the answer, unless another HMI has connected since (line 566): then
\* that one gets it, and never one that connected earlier.
AnswerGoesToLatest ==
  \A a \in answers : a.to = a.by \/
    \E i, j \in DOMAIN accepted : i < j /\ accepted[i] = a.by /\ accepted[j] = a.to

\* The buffer that is never drained (line 572): once an HMI's first request is complete,
\* whatever came before it and however it was cut, it is answered, and no other request
\* of this connection is, be it received or made up from what lies behind the buffer.
FirstRequestOnly ==
  /\ \A a \in answers : a.cut \/ a.kind = asks[a.by][1]
  /\ \A h \in Hmis :
       up = "up" /\ got[h] >= 2 /\ asks[h][1] # "START_UPGRADE" =>
         \E a \in answers : a.by = h /\ ~a.cut

\* A pointer that was loaded (lines 159, 1065) is used after the connection was closed,
\* freed and replaced. A new connection does not stop that at once, but no thread sends
\* to a replaced one twice; and the process crashes only if the peer that connected
\* last is gone, if a thread sends to one that was replaced and is gone, if two threads
\* are at the send_mbuf of one that is still there, or on an HMI's request that is cut.
StraysAreBounded ==
  /\ \A s \in Senders, c \in Conns : strays[s][c] <= 1
  /\ up = "crashed" =>
       \/ \E c \in Latest(Dmcs) \cup Latest(Hmis) : state[c] = "closed"
       \/ \E s \in Senders, c \in Conns : strays[s][c] > 0 /\ state[c] = "closed"
       \/ \E c \in Conns : state[c] = "open" /\ InSend(c, Senders)
       \/ \E h \in Hmis : got[h] = 1

\* A DMC that connects for the second time ends the process, some time later: the
\* second monitor thread finds its port taken and calls exit (line 188).
SecondDmcEnds == (\E d \in Dmcs : dmc = d /\ \E e \in Dmcs \ {d} : state[e] # "new") ~> up # "up"
=============================================================================
