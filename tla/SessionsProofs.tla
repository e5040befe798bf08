---------------------------- MODULE SessionsProofs ----------------------------
(***************************************************************************)
(* What Sessions promises, for any number of connections, anything they    *)
(* say and any number of threads that send to them.  The strengthening is  *)
(* that g_ctx.dmc and g_ctx.hmi are always the connections accepted last,  *)
(* that what a search finds is a device, and that a thread which has sent  *)
(* to a replaced connection never gets at that connection again: StraysOK. *)
(*                                                                         *)
(* ManifestsAsSent, of a manifest that comes in pieces, needs to know that *)
(* a device which a search finds is the second half of a manifest, and so  *)
(* comes with one piece only: SentOK.                                      *)
(***************************************************************************)
EXTENDS Sessions, TLAPS, FiniteSetTheorems, SequenceTheorems

\* Every connection that was ever opened is in accepted.
AcceptedOK ==
  /\ accepted \in Seq(Conns)
  /\ \A i \in DOMAIN accepted : state[accepted[i]] # "new"
  /\ \A c \in Conns : state[c] # "new" => \E i \in DOMAIN accepted : accepted[i] = c

\* The pointer p to a connection of a kind is the latest one.
Points(p, conns) ==
  IF p = None THEN \A i \in DOMAIN accepted : accepted[i] \notin conns
              ELSE p \in Latest(conns)

PointersOK == Points(dmc, Dmcs) /\ Points(hmi, Hmis)

\* No DMC has sent more than it sends.
CameOK == \A d \in Dmcs : came[d] <= 2 * Len(sends[d])

\* main() only greets a DMC that was accepted.
GreetOK == main = "greet" => dmc # None

\* Who has sent to a replaced connection has sent to it once, and has no pointer to it.
StraysOK ==
  \A s \in Senders, c \in Conns :
    /\ strays[s][c] <= 1
    /\ strays[s][c] > 0 => sending[s] # c /\ Target(s) # c /\ state[c] # "new"

\* Why the process crashed.
Explained ==
  \/ \E c \in Latest(Dmcs) \cup Latest(Hmis) : state[c] = "closed"
  \/ \E s \in Senders, c \in Conns : strays[s][c] > 0 /\ state[c] = "closed"
  \/ \E c \in Conns : state[c] = "open" /\ InSend(c, Senders)
  \/ \E h \in Hmis : got[h] = 1

CrashOK == up = "crashed" => Explained

IInv ==
  /\ TypeOK /\ AcceptedOK /\ PointersOK /\ CameOK /\ GreetOK /\ StraysOK
  /\ AnswerGoesToLatest /\ FirstRequestOnly /\ CrashOK

\* mg_send of a thread that owns the connection (lines 532 to 544, and 800), with one of
\* the two pointers: if it crashes, there is a reason.
LEMMA OwnerSendSound ==
  ASSUME IInv, up = "up", NEW conns, conns \in {Dmcs, Hmis}, NEW c \in Latest(conns),
         SendTo(c, Senders), UNCHANGED <<state, accepted, sending>>
  PROVE  up' \in {"up", "crashed"} /\ CrashOK'
<1>1. c \in Conns /\ state[c] # "new" /\ state[c] \in {"new", "open", "closed"}
  BY DEF Latest, IInv, AcceptedOK, TypeOK, Conns
<1>2. /\ up' \in {"up", "crashed"}
      /\ up' = "crashed" => state[c] = "closed" \/ (state[c] = "open" /\ InSend(c, Senders))
  BY <1>1 DEF SendTo
<1>3. /\ Latest(Dmcs)' = Latest(Dmcs) /\ Latest(Hmis)' = Latest(Hmis)
      /\ InSend(c, Senders)' = InSend(c, Senders)
  BY DEF Latest, InSend
<1>4. up' = "crashed" => Explained'
  BY <1>1, <1>2, <1>3 DEF Explained
<1> QED
  BY <1>2, <1>4 DEF CrashOK

\* A connection is accepted (lines 566 and 820).
LEMMA OpenSound ==
  ASSUME IInv, NEW c \in Conns, Open(c)
  PROVE  /\ AcceptedOK'
         /\ state' \in [Conns -> {"new", "open", "closed"}]
         /\ \A d \in Conns : state[d] # "new" => state'[d] # "new"
         /\ Len(accepted') = Len(accepted) + 1 /\ accepted'[Len(accepted) + 1] = c
         /\ \A i \in DOMAIN accepted : i \in DOMAIN accepted' /\ accepted'[i] = accepted[i]
         /\ \A i \in DOMAIN accepted' : i \in DOMAIN accepted \/ i = Len(accepted) + 1
         /\ state'[c] = "open"
<1>1. state \in [Conns -> {"new", "open", "closed"}] /\ accepted \in Seq(Conns)
  BY DEF IInv, TypeOK, Conns
<1>2. state' = [state EXCEPT ![c] = "open"] /\ accepted' = Append(accepted, c)
  BY DEF Open
<1>3. /\ accepted' \in Seq(Conns)
      /\ Len(accepted') = Len(accepted) + 1 /\ accepted'[Len(accepted) + 1] = c
      /\ \A i \in 1..Len(accepted) : accepted'[i] = accepted[i]
      /\ DOMAIN accepted = 1..Len(accepted) /\ DOMAIN accepted' = 1..(Len(accepted) + 1)
      /\ Len(accepted) \in Nat
  BY <1>1, <1>2
<1>4. /\ \A i \in DOMAIN accepted : i \in DOMAIN accepted' /\ accepted'[i] = accepted[i]
      /\ \A i \in DOMAIN accepted' : i \in DOMAIN accepted \/ i = Len(accepted) + 1
      /\ Len(accepted) + 1 \in DOMAIN accepted'
  BY <1>3
<1>5. \A d \in Conns : state'[d] = IF d = c THEN "open" ELSE state[d]
  BY <1>1, <1>2
<1>6. AcceptedOK'
  BY <1>1, <1>3, <1>4, <1>5 DEF IInv, AcceptedOK
<1> QED
  BY <1>1, <1>2, <1>3, <1>4, <1>5, <1>6

\* The pointers after an accept: the new connection is the latest of its kind, and the
\* latest of the other kind stays.
LEMMA OpenPoints ==
  ASSUME IInv, NEW c \in Conns, Open(c),
         NEW conns, NEW p, Points(p, conns), None \notin conns
  PROVE  /\ c \notin conns => Points(p, conns)'
         /\ c \in conns => Points(c, conns)'
<1>1. /\ Len(accepted) \in Nat /\ accepted'[Len(accepted) + 1] = c
      /\ DOMAIN accepted = 1..Len(accepted) /\ DOMAIN accepted' = 1..(Len(accepted) + 1)
      /\ \A i \in DOMAIN accepted : accepted'[i] = accepted[i]
  BY OpenSound DEF IInv, AcceptedOK
<1>2. CASE c \notin conns
  BY <1>1, <1>2 DEF Points, Latest
<1>3. CASE c \in conns
  BY <1>1, <1>3 DEF Points, Latest
<1> QED
  BY <1>2, <1>3

-----------------------------------------------------------------------------
(* Steps that say nothing new *)

\* What is about the connections, and what was said over them.
Talk == <<dmcData, hmiData>>

\* A step that accepts nothing and leaves what was said alone.
LEMMA QuietInvariant ==
  ASSUME IInv, UNCHANGED <<dmc, hmi, accepted, Talk>>,
         up' \in {"up", "exited", "crashed"}, up' = "up" => up = "up", CrashOK',
         main' \in {"poll", main}, hmiThread' \in {"none", "starting", "listening"},
         monitors' \in Nat, monitor' \in BOOLEAN,
         state' \in [Conns -> {"new", "open", "closed"}],
         \A c \in Conns : state'[c] = "new" <=> state[c] = "new",
         sending' \in [Senders -> {None} \cup {c \in Conns : state[c] # "new"}],
         strays' \in [Senders -> [Conns -> Nat]], StraysOK'
  PROVE  IInv'
<1>1. TypeOK'
  <2>1. {c \in Conns : state'[c] # "new"} = {c \in Conns : state[c] # "new"}
    OBVIOUS
  <2>2. sending' \in [Senders -> {None} \cup {c \in Conns : state'[c] # "new"}]
    BY <2>1
  <2>3. /\ dmc' \in {None} \cup {d \in Dmcs : state'[d] # "new"}
        /\ hmi' \in {None} \cup {h \in Hmis : state'[h] # "new"}
    BY DEF IInv, TypeOK, Conns
  <2>4. main' \in {"poll", "greet"} /\ accepted' \in Seq(Conns)
    BY DEF IInv, TypeOK
  <2> QED
    BY <2>2, <2>3, <2>4 DEF IInv, TypeOK, Talk, dmcData, hmiData
<1>2. AcceptedOK'
  <2>1. accepted' = accepted /\ \A i \in DOMAIN accepted : accepted[i] \in Conns
    BY DEF IInv, AcceptedOK
  <2>2. \A i \in DOMAIN accepted : state'[accepted[i]] # "new"
    BY <2>1 DEF IInv, AcceptedOK
  <2>3. \A c \in Conns : state'[c] # "new" => \E i \in DOMAIN accepted : accepted[i] = c
    BY DEF IInv, AcceptedOK
  <2> QED
    BY <2>1, <2>2, <2>3 DEF IInv, AcceptedOK
<1>3. PointersOK' /\ GreetOK'
  BY DEF IInv, PointersOK, Points, Latest, GreetOK
<1>4. CameOK' /\ AnswerGoesToLatest' /\ FirstRequestOnly'
  <2>1. CameOK'
    BY DEF IInv, CameOK, Talk, dmcData
  <2>2. AnswerGoesToLatest'
    BY DEF IInv, AnswerGoesToLatest, Talk, hmiData
  <2>3. FirstRequestOnly'
    BY DEF IInv, FirstRequestOnly, Talk, hmiData
  <2> QED
    BY <2>1, <2>2, <2>3
<1> QED
  BY <1>1, <1>2, <1>3, <1>4 DEF IInv

\* What StraysOK is about.
LEMMA StraysUnchanged ==
  ASSUME StraysOK, UNCHANGED <<reports, dmc, hmi>>,
         \A c \in Conns : state[c] # "new" => state'[c] # "new"
  PROVE  StraysOK'
BY DEF StraysOK, reports, Target

LEMMA ThreadsInvariant ==
  ASSUME IInv, DmcGreeted \/ MonitorBinds \/ HmiBinds
  PROVE  IInv'
<1>1. /\ UNCHANGED <<dmc, hmi, accepted, Talk, state, reports>> /\ up = "up"
      /\ main' \in {"poll", main} /\ hmiThread' \in {hmiThread, "listening"}
      /\ monitor' \in {monitor, TRUE}
  BY DEF DmcGreeted, MonitorBinds, HmiBinds, Talk
<1>2. monitors' \in Nat
  BY DEF DmcGreeted, MonitorBinds, HmiBinds, IInv, TypeOK
<1>3. monitor' \in BOOLEAN
  BY <1>1, Zenon DEF IInv, TypeOK
<1>4. up' \in {"up", "exited", "crashed"} /\ CrashOK'
  <2>1. CASE DmcGreeted
    <3>1. main = "greet" /\ SendTo(dmc, Senders)
      BY <2>1 DEF DmcGreeted
    <3> PICK d : d = dmc
      OBVIOUS
    <3>2. d \in Latest(Dmcs) /\ SendTo(d, Senders)
      BY <3>1 DEF IInv, GreetOK, PointersOK, Points
    <3> QED
      BY <1>1, <3>2, OwnerSendSound DEF reports
  <2>2. CASE MonitorBinds \/ HmiBinds
    BY <2>2 DEF MonitorBinds, HmiBinds, CrashOK
  <2> QED
    BY <2>1, <2>2
<1>5. StraysOK' /\ sending' = sending /\ strays' = strays
  BY <1>1, StraysUnchanged DEF IInv, reports
<1>6. hmiThread' \in {"none", "starting", "listening"}
  BY <1>1 DEF IInv, TypeOK
<1>7. /\ state' \in [Conns -> {"new", "open", "closed"}]
      /\ sending' \in [Senders -> {None} \cup {c \in Conns : state[c] # "new"}]
      /\ strays' \in [Senders -> [Conns -> Nat]]
  BY <1>1, <1>5 DEF IInv, TypeOK
<1> QED
  BY <1>1, <1>2, <1>3, <1>4, <1>5, <1>6, <1>7, QuietInvariant

\* A connection ends, or its thread empties its send_mbuf in a race.
LEMMA CloseInvariant ==
  ASSUME IInv, NEW c \in Conns, Close(c) \/ WriteRaces(c)
  PROVE  IInv'
<1>1. /\ up = "up" /\ state[c] = "open"
      /\ state' = [state EXCEPT ![c] = "closed"] \/ state' = state
      /\ UNCHANGED <<threads, dmc, hmi, Talk, accepted, reports>>
  BY DEF Close, WriteRaces, Talk
<1>2. state \in [Conns -> {"new", "open", "closed"}]
  BY DEF IInv, TypeOK
<1>3. up' \in {"up", "crashed"} /\ CrashOK'
  <2>1. CASE Close(c)
    BY <2>1 DEF Close, CrashOK
  <2>2. CASE WriteRaces(c)
    <3>1. state'[c] = "open" /\ InSend(c, Senders) /\ InSend(c, Senders)' = InSend(c, Senders)
      BY <2>2 DEF WriteRaces, InSend, reports
    <3>2. up' = "crashed" /\ Explained'
      BY <2>2, <3>1 DEF WriteRaces, Explained
    <3> QED
      BY <3>2 DEF CrashOK
  <2> QED
    BY <2>1, <2>2
<1>4. /\ state' \in [Conns -> {"new", "open", "closed"}]
      /\ \A d \in Conns : state'[d] = "new" <=> state[d] = "new"
  BY <1>1, <1>2
<1>5. StraysOK'
  BY <1>1, <1>4, StraysUnchanged DEF IInv
<1> QED
  BY <1>1, <1>3, <1>4, <1>5, QuietInvariant DEF IInv, TypeOK, threads, reports

-----------------------------------------------------------------------------
(* Reports from other threads *)

\* A pointer that is loaded (lines 159 and 1065) is not to a replaced connection.
LEMMA LoadInvariant ==
  ASSUME IInv, NEW s \in Senders, Load(s)
  PROVE  IInv'
<1>1. /\ up = "up" /\ up' = "up" /\ Target(s) # None
      /\ sending' = [sending EXCEPT ![s] = Target(s)]
      /\ UNCHANGED <<threads, dmc, hmi, state, Talk, accepted, strays>>
  BY DEF Load, Talk
<1>2. Target(s) \in {c \in Conns : state[c] # "new"}
  BY <1>1 DEF Target, IInv, TypeOK, Conns
<1>3. /\ sending \in [Senders -> {None} \cup {c \in Conns : state[c] # "new"}]
      /\ strays \in [Senders -> [Conns -> Nat]]
      /\ state \in [Conns -> {"new", "open", "closed"}]
  BY DEF IInv, TypeOK
<1>4. /\ sending' \in [Senders -> {None} \cup {c \in Conns : state[c] # "new"}]
      /\ \A t \in Senders : sending'[t] = IF t = s THEN Target(s) ELSE sending[t]
      /\ \A t \in Senders : Target(t)' = Target(t)
  BY <1>1, <1>2, <1>3 DEF Target
<1>5. StraysOK'
  BY <1>1, <1>4 DEF IInv, StraysOK
<1>6. CrashOK'
  BY <1>1 DEF CrashOK
<1> QED
  BY <1>1, <1>3, <1>4, <1>5, <1>6, QuietInvariant DEF IInv, TypeOK, threads

\* What becomes of an mg_send with the pointer that a thread has loaded: the connection
\* may have been closed, or replaced, or may be in use by another thread.
LEMMA SendInvariant ==
  ASSUME IInv, NEW s \in Senders, Send(s)
  PROVE  IInv'
<1> PICK c : c = sending[s]
  OBVIOUS
<1>1. /\ up = "up" /\ c # None /\ SendTo(c, Senders \ {s})
      /\ sending' = [sending EXCEPT ![s] = None]
      /\ strays' = IF c = Target(s) THEN strays ELSE [strays EXCEPT ![s][c] = @ + 1]
      /\ UNCHANGED <<threads, dmc, hmi, state, Talk, accepted>>
  BY DEF Send, Talk
<1>2. /\ sending \in [Senders -> {None} \cup {d \in Conns : state[d] # "new"}]
      /\ strays \in [Senders -> [Conns -> Nat]]
      /\ state \in [Conns -> {"new", "open", "closed"}]
  BY DEF IInv, TypeOK
<1>3. c \in Conns /\ state[c] \in {"open", "closed"}
  BY <1>1, <1>2
<1>4. /\ \A t \in Senders : sending'[t] = IF t = s THEN None ELSE sending[t]
      /\ \A t \in Senders : Target(t)' = Target(t)
      /\ sending' \in [Senders -> {None} \cup {d \in Conns : state[d] # "new"}]
  BY <1>1, <1>2 DEF Target
<1>5. \A t \in Senders, d \in Conns :
        strays'[t][d] = IF t = s /\ d = c /\ c # Target(s) THEN strays[t][d] + 1
                                                        ELSE strays[t][d]
  BY <1>1, <1>2, <1>3
<1>6. strays' \in [Senders -> [Conns -> Nat]]
  BY <1>1, <1>2, <1>3
<1>7. strays[s][c] = 0
  <2>1. ~(strays[s][c] > 0) /\ strays[s][c] \in Nat
    BY <1>2, <1>3 DEF IInv, StraysOK
  <2> QED
    BY <2>1
<1>8. StraysOK'
  <2> SUFFICES ASSUME NEW t \in Senders, NEW d \in Conns
               PROVE  /\ strays'[t][d] <= 1
                      /\ strays'[t][d] > 0 =>
                           sending'[t] # d /\ Target(t)' # d /\ state'[d] # "new"
    BY DEF StraysOK
  <2>1. None # d
    BY SessionsAssumption
  <2>2. CASE t = s /\ d = c /\ c # Target(s)
    BY <1>1, <1>3, <1>4, <1>5, <1>7, <2>1, <2>2
  <2>3. CASE ~(t = s /\ d = c /\ c # Target(s))
    <3>1. strays'[t][d] = strays[t][d]
      BY <1>5, <2>3
    <3> QED
      BY <1>1, <1>4, <2>1, <3>1 DEF IInv, StraysOK
  <2> QED
    BY <2>2, <2>3
<1>9. up' \in {"up", "crashed"}
  BY <1>1 DEF SendTo
<1>10. ASSUME up' = "crashed"
       PROVE  Explained'
  <2>1. state[c] = "closed" \/ (state[c] = "open" /\ InSend(c, Senders \ {s}))
    BY <1>1, <1>3, <1>10 DEF SendTo
  <2>2. CASE state[c] = "closed" /\ c = Target(s)
    <3>1. c \in Latest(Dmcs) \cup Latest(Hmis)
      BY <1>1, <2>2 DEF IInv, PointersOK, Points, Target
    <3>2. Latest(Dmcs)' = Latest(Dmcs) /\ Latest(Hmis)' = Latest(Hmis)
      BY <1>1 DEF Latest
    <3> QED
      BY <1>1, <2>2, <3>1, <3>2 DEF Explained
  <2>3. CASE state[c] = "closed" /\ c # Target(s)
    <3>1. strays'[s][c] > 0 /\ state'[c] = "closed"
      BY <1>1, <1>3, <1>5, <1>7, <2>3
    <3> QED
      BY <1>3, <3>1 DEF Explained
  <2>4. CASE state[c] = "open" /\ InSend(c, Senders \ {s})
    <3>1. PICK t \in Senders \ {s} : sending[t] = c
      BY <2>4 DEF InSend
    <3>2. sending'[t] = c /\ state'[c] = "open"
      BY <1>1, <1>4, <2>4, <3>1
    <3>3. InSend(c, Senders)'
      BY <3>2 DEF InSend, Senders
    <3> QED
      BY <1>3, <3>2, <3>3 DEF Explained
  <2> QED
    BY <2>1, <2>2, <2>3, <2>4
<1>11. CrashOK'
  BY <1>10 DEF CrashOK
<1> QED
  BY <1>1, <1>2, <1>4, <1>6, <1>8, <1>9, <1>11, QuietInvariant DEF IInv, TypeOK, threads

-----------------------------------------------------------------------------
(* Accepts *)

\* What an accept leaves alone.
LEMMA AcceptInvariant ==
  ASSUME IInv, NEW c \in Conns, Open(c), UNCHANGED Talk, up = "up", up' = "up",
         main' \in {main, "greet"}, main' = "greet" => dmc' # None,
         hmiThread' \in {"none", "starting", "listening"},
         monitors' \in Nat, monitor' \in BOOLEAN,
         dmc' = IF c \in Dmcs THEN c ELSE dmc,
         hmi' = IF c \in Hmis THEN c ELSE hmi
  PROVE  IInv'
<1>1. /\ AcceptedOK' /\ state' \in [Conns -> {"new", "open", "closed"}]
      /\ \A d \in Conns : state[d] # "new" => state'[d] # "new"
      /\ \A i \in DOMAIN accepted : i \in DOMAIN accepted' /\ accepted'[i] = accepted[i]
      /\ state'[c] = "open"
  BY OpenSound
<1>2. UNCHANGED <<sending, strays>> /\ state[c] = "new"
  BY DEF Open, reports
<1>3. TypeOK'
  <2>1. /\ dmc' \in {None} \cup {d \in Dmcs : state'[d] # "new"}
        /\ hmi' \in {None} \cup {h \in Hmis : state'[h] # "new"}
    BY <1>1 DEF IInv, TypeOK, Conns
  <2>2. accepted' \in Seq(Conns)
    BY <1>1 DEF AcceptedOK
  <2>3. /\ sending' \in [Senders -> {None} \cup {d \in Conns : state'[d] # "new"}]
        /\ strays' \in [Senders -> [Conns -> Nat]]
    BY <1>1, <1>2 DEF IInv, TypeOK
  <2> QED
    BY <1>1, <2>1, <2>2, <2>3 DEF IInv, TypeOK, Talk, dmcData, hmiData
<1>4. PointersOK'
  <2> PICK p, q : p = dmc /\ q = hmi
    OBVIOUS
  <2>1. None \notin Dmcs /\ None \notin Hmis
    BY SessionsAssumption DEF Conns
  <2>2. Points(p, Dmcs) /\ Points(q, Hmis)
    BY DEF IInv, PointersOK
  <2>3. IF c \in Dmcs THEN Points(c, Dmcs)' ELSE Points(p, Dmcs)'
    BY <2>1, <2>2, OpenPoints
  <2>4. IF c \in Hmis THEN Points(c, Hmis)' ELSE Points(q, Hmis)'
    BY <2>1, <2>2, OpenPoints
  <2> QED
    BY <2>3, <2>4 DEF PointersOK, Points, Latest
<1>5. AnswerGoesToLatest'
  BY <1>1 DEF IInv, AnswerGoesToLatest, Talk, hmiData
<1>6. StraysOK'
  <2> SUFFICES ASSUME NEW s \in Senders, NEW d \in Conns
               PROVE  /\ strays'[s][d] <= 1
                      /\ strays'[s][d] > 0 =>
                           sending'[s] # d /\ Target(s)' # d /\ state'[d] # "new"
    BY DEF StraysOK
  <2>1. Target(s)' = Target(s) \/ Target(s)' = c
    BY DEF Target
  <2> QED
    BY <1>1, <1>2, <2>1 DEF IInv, StraysOK
<1>7. CameOK' /\ FirstRequestOnly'
  BY DEF IInv, CameOK, FirstRequestOnly, Talk, dmcData, hmiData
<1>8. CrashOK' /\ GreetOK'
  BY DEF CrashOK, GreetOK
<1> QED
  BY <1>1, <1>3, <1>4, <1>5, <1>6, <1>7, <1>8 DEF IInv

LEMMA DmcAcceptInvariant ==
  ASSUME IInv, NEW d \in Dmcs, DmcAccept(d)
  PROVE  IInv'
<1>1. d \in Conns /\ d \notin Hmis /\ d # None
  BY SessionsAssumption DEF Conns
<1>2. /\ Open(d) /\ UNCHANGED <<Talk, up, monitors, monitor, hmi>> /\ up = "up"
      /\ dmc' = d /\ main' = "greet" /\ hmiThread' \in {hmiThread, "starting"}
  BY DEF DmcAccept, Talk
<1> QED
  BY <1>1, <1>2, AcceptInvariant DEF IInv, TypeOK

LEMMA HmiAcceptInvariant ==
  ASSUME IInv, NEW h \in Hmis, HmiAccept(h)
  PROVE  IInv'
<1>1. h \in Conns /\ h \notin Dmcs
  BY SessionsAssumption DEF Conns
<1>2. Open(h) /\ UNCHANGED <<Talk, up, threads, dmc>> /\ up = "up" /\ hmi' = h
  BY DEF HmiAccept, Talk
<1> QED
  BY <1>1, <1>2, AcceptInvariant DEF IInv, TypeOK, threads, GreetOK

-----------------------------------------------------------------------------
(* What peers say *)

\* An answer goes to the HMI that connected last (line 566).
LEMMA AnswerSound ==
  ASSUME IInv, NEW h \in Hmis, state[h] = "open", up = "up", NEW kind, NEW cut,
         Answer(h, kind, cut), UNCHANGED <<state, accepted, hmi, sending>>
  PROVE  /\ up' \in {"up", "crashed"} /\ CrashOK'
         /\ hmi \in Hmis
         /\ \/ answers' = answers /\ kind = "START_UPGRADE"
            \/ answers' = answers \cup {[by |-> h, to |-> hmi, kind |-> kind, cut |-> cut]}
         /\ AnswerGoesToLatest'
<1>1. PICK i \in DOMAIN accepted : accepted[i] = h
  BY DEF IInv, AcceptedOK, Conns
<1>2. hmi \in Latest(Hmis)
  BY <1>1 DEF IInv, PointersOK, Points
<1>3. PICK j \in DOMAIN accepted :
        accepted[j] = hmi /\ \A k \in DOMAIN accepted : k > j => accepted[k] \notin Hmis
  BY <1>2 DEF Latest
<1>4. i = j \/ i < j
  <2>1. i \in Nat /\ j \in Nat
    BY DEF IInv, AcceptedOK
  <2>2. ~(i > j)
    BY <1>1, <1>3
  <2> QED
    BY <2>1, <2>2
<1>5. up' \in {"up", "crashed"} /\ CrashOK'
  <2>1. CASE SendTo(hmi, Senders)
    <3> PICK q : q = hmi
      OBVIOUS
    <3>1. q \in Latest(Hmis) /\ SendTo(q, Senders)
      BY <1>2, <2>1
    <3> QED
      BY <3>1, OwnerSendSound
  <2>2. CASE UNCHANGED up
    BY <2>2 DEF CrashOK
  <2> QED
    BY <2>1, <2>2 DEF Answer
<1>6. \/ answers' = answers /\ kind = "START_UPGRADE"
      \/ answers' = answers \cup {[by |-> h, to |-> hmi, kind |-> kind, cut |-> cut]}
  BY DEF Answer
<1>7. AnswerGoesToLatest'
  <2> SUFFICES ASSUME NEW a \in answers'
               PROVE  a.to = a.by \/ \E k, l \in DOMAIN accepted :
                        k < l /\ accepted[k] = a.by /\ accepted[l] = a.to
    BY DEF AnswerGoesToLatest
  <2>1. CASE a \in answers
    BY <2>1 DEF IInv, AnswerGoesToLatest
  <2>2. CASE a = [by |-> h, to |-> hmi, kind |-> kind, cut |-> cut]
    <3>1. a.by = h /\ a.to = hmi
      BY <2>2
    <3> QED
      BY <1>1, <1>3, <1>4, <3>1
  <2> QED
    BY <1>6, <2>1, <2>2
<1> QED
  BY <1>2, <1>5, <1>6, <1>7 DEF Latest

\* What one answer adds: one of the kind that was asked, or one to a request that was cut.
LEMMA AnswerAdds ==
  ASSUME IInv, NEW h \in Hmis, state[h] = "open", up = "up",
         NEW kind \in Kinds, NEW cut \in BOOLEAN,
         Answer(h, kind, cut), UNCHANGED <<state, accepted, hmi, sending>>
  PROVE  /\ up' \in {"up", "crashed"} /\ CrashOK' /\ AnswerGoesToLatest'
         /\ answers' \subseteq [by : Hmis, to : Hmis, kind : Kinds, cut : BOOLEAN]
         /\ answers \subseteq answers'
         /\ \A a \in answers' : a \in answers \/ (a.by = h /\ a.kind = kind /\ a.cut = cut)
         /\ kind # "START_UPGRADE" => \E a \in answers' : a.by = h /\ a.cut = cut
<1>1. /\ up' \in {"up", "crashed"} /\ CrashOK' /\ hmi \in Hmis /\ AnswerGoesToLatest'
      /\ \/ answers' = answers /\ kind = "START_UPGRADE"
         \/ answers' = answers \cup {[by |-> h, to |-> hmi, kind |-> kind, cut |-> cut]}
  BY AnswerSound
<1>2. answers \subseteq [by : Hmis, to : Hmis, kind : Kinds, cut : BOOLEAN]
  BY DEF IInv, TypeOK
<1> DEFINE b == [by |-> h, to |-> hmi, kind |-> kind, cut |-> cut]
<1>3. /\ b \in [by : Hmis, to : Hmis, kind : Kinds, cut : BOOLEAN]
      /\ b.by = h /\ b.kind = kind /\ b.cut = cut
  BY <1>1, Zenon
<1>4. (answers' = answers /\ kind = "START_UPGRADE") \/ answers' = answers \cup {b}
  BY <1>1
<1> HIDE DEF b
<1> QED
  BY <1>1, <1>2, <1>3, <1>4, Zenon

LEMMA HmiReceiveInvariant ==
  ASSUME IInv, NEW h \in Hmis, HmiReceive(h)
  PROVE  IInv'
<1>1. /\ up = "up" /\ state[h] = "open"
      /\ UNCHANGED <<threads, dmc, hmi, state, dmcData, asks, accepted, reports>>
  BY DEF HmiReceive
<1>2. PICK n \in (got[h] + 1)..(2 * Len(asks[h])) :
        /\ got' = [got EXCEPT ![h] = n]
        /\ IF n >= 2 THEN Answer(h, asks[h][1], FALSE) ELSE AnswerCut(h)
  BY DEF HmiReceive
<1>3. /\ got \in [Hmis -> Nat] /\ asks[h] \in Seq(Kinds)
      /\ answers \subseteq [by : Hmis, to : Hmis, kind : Kinds, cut : BOOLEAN]
  BY SessionsAssumption DEF IInv, TypeOK
<1>4. n \in Nat /\ n >= 1 /\ asks[h][1] \in Kinds
  <2>1. got[h] \in Nat /\ Len(asks[h]) \in Nat
    BY <1>3
  <2>2. n \in Nat /\ n >= 1 /\ Len(asks[h]) > 0
    BY <2>1
  <2> QED
    BY <1>3, <2>2
<1>5. got' \in [Hmis -> Nat] /\ \A g \in Hmis : got'[g] = IF g = h THEN n ELSE got[g]
  BY <1>2, <1>3, <1>4
<1>6. UNCHANGED <<state, accepted, hmi, sending>>
  BY <1>1 DEF reports
<1>7. /\ up' \in {"up", "crashed"} /\ CrashOK' /\ AnswerGoesToLatest'
      /\ answers' \subseteq [by : Hmis, to : Hmis, kind : Kinds, cut : BOOLEAN]
      /\ answers \subseteq answers'
      /\ \A a \in answers' : a \in answers \/ (a.by = h /\ (a.cut \/ a.kind = asks[h][1]))
      /\ n >= 2 /\ asks[h][1] # "START_UPGRADE" => \E a \in answers' : a.by = h /\ ~a.cut
  <2>1. CASE n >= 2
    <3> PICK kind, cut : kind = asks[h][1] /\ cut = FALSE
      OBVIOUS
    <3>1. Answer(h, asks[h][1], FALSE)
      BY <1>2, <2>1
    <3>2. Answer(h, kind, cut) /\ kind \in Kinds /\ cut \in BOOLEAN
      BY <1>4, <3>1, Zenon
    <3>3. /\ up' \in {"up", "crashed"} /\ CrashOK' /\ AnswerGoesToLatest'
          /\ answers' \subseteq [by : Hmis, to : Hmis, kind : Kinds, cut : BOOLEAN]
          /\ answers \subseteq answers'
          /\ \A a \in answers' :
               a \in answers \/ (a.by = h /\ a.kind = kind /\ a.cut = cut)
          /\ kind # "START_UPGRADE" => \E a \in answers' : a.by = h /\ a.cut = cut
      BY <1>1, <1>6, <3>2, AnswerAdds
    <3> QED
      BY <3>3
  <2>2. CASE ~(n >= 2) /\ \E kind \in Kinds : Answer(h, kind, TRUE)
    <3>1. PICK kind \in Kinds : Answer(h, kind, TRUE)
      BY <2>2
    <3> PICK cut : cut = TRUE
      OBVIOUS
    <3>2. Answer(h, kind, cut) /\ cut \in BOOLEAN
      BY <3>1, Zenon
    <3>3. /\ up' \in {"up", "crashed"} /\ CrashOK' /\ AnswerGoesToLatest'
          /\ answers' \subseteq [by : Hmis, to : Hmis, kind : Kinds, cut : BOOLEAN]
          /\ answers \subseteq answers'
          /\ \A a \in answers' :
               a \in answers \/ (a.by = h /\ a.kind = kind /\ a.cut = cut)
      BY <1>1, <1>6, <3>2, AnswerAdds
    <3> QED
      BY <2>2, <3>3
  <2>3. CASE ~(n >= 2) /\ up' \in {"up", "crashed"} /\ UNCHANGED answers
    <3>1. got'[h] = 1
      BY <1>4, <1>5, <2>3
    <3>2. CrashOK'
      BY <3>1 DEF CrashOK, Explained
    <3>3. AnswerGoesToLatest'
      BY <1>1, <2>3 DEF IInv, AnswerGoesToLatest
    <3> QED
      BY <1>3, <2>3, <3>2, <3>3
  <2> QED
    BY <1>2, <2>1, <2>2, <2>3 DEF AnswerCut
<1>8. FirstRequestOnly'
  <2>1. \A a \in answers' : a.cut \/ a.kind = asks'[a.by][1]
    BY <1>1, <1>7 DEF IInv, FirstRequestOnly
  <2>2. ASSUME NEW g \in Hmis, got'[g] >= 2, asks[g][1] # "START_UPGRADE"
        PROVE  \E a \in answers' : a.by = g /\ ~a.cut
    <3>1. CASE g = h
      BY <1>5, <1>7, <2>2, <3>1
    <3>2. CASE g # h
      BY <1>1, <1>5, <1>7, <2>2, <3>2 DEF IInv, FirstRequestOnly
    <3> QED
      BY <3>1, <3>2
  <2> QED
    BY <1>1, <2>1, <2>2 DEF FirstRequestOnly
<1>9. TypeOK'
  BY <1>1, <1>5, <1>7 DEF IInv, TypeOK, threads, dmcData, reports
<1>10. AcceptedOK' /\ PointersOK' /\ CameOK' /\ GreetOK'
  BY <1>1 DEF IInv, AcceptedOK, PointersOK, Points, Latest, CameOK, dmcData, GreetOK, threads
<1>11. StraysOK'
  BY <1>1, StraysUnchanged DEF IInv
<1> QED
  BY <1>7, <1>8, <1>9, <1>10, <1>11 DEF IInv

\* The words of a manifest, and of a piece.
LEMMA WordsTypes ==
  ASSUME NEW s \in Seq(Devices), NEW i \in 1..(2 * Len(s))
  PROVE  WordsOf(s)[i] \in Words
<1>1. WordsOf(s)[i] = IF i % 2 = 1 THEN "version" ELSE s[i \div 2]
  BY DEF WordsOf
<1>2. CASE i % 2 = 1
  BY <1>1, <1>2 DEF Words
<1>3. CASE i % 2 # 1
  <2>1. i \div 2 \in 1..Len(s)
    BY <1>3
  <2>2. s[i \div 2] \in Devices
    BY <2>1
  <2> QED
    BY <1>1, <1>3, <2>2 DEF Words
<1> QED
  BY <1>2, <1>3

LEMMA PieceTypes ==
  ASSUME IInv, NEW d \in Dmcs, NEW n \in Sizes(d), NEW first \in {1, 2}, NEW last \in {0, 1}
  PROVE  Piece(d, n, first, last) \subseteq Words
<1> DEFINE s == sends[d]
           a == came[d] + first
           b == came[d] + n - last
<1>1. s \in Seq(Devices) /\ came[d] \in Nat
  BY SessionsAssumption DEF IInv, TypeOK
<1>2. n \in 1..(2 * Len(s) - came[d])
  BY DEF Sizes
<1>3. a \in Nat /\ a >= 1 /\ b \in Nat /\ b <= 2 * Len(s)
  BY <1>1, <1>2
<1> HIDE DEF a, b, s
<1>4. ASSUME NEW i \in a..b
      PROVE  WordsOf(s)[i] \in Words
  BY <1>1, <1>3, WordsTypes
<1>5. SubSeq(WordsOf(s), a, b) \in Seq(Words)
  BY <1>3, <1>4, SubSeqProperties
<1>6. Piece(d, n, first, last) = ToSet(SubSeq(WordsOf(s), a, b))
  BY DEF Piece, a, b, s
<1> QED
  BY <1>5, <1>6 DEF ToSet

\* A search finds one device at most (lines 850 to 857).
LEMMA FoundTypes ==
  ASSUME NEW words \in SUBSET Words
  PROVE  Found(words) = {} \/ \E e \in Devices : Found(words) = {e}
BY DEF Found, Devices, Words

\* So that what was found is a sequence of one entry at most.
LEMMA FoundSequence ==
  /\ SetToSeq({}) = <<>>
  /\ \A e \in Devices : SetToSeq({e}) = <<e>>
<1>1. SetToSeq({}) = <<>>
  <2>1. Cardinality({}) = 0
    BY FS_EmptySet
  <2> QED
    BY <2>1 DEF SetToSeq, IsInjective
<1>2. ASSUME NEW e \in Devices
      PROVE  SetToSeq({e}) = <<e>>
  <2>1. Cardinality({e}) = 1
    BY FS_Singleton
  <2>2. [i \in 1..1 |-> e] \in {f \in [1..1 -> {e}] : IsInjective(f)}
    BY DEF IsInjective
  <2>3. SetToSeq({e}) \in [1..1 -> {e}]
    BY <2>1, <2>2 DEF SetToSeq
  <2> QED
    BY <2>3
<1> QED
  BY <1>1, <1>2

\* A search appends one device to what was acted upon, or nothing.
LEMMA FoundAppends ==
  ASSUME NEW words \in SUBSET Words, NEW s \in Seq(Devices)
  PROVE  \/ /\ Found(words) = {}
            /\ s \o SetToSeq(Found(words)) = s
         \/ \E e \in Devices : /\ e \in words /\ Found(words) = {e}
                              /\ s \o SetToSeq(Found(words)) = Append(s, e)
<1>1. CASE Found(words) = {}
  <2>1. s \o SetToSeq(Found(words)) = s \o <<>>
    BY <1>1, FoundSequence
  <2> QED
    BY <1>1, <2>1, ConcatEmptySeq
<1>2. CASE \E e \in Devices : Found(words) = {e}
  <2>1. PICK e \in Devices : Found(words) = {e}
    BY <1>2
  <2>2. e \in words
    BY <2>1 DEF Found, Devices
  <2>3. s \o SetToSeq(Found(words)) = s \o <<e>>
    BY <2>1, FoundSequence
  <2>4. s \o <<e>> = Append(s, e)
    OBVIOUS
  <2> QED
    BY <2>1, <2>2, <2>3, <2>4
<1> QED
  BY <1>1, <1>2, FoundTypes

LEMMA DmcReceiveInvariant ==
  ASSUME IInv, NEW d \in Dmcs, DmcReceive(d)
  PROVE  IInv'
<1>1. /\ up = "up" /\ UNCHANGED <<up, threads, dmc, hmi, state, sends, hmiData, accepted,
                              reports>>
  BY DEF DmcReceive
<1>2. PICK n \in Sizes(d), first \in {1, 2}, last \in {0, 1}, boundary \in BOOLEAN :
        LET words == Piece(d, n, first, last) IN
        /\ aligned[d] => first = 1
        /\ boundary => last = 0 /\ (came[d] + n) % 2 = 0
        /\ came' = [came EXCEPT ![d] = @ + n]
        /\ aligned' = [aligned EXCEPT ![d] = boundary]
        /\ whole' = IF aligned[d] /\ n = 2 /\ boundary THEN whole ELSE whole \ {d}
        /\ \E old \in SUBSET Words :
             /\ handled' = [handled EXCEPT ![d] = @ \o SetToSeq(Found(words \cup old))]
             /\ overread' = (overread \/ Found(words \cup old) # Found(words))
  BY DEF DmcReceive
<1> DEFINE words == Piece(d, n, first, last)
<1>3. words \subseteq Words
  BY PieceTypes
<1> HIDE DEF words
<1>4. PICK old \in SUBSET Words :
        /\ handled' = [handled EXCEPT ![d] = @ \o SetToSeq(Found(words \cup old))]
        /\ overread' = (overread \/ Found(words \cup old) # Found(words))
  BY <1>2 DEF words
<1>5. handled \in [Dmcs -> Seq(Devices)]
  BY DEF IInv, TypeOK
<1>6. handled' \in [Dmcs -> Seq(Devices)]
  <2>1. words \cup old \in SUBSET Words
    BY <1>3
  <2>2. handled[d] \in Seq(Devices)
    BY <1>5
  <2>3. \/ handled[d] \o SetToSeq(Found(words \cup old)) = handled[d]
        \/ \E e \in Devices :
             handled[d] \o SetToSeq(Found(words \cup old)) = Append(handled[d], e)
    BY <2>1, <2>2, FoundAppends, Zenon
  <2>4. \A e \in Devices : Append(handled[d], e) \in Seq(Devices)
    BY <2>2
  <2>5. handled[d] \o SetToSeq(Found(words \cup old)) \in Seq(Devices)
    BY <2>2, <2>3, <2>4, Zenon
  <2> QED
    BY <1>4, <1>5, <2>5
<1>7. whole' \subseteq Dmcs
  BY <1>2 DEF IInv, TypeOK
<1>8. overread' \in BOOLEAN /\ aligned' \in [Dmcs -> BOOLEAN]
  BY <1>2, <1>4, Zenon DEF IInv, TypeOK
<1>9. came' \in [Dmcs -> Nat] /\ CameOK'
  <2>1. came \in [Dmcs -> Nat] /\ \A e \in Dmcs : sends[e] \in Seq(Devices)
    BY SessionsAssumption DEF IInv, TypeOK
  <2>2. came' = [came EXCEPT ![d] = came[d] + n]
    BY <1>2
  <2>3. n \in 1..(2 * Len(sends[d]) - came[d])
    BY DEF Sizes
  <2>4. came[d] + n \in Nat /\ came[d] + n <= 2 * Len(sends[d])
    BY <2>1, <2>3
  <2> QED
    BY <1>1, <2>1, <2>2, <2>4 DEF IInv, CameOK
<1>10. TypeOK'
  BY <1>1, <1>6, <1>7, <1>8, <1>9 DEF IInv, TypeOK, threads, hmiData, reports
<1>11. AcceptedOK' /\ PointersOK' /\ GreetOK' /\ StraysOK'
  BY <1>1, StraysUnchanged DEF IInv, AcceptedOK, PointersOK, Points, Latest, GreetOK, threads
<1>12. AnswerGoesToLatest' /\ FirstRequestOnly' /\ CrashOK'
  BY <1>1 DEF IInv, AnswerGoesToLatest, FirstRequestOnly, CrashOK, hmiData
<1> QED
  BY <1>9, <1>10, <1>11, <1>12 DEF IInv

-----------------------------------------------------------------------------

LEMMA InitInvariant == Init => IInv
<1> SUFFICES ASSUME Init PROVE IInv
  OBVIOUS
<1>1. TypeOK
  <2>1. /\ up = "up" /\ main = "poll" /\ hmiThread = "none" /\ monitors = 0
        /\ monitor \in BOOLEAN /\ overread \in BOOLEAN /\ aligned \in [Dmcs -> BOOLEAN]
        /\ dmc = None /\ hmi = None
        /\ whole = Dmcs /\ accepted = <<>> /\ answers = {}
    BY Zenon DEF Init
  <2>2. /\ state \in [Conns -> {"new", "open", "closed"}]
        /\ sending \in [Senders -> {None} \cup {c \in Conns : state[c] # "new"}]
        /\ strays \in [Senders -> [Conns -> Nat]]
        /\ handled \in [Dmcs -> Seq(Devices)]
        /\ came \in [Dmcs -> Nat] /\ got \in [Hmis -> Nat]
        /\ \A d \in Dmcs : sends[d] \in Manifests[d]
        /\ \A h \in Hmis : asks[h] \in Requests[h]
    BY DEF Init
  <2> QED
    BY <2>1, <2>2 DEF TypeOK
<1>2. AcceptedOK
  BY DEF Init, AcceptedOK, Conns
<1>3. PointersOK
  BY DEF Init, PointersOK, Points
<1>4. CameOK
  <2>1. \A d \in Dmcs : sends[d] \in Seq(Devices)
    BY <1>1, SessionsAssumption DEF TypeOK
  <2> QED
    BY <2>1 DEF Init, CameOK
<1>5. AnswerGoesToLatest /\ FirstRequestOnly /\ CrashOK /\ GreetOK /\ StraysOK
  BY DEF Init, AnswerGoesToLatest, FirstRequestOnly, CrashOK, GreetOK, StraysOK
<1> QED
  BY <1>1, <1>2, <1>3, <1>4, <1>5 DEF IInv

LEMMA StepInvariant == IInv /\ [Next]_vars => IInv'
<1> SUFFICES ASSUME IInv, [Next]_vars PROVE IInv'
  OBVIOUS
<1>1. CASE \E d \in Dmcs : DmcAccept(d) \/ DmcReceive(d)
  BY <1>1, DmcAcceptInvariant, DmcReceiveInvariant
<1>2. CASE \E h \in Hmis : HmiAccept(h) \/ HmiReceive(h)
  BY <1>2, HmiAcceptInvariant, HmiReceiveInvariant
<1>3. CASE \E c \in Conns : Close(c) \/ WriteRaces(c)
  BY <1>3, CloseInvariant
<1>4. CASE DmcGreeted \/ MonitorBinds \/ HmiBinds
  BY <1>4, ThreadsInvariant
<1>5. CASE StatusReport \/ \E s \in Reporters : ProgressReport(s)
  BY <1>5, LoadInvariant DEF StatusReport, ProgressReport, Senders
<1>6. CASE \E s \in Senders : Send(s)
  BY <1>6, SendInvariant
<1>7. CASE UNCHANGED vars
  <2>1. UNCHANGED <<dmc, hmi, accepted, Talk, up, threads, state, reports>>
    BY <1>7 DEF vars, Talk
  <2>2. CrashOK' /\ StraysOK'
    BY <2>1, StraysUnchanged DEF IInv, CrashOK, Explained, Latest, InSend, reports, Talk, hmiData
  <2> QED
    BY <2>1, <2>2, QuietInvariant DEF IInv, TypeOK, threads, reports
<1> QED
  BY <1>1, <1>2, <1>3, <1>4, <1>5, <1>6, <1>7 DEF Next

LEMMA Invariant == Spec => []IInv
BY InitInvariant, StepInvariant, PTL DEF Spec

\* Types, and pointers to connections that were accepted, whatever the peers do.
THEOREM SessionsTyping == Spec => []TypeOK
<1>1. IInv => TypeOK
  BY DEF IInv
<1> QED
  BY <1>1, Invariant, PTL

\* An answer reaches the HMI that asked or one that connected later (line 566).
THEOREM AnswersGoToLatest == Spec => []AnswerGoesToLatest
<1>1. IInv => AnswerGoesToLatest
  BY DEF IInv
<1> QED
  BY <1>1, Invariant, PTL

\* The first request of an HMI is answered once it is complete, and no other but what is
\* made of it while it is cut (line 572).
THEOREM OnlyFirstRequests == Spec => []FirstRequestOnly
<1>1. IInv => FirstRequestOnly
  BY DEF IInv
<1> QED
  BY <1>1, Invariant, PTL

\* A pointer that was loaded (lines 159, 1065) is used once, at most, after its
\* connection was replaced, however many threads send and whenever connections are
\* closed and accepted; and why a crash can be.
THEOREM StraysBounded == Spec => []StraysAreBounded
<1>1. IInv => StraysAreBounded
  BY DEF IInv, StraysOK, CrashOK, Explained, StraysAreBounded
<1> QED
  BY <1>1, Invariant, PTL

-----------------------------------------------------------------------------
(* Manifests in pieces *)

\* What d has sent of what is acted upon.
Received(d) == SubSeq(sends[d], 1, came[d] \div 2)

\* DMCs that have only sent whole manifests have sent no half of one.
WholeEven == \A d \in whole : came[d] % 2 = 0

SentOK == ManifestsAsSent /\ WholeEven

\* The first k elements of a sequence, and those after them.
LEMMA FirstOf ==
  ASSUME NEW s \in Seq(Devices), NEW k \in 0..Len(s)
  PROVE  /\ SubSeq(s, 1, k) \in Seq(Devices) /\ Len(SubSeq(s, 1, k)) = k
         /\ \A i \in 1..k : SubSeq(s, 1, k)[i] = s[i]
         /\ k < Len(s) => SubSeq(s, 1, k + 1) = Append(SubSeq(s, 1, k), s[k + 1])
OBVIOUS

\* Some of the first k elements are some of the first l.
LEMMA SomeOfMore ==
  ASSUME NEW s \in Seq(Devices), NEW k \in 0..Len(s), NEW l \in k..Len(s),
         NEW t \in Seq(Devices), SomeOf(t, SubSeq(s, 1, k))
  PROVE  SomeOf(t, SubSeq(s, 1, l))
<1>1. l \in 0..Len(s)
  OBVIOUS
<1>2. /\ DOMAIN SubSeq(s, 1, k) = 1..k /\ DOMAIN SubSeq(s, 1, l) = 1..l
      /\ \A i \in 1..k : i \in 1..l /\ SubSeq(s, 1, k)[i] = SubSeq(s, 1, l)[i]
  BY <1>1, FirstOf
<1> PICK a, b : a = SubSeq(s, 1, k) /\ b = SubSeq(s, 1, l)
  OBVIOUS
<1>3. DOMAIN a \subseteq DOMAIN b /\ \A i \in DOMAIN a : a[i] = b[i]
  BY <1>2
<1>4. SomeOf(t, a)
  OBVIOUS
<1>5. PICK f \in [DOMAIN t -> DOMAIN a] :
        /\ \A i \in DOMAIN t : t[i] = a[f[i]]
        /\ \A i, j \in DOMAIN t : i < j => f[i] < f[j]
  BY <1>4 DEF SomeOf
<1>6. f \in [DOMAIN t -> DOMAIN b] /\ \A i \in DOMAIN t : t[i] = b[f[i]]
  BY <1>3, <1>5
<1>7. SomeOf(t, b)
  BY <1>5, <1>6 DEF SomeOf
<1> QED
  BY <1>7

\* And with one of the elements from k + 1 to l behind them, too.
LEMMA SomeOfAppend ==
  ASSUME NEW s \in Seq(Devices), NEW k \in 0..Len(s), NEW l \in k..Len(s),
         NEW t \in Seq(Devices), SomeOf(t, SubSeq(s, 1, k)),
         NEW m \in (k + 1)..l
  PROVE  SomeOf(Append(t, s[m]), SubSeq(s, 1, l))
<1> DEFINE a == SubSeq(s, 1, k)
           b == SubSeq(s, 1, l)
           u == Append(t, s[m])
<1>1. l \in 0..Len(s) /\ m \in 1..l /\ m \in 1..Len(s) /\ m > k
  OBVIOUS
<1>2. /\ DOMAIN a = 1..k /\ DOMAIN b = 1..l
      /\ \A i \in 1..k : a[i] = s[i]
      /\ \A i \in 1..l : b[i] = s[i]
  BY <1>1, FirstOf
<1>3. PICK f \in [DOMAIN t -> 1..k] :
        /\ \A i \in DOMAIN t : t[i] = a[f[i]]
        /\ \A i, j \in DOMAIN t : i < j => f[i] < f[j]
  BY <1>2 DEF SomeOf
<1>4. /\ Len(t) \in Nat /\ DOMAIN t = 1..Len(t) /\ DOMAIN u = 1..(Len(t) + 1)
      /\ u[Len(t) + 1] = s[m] /\ \A i \in 1..Len(t) : u[i] = t[i]
  OBVIOUS
<1> HIDE DEF a, b, u
<1> DEFINE g == [i \in DOMAIN u |-> IF i = Len(t) + 1 THEN m ELSE f[i]]
<1>5. \A i \in 1..Len(t) : f[i] \in 1..k /\ i # Len(t) + 1 /\ i \in DOMAIN u
  BY <1>3, <1>4
<1>6. g \in [DOMAIN u -> DOMAIN b]
  BY <1>1, <1>2, <1>4, <1>5
<1>7. \A i \in DOMAIN u : u[i] = b[g[i]]
  <2> TAKE i \in DOMAIN u
  <2>1. CASE i = Len(t) + 1
    BY <1>1, <1>2, <1>4, <2>1
  <2>2. CASE i \in 1..Len(t)
    <3>1. t[i] = a[f[i]] /\ f[i] \in 1..k
      BY <1>3, <1>4, <2>2
    <3>2. f[i] \in 1..l
      BY <3>1
    <3> QED
      BY <1>2, <1>4, <1>5, <2>2, <3>1, <3>2
  <2> QED
    BY <1>4, <2>1, <2>2
<1>8. \A i, j \in DOMAIN u : i < j => g[i] < g[j]
  <2> SUFFICES ASSUME NEW i \in DOMAIN u, NEW j \in DOMAIN u, i < j PROVE g[i] < g[j]
    OBVIOUS
  <2>1. i \in 1..Len(t)
    BY <1>4
  <2>2. CASE j = Len(t) + 1
    <3>1. g[i] = f[i] /\ g[j] = m /\ f[i] \in 1..k
      BY <1>5, <2>1, <2>2
    <3> QED
      BY <1>1, <3>1
  <2>3. CASE j \in 1..Len(t)
    <3>1. g[i] = f[i] /\ g[j] = f[j]
      BY <1>5, <2>1, <2>3
    <3> QED
      BY <1>3, <1>4, <2>1, <2>3, <3>1
  <2> QED
    BY <1>4, <2>2, <2>3
<1> HIDE DEF g
<1>9. SomeOf(u, b)
  BY <1>6, <1>7, <1>8 DEF SomeOf
<1> QED
  BY <1>9 DEF u, b

\* Where the device is that a search found among the words of a piece: it is that of a
\* manifest of which the second word has come with this piece.
LEMMA PieceDevice ==
  ASSUME IInv, NEW d \in Dmcs, NEW n \in Sizes(d), NEW first \in {1, 2}, NEW last \in {0, 1},
         NEW e \in Devices, e \in Piece(d, n, first, last)
  PROVE  \E m \in (came[d] \div 2 + 1)..((came[d] + n) \div 2) : e = sends[d][m]
<1> DEFINE s == sends[d]
           a == came[d] + first
           b == came[d] + n - last
<1>1. s \in Seq(Devices) /\ came[d] \in Nat
  BY SessionsAssumption DEF IInv, TypeOK
<1>2. n \in 1..(2 * Len(s) - came[d])
  BY DEF Sizes
<1>3. a \in Nat /\ a >= came[d] + 1 /\ b \in Nat /\ b <= came[d] + n /\ b <= 2 * Len(s)
  BY <1>1, <1>2
<1> HIDE DEF a, b
<1>4. PICK i \in a..b : WordsOf(s)[i] = e
  <2> PICK w : w = SubSeq(WordsOf(s), a, b)
    OBVIOUS
  <2>1. e \in ToSet(w)
    BY DEF Piece, a, b
  <2>2. WordsOf(s) = [i \in 1..(2 * Len(s)) |-> IF i % 2 = 1 THEN "version" ELSE s[i \div 2]]
    BY DEF WordsOf
  <2>3. \A i \in a..b : WordsOf(s)[i] \in Words
    BY <1>1, <1>3, WordsTypes
  <2>4. /\ w \in Seq(Words)
        /\ Len(w) = IF a <= b THEN b - a + 1 ELSE 0
        /\ \A j \in 1..(b - a + 1) : w[j] = WordsOf(s)[a + j - 1]
    BY <1>3, <2>3, SubSeqProperties
  <2>5. PICK j \in 1..Len(w) : w[j] = e
    <3>1. DOMAIN w = 1..Len(w)
      BY <2>4
    <3> QED
      BY <2>1, <3>1 DEF ToSet
  <2>6. a + j - 1 \in a..b /\ w[j] = WordsOf(s)[a + j - 1]
    BY <1>3, <2>4, <2>5
  <2> QED
    BY <2>5, <2>6
<1>5. WordsOf(s)[i] = IF i % 2 = 1 THEN "version" ELSE s[i \div 2]
  <2>1. i \in 1..(2 * Len(s))
    BY <1>1, <1>3
  <2> QED
    BY <2>1 DEF WordsOf
<1>6. i % 2 # 1 /\ e = s[i \div 2]
  BY <1>4, <1>5 DEF Devices
<1>7. i \in Nat /\ i % 2 = 0 /\ i >= came[d] + 1 /\ i <= came[d] + n /\ n \in Nat
  BY <1>1, <1>2, <1>3, <1>6
<1>8. i \div 2 \in (came[d] \div 2 + 1)..((came[d] + n) \div 2)
  BY <1>1, <1>7
<1> QED
  BY <1>6, <1>8

\* A piece that is the next manifest.
LEMMA PieceWhole ==
  ASSUME IInv, NEW d \in Dmcs, came[d] % 2 = 0, 2 \in Sizes(d)
  PROVE  /\ came[d] \div 2 + 1 \in 1..Len(sends[d])
         /\ (came[d] + 2) \div 2 = came[d] \div 2 + 1
         /\ Found(Piece(d, 2, 1, 0)) = {sends[d][came[d] \div 2 + 1]}
<1> DEFINE s == sends[d]
           k == came[d] \div 2
<1>1. s \in Seq(Devices) /\ came[d] \in Nat
  BY SessionsAssumption DEF IInv, TypeOK
<1>2. 2 \in 1..(2 * Len(s) - came[d])
  BY DEF Sizes
<1>3. k \in Nat /\ came[d] = 2 * k
  BY <1>1
<1>4. k + 1 \in 1..Len(s) /\ (came[d] + 2) \div 2 = k + 1
  BY <1>1, <1>2, <1>3
<1> HIDE DEF s, k
<1>5. /\ 2 * k + 1 \in 1..(2 * Len(s)) /\ 2 * k + 2 \in 1..(2 * Len(s))
      /\ (2 * k + 1) % 2 = 1 /\ (2 * k + 2) % 2 # 1 /\ (2 * k + 2) \div 2 = k + 1
      /\ Len(s) \in Nat
  BY <1>1, <1>3, <1>4 DEF s
<1>6. WordsOf(s)[2 * k + 1] = "version" /\ WordsOf(s)[2 * k + 2] = s[k + 1]
  BY <1>5 DEF WordsOf
<1>7. Piece(d, 2, 1, 0) = {"version", s[k + 1]}
  <2>0. \A v \in Seq(Words) : Len(v) = 2 => ToSet(v) = {v[1], v[2]}
    BY DEF ToSet
  <2> PICK w : w = SubSeq(WordsOf(s), 2 * k + 1, 2 * k + 2)
    OBVIOUS
  <2>1. Piece(d, 2, 1, 0) = ToSet(w)
    <3>1. came[d] + 1 = 2 * k + 1 /\ came[d] + 2 - 0 = 2 * k + 2
      BY <1>3
    <3> QED
      BY <3>1 DEF Piece, s
  <2>2. \A i \in (2 * k + 1)..(2 * k + 2) : WordsOf(s)[i] \in Words
    BY <1>1, <1>3, <1>5, WordsTypes DEF s
  <2>3. w \in Seq(Words) /\ Len(w) = 2 /\ w[1] = WordsOf(s)[2 * k + 1]
        /\ w[2] = WordsOf(s)[2 * k + 2]
    BY <1>3, <2>2, SubSeqProperties
  <2>4. ToSet(w) = {w[1], w[2]}
    BY <2>0, <2>3, Zenon
  <2> QED
    BY <1>6, <2>1, <2>3, <2>4
<1>8. s[k + 1] \in Devices
  BY <1>1, <1>4 DEF s
<1>9. Found({"version", s[k + 1]}) = {s[k + 1]}
  BY <1>8 DEF Found, Devices
<1> QED
  BY <1>4, <1>7, <1>9 DEF s, k

\* What a received piece brings to one DMC is acted upon as ManifestsAsSent says.
LEMMA DmcReceiveSent ==
  ASSUME IInv, IInv', SentOK, NEW d \in Dmcs, DmcReceive(d)
  PROVE  SentOK'
<1>1. UNCHANGED sends
  BY DEF DmcReceive
<1>2. PICK n \in Sizes(d), first \in {1, 2}, last \in {0, 1}, boundary \in BOOLEAN :
        LET words == Piece(d, n, first, last) IN
        /\ aligned[d] => first = 1
        /\ boundary => last = 0 /\ (came[d] + n) % 2 = 0
        /\ came' = [came EXCEPT ![d] = @ + n]
        /\ aligned' = [aligned EXCEPT ![d] = boundary]
        /\ whole' = IF aligned[d] /\ n = 2 /\ boundary THEN whole ELSE whole \ {d}
        /\ \E old \in SUBSET Words :
             /\ handled' = [handled EXCEPT ![d] = @ \o SetToSeq(Found(words \cup old))]
             /\ overread' = (overread \/ Found(words \cup old) # Found(words))
  BY DEF DmcReceive
<1> DEFINE words == Piece(d, n, first, last)
<1>3. PICK old \in SUBSET Words :
        /\ handled' = [handled EXCEPT ![d] = @ \o SetToSeq(Found(words \cup old))]
        /\ overread' = (overread \/ Found(words \cup old) # Found(words))
  BY <1>2 DEF words
<1>4. words \subseteq Words
  BY PieceTypes
<1>5. /\ handled \in [Dmcs -> Seq(Devices)] /\ came \in [Dmcs -> Nat]
      /\ \A c \in Dmcs : sends[c] \in Seq(Devices)
  BY SessionsAssumption DEF IInv, TypeOK
<1>6. \A c \in Dmcs : /\ came'[c] = IF c = d THEN came[c] + n ELSE came[c]
                      /\ c # d => handled'[c] = handled[c]
  BY <1>2, <1>3, <1>5
<1>7. n \in Nat /\ came[d] + n \in Nat /\ came[d] + n <= 2 * Len(sends[d])
  BY <1>5 DEF Sizes
<1> DEFINE t == handled[d]
           u == handled'[d]
<1>8. \/ Found(words \cup old) = {} /\ u = t
      \/ \E e \in Devices : /\ e \in words \cup old /\ Found(words \cup old) = {e}
                           /\ u = Append(t, e)
  <2>1. words \cup old \in SUBSET Words
    BY <1>4
  <2>2. t \in Seq(Devices)
    BY <1>5
  <2>3. u = t \o SetToSeq(Found(words \cup old))
    BY <1>3, <1>5
  <2> HIDE DEF t, u, words
  <2> QED
    BY <2>1, <2>2, <2>3, FoundAppends
<1>9. t \in Seq(Devices) /\ u \in Seq(Devices)
  BY <1>5 DEF IInv, TypeOK
<1> HIDE DEF words, t, u
<1>10. ASSUME ~overread'
       PROVE  SomeOf(u, Received(d)') /\ (d \in whole' => u = Received(d)')
  <2> DEFINE s == sends[d]
             k == came[d] \div 2
             l == (came[d] + n) \div 2
  <2>1. ~overread /\ Found(words \cup old) = Found(words)
    BY <1>3, <1>10
  <2>2. SomeOf(t, SubSeq(s, 1, k)) /\ (d \in whole => t = SubSeq(s, 1, k))
    BY <2>1 DEF SentOK, ManifestsAsSent, t
  <2>3. Received(d)' = SubSeq(s, 1, l)
    BY <1>1, <1>6 DEF Received
  <2>4. s \in Seq(Devices) /\ k \in 0..Len(s) /\ l \in k..Len(s)
    BY <1>5, <1>7
  <2>5. SomeOf(u, SubSeq(s, 1, l))
    <3>1. CASE u = t
      BY <1>9, <2>2, <2>4, <3>1, SomeOfMore
    <3>2. CASE \E e \in Devices : Found(words) = {e} /\ u = Append(t, e)
      <4>1. PICK e \in Devices : Found(words) = {e} /\ u = Append(t, e)
        BY <3>2
      <4>2. e \in words
        BY <4>1 DEF Found, Devices
      <4>3. PICK m \in (k + 1)..l : e = s[m]
        BY <4>2, PieceDevice DEF words
      <4> HIDE DEF s, k, l
      <4> QED
        BY <1>9, <2>2, <2>4, <4>1, <4>3, SomeOfAppend
    <3> QED
      BY <1>8, <2>1, <3>1, <3>2
  <2>6. ASSUME d \in whole'
        PROVE  u = SubSeq(s, 1, l)
    <3>1. aligned[d] /\ n = 2 /\ boundary /\ d \in whole
      BY <1>2, <2>6
    <3>2. first = 1 /\ last = 0 /\ came[d] % 2 = 0
      BY <1>2, <3>1 DEF SentOK, WholeEven
    <3>3. k + 1 \in 1..Len(s) /\ l = k + 1 /\ Found(words) = {s[k + 1]}
      BY <3>1, <3>2, PieceWhole DEF words
    <3> HIDE DEF s, k, l
    <3>4. u = Append(t, s[k + 1])
      BY <1>8, <2>1, <3>3
    <3>5. s \in Seq(Devices) /\ k \in 0..Len(s) /\ k < Len(s)
      BY <2>4, <3>3
    <3>6. SubSeq(s, 1, k + 1) = Append(SubSeq(s, 1, k), s[k + 1])
      BY <3>5, FirstOf
    <3> QED
      BY <2>2, <3>1, <3>3, <3>4, <3>6
  <2> QED
    BY <2>3, <2>5, <2>6
<1>11. WholeEven'
  <2>1. whole' \subseteq whole /\ whole \subseteq Dmcs
    BY <1>2 DEF IInv, TypeOK
  <2>2. d \in whole' => n = 2
    BY <1>2
  <2>3. d \in whole' => came'[d] % 2 = 0
    BY <1>2, <1>6, <2>2
  <2> QED
    BY <1>6, <2>1, <2>3 DEF SentOK, WholeEven
<1>12. ManifestsAsSent'
  <2> SUFFICES ASSUME NEW c \in Dmcs
               PROVE  ~overread' =>
                        /\ SomeOf(handled'[c], Received(c)')
                        /\ c \in whole' => handled'[c] = Received(c)'
    BY DEF ManifestsAsSent, Received
  <2>1. CASE c = d
    BY <1>10, <2>1 DEF u
  <2>2. CASE c # d
    <3>1. handled'[c] = handled[c] /\ Received(c)' = Received(c)
      BY <1>1, <1>6, <2>2 DEF Received
    <3>2. c \in whole' => c \in whole
      BY <1>2
    <3>3. ~overread' => ~overread
      BY <1>3
    <3> QED
      BY <3>1, <3>2, <3>3 DEF SentOK, ManifestsAsSent, Received
  <2> QED
    BY <2>1, <2>2
<1> QED
  BY <1>11, <1>12 DEF SentOK

\* Nothing else is acted upon, and at first nothing was.
LEMMA SentInvariant == Spec => [](IInv /\ SentOK)
<1>1. Init => SentOK
  <2> SUFFICES ASSUME Init PROVE SentOK
    OBVIOUS
  <2>1. ASSUME NEW d \in Dmcs
        PROVE  SomeOf(handled[d], Received(d)) /\ handled[d] = Received(d)
    <3>1. handled[d] = <<>> /\ came[d] = 0
      BY DEF Init
    <3>2. sends[d] \in Seq(Devices)
      BY SessionsAssumption DEF Init
    <3>3. Received(d) = <<>>
      BY <3>1, <3>2 DEF Received
    <3>4. SomeOf(<<>>, <<>>)
      <4>1. [i \in {} |-> i] \in [{} -> {}]
        OBVIOUS
      <4>2. \A a : DOMAIN a = {} => SomeOf(a, a)
        BY <4>1, Zenon DEF SomeOf
      <4>3. DOMAIN <<>> = {}
        OBVIOUS
      <4> QED
        BY <4>2, <4>3
    <3> QED
      BY <3>1, <3>3, <3>4
  <2>2. WholeEven
    BY DEF Init, WholeEven
  <2> QED
    BY <2>1, <2>2 DEF SentOK, ManifestsAsSent, Received
<1>2. IInv /\ SentOK /\ [Next]_vars => SentOK'
  <2> SUFFICES ASSUME IInv, SentOK, [Next]_vars PROVE SentOK'
    OBVIOUS
  <2>1. CASE UNCHANGED dmcData
    BY <2>1 DEF dmcData, SentOK, ManifestsAsSent, WholeEven
  <2>2. CASE \E d \in Dmcs : DmcReceive(d)
    BY <2>2, StepInvariant, DmcReceiveSent
  <2>3. UNCHANGED dmcData \/ \E d \in Dmcs : DmcReceive(d)
    BY DEF Next, DmcAccept, HmiAccept, HmiReceive, Close, WriteRaces, DmcGreeted, MonitorBinds,
           StatusReport, HmiBinds, ProgressReport, Load, Send, vars
  <2> QED
    BY <2>1, <2>2, <2>3
<1> QED
  BY <1>1, <1>2, InitInvariant, StepInvariant, PTL DEF Spec

\* Manifests in pieces (lines 849 to 857): as long as no search finds a word behind its
\* piece, what is acted upon are manifests of the DMC, in order and each once, and all of
\* them if each came in a piece of its own.
THEOREM ManifestsAreAsSent == Spec => []ManifestsAsSent
<1>1. SentOK => ManifestsAsSent
  BY DEF SentOK
<1> QED
  BY <1>1, SentInvariant, PTL
=============================================================================
