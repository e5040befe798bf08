----------------------------- MODULE TftpServer -----------------------------
(***************************************************************************)
(* The TFTP server of src/tftp_server: one socket, one thread, one         *)
(* transfer at a time.  run() takes a datagram for a request; process_write*)
(* and process_read then receive from the same socket whatever comes, from *)
(* whomever it comes, and answer its sender (m_client).  Between two calls *)
(* of recvfrom the server only computes and sends, so one action stands    *)
(* for all it does from one datagram, or timeout, to the next recvfrom.    *)
(*                                                                         *)
(* The clients are not in this repository.  They follow RFC 1350: each has *)
(* one job, waits for the answer to its last datagram, repeats that when   *)
(* it has waited long enough, and may abort with an ERROR or fall silent.  *)
(* Links lose datagrams and deliver them in any order; a datagram for a    *)
(* full link is lost.                                                      *)
(*                                                                         *)
(* A file is a sequence of blocks of 512 bytes, of which only the last may *)
(* be shorter.  Names, modes and the refused blksize option (answered by   *)
(* an option packet instead of ACK 0, to the same effect) are left out.    *)
(***************************************************************************)
EXTENDS Naturals, Sequences, Bags, BagsExt

CONSTANTS
  Clients,
  NoClient,  \* nobody: the address m_client has at first
  Jobs,      \* the jobs each client may have
  Wrap,      \* block numbers on the wire: 2^16 in the code
  Tries,     \* times process_read sends a block: 3 in the code
  Cap,       \* a bound: datagrams on a link
  Repeats    \* a bound: datagrams each client repeats

ASSUME TftpAssumption ==
  /\ NoClient \notin Clients
  /\ Jobs \in [Clients -> SUBSET [op : {"get", "put"}, blocks : Nat, ragged : BOOLEAN]]
  /\ \A c \in Clients : \A j \in Jobs[c] :
       /\ j.op = "put" => j.ragged  \* a client ends with a short block
       /\ j.blocks = 0 => ~j.ragged
  /\ Wrap \in Nat /\ Wrap > 1
  /\ Tries \in Nat \ {0} /\ Cap \in Nat \ {0} /\ Repeats \in [Clients -> Nat]

VARIABLES
  mode,     \* of the server: "run", "write", "wait" (for an ACK), "spin", "stopped"
  peer,     \* m_client
  open,     \* the client whose file was opened last
  block,    \* next_block_num of process_write, block_num of process_read
  tries,    \* times process_read has sent this block
  spoilt,   \* m_buffer holds an ERROR instead of the block
  disk,     \* what each client's upload has left in the server's file
  sent,     \* clients whose file process_read has reported as sent
  opened,   \* times the file of each client was opened
  mixed,    \* clients of which one was heard during the transfer of another
  job,      \* of each client
  phase,    \* "idle", "busy", "ok", "failed", per client
  at,       \* block last sent (put) or received (get), per client
  copy,     \* what each client's download has brought
  repeats,  \* datagrams each client has repeated
  lost,     \* clients to whom the network lost a block
  inbox,    \* the server's socket: a bag of datagrams with their senders
  link      \* a bag of the datagrams on the way to each client

files   == <<disk, sent, opened>>
server  == <<mode, peer, open, block, tries, spoilt, files, mixed>>
clients == <<job, phase, at, copy, repeats>>
vars == <<server, clients, lost, inbox, link>>

\* Datagrams: what matters of them.
Wrq      == [cmd |-> "WRQ"]
Rrq      == [cmd |-> "RRQ"]
Error    == [cmd |-> "ERROR"]
Ack(n)   == [cmd |-> "ACK", num |-> n % Wrap]
Block(c, n) == [cmd |-> "DATA", num |-> n % Wrap, of |-> c, index |-> n,
                short |-> n = job[c].blocks /\ job[c].ragged]

\* The file a client has or wants: its blocks, in order.
File(c) == [n \in 1..job[c].blocks |-> <<c, n>>]

\* A link b with a datagram more, if there is room.
Add(b, p) == IF BagCardinality(b) < Cap THEN BagAdd(b, p) ELSE b

ToClient(c, p) == link' = [link EXCEPT ![c] = Add(@, p)]
ToServer(c, p) == inbox' = Add(inbox, [from |-> c, pkt |-> p])

Init ==
  /\ mode = "run" /\ peer = NoClient /\ open = NoClient
  /\ block = 1 /\ tries = 0 /\ spoilt = FALSE
  /\ disk = [c \in Clients |-> <<>>]
  /\ sent = {}
  /\ opened = [c \in Clients |-> 0]
  /\ mixed = {}
  /\ job \in [Clients -> UNION {Jobs[c] : c \in Clients}]
  /\ \A c \in Clients : job[c] \in Jobs[c]
  /\ phase = [c \in Clients |-> "idle"]
  /\ at = [c \in Clients |-> 0]
  /\ copy = [c \in Clients |-> <<>>]
  /\ repeats = [c \in Clients |-> 0]
  /\ lost = {}
  /\ inbox = EmptyBag
  /\ link = [c \in Clients |-> EmptyBag]

-----------------------------------------------------------------------------
(* The server: what it does with the datagram [from |-> c, pkt |-> p] *)

\* process_read reads block n of the file of client o and sends it to c. A read
\* that brings no byte is an error, and ends the server.
SendBlock(o, c, n) ==
  IF n <= job[o].blocks
    THEN /\ ToClient(c, Block(o, n))
         /\ mode' = "wait"
    ELSE /\ ToClient(c, Error)
         /\ mode' = "stopped"

\* parse_wrq and the start of process_write: fopen truncates.
OpenToWrite(c) ==
  /\ mode' = "write"
  /\ disk' = [disk EXCEPT ![c] = <<>>]
  /\ ToClient(c, Ack(0))
  /\ UNCHANGED <<tries, spoilt, sent>>

\* parse_rrq and the start of process_read.
OpenToRead(c) ==
  /\ SendBlock(c, c, 1)
  /\ tries' = 1 /\ spoilt' = FALSE
  /\ UNCHANGED <<disk, sent>>

\* parse_rq. A file that cannot be opened is no reason to stop.
Request(c, p) ==
  \/ /\ \/ p.cmd = "WRQ" /\ OpenToWrite(c)
        \/ p.cmd = "RRQ" /\ OpenToRead(c)
     /\ open' = c /\ block' = 1
     /\ opened' = [opened EXCEPT ![c] = @ + 1]
  \/ /\ p.cmd \in {"WRQ", "RRQ"}
     /\ mode' = "run"
     /\ ToClient(c, Error)
     /\ UNCHANGED <<open, block, tries, spoilt, files>>

\* run(): what is no request ends the loop of main.
Listen(c, p) ==
  /\ mode = "run"
  /\ \/ Request(c, p)
     \/ /\ p.cmd \notin {"WRQ", "RRQ"}
        /\ mode' = "stopped"
        /\ UNCHANGED <<open, block, tries, spoilt, files, link>>

\* Mutant: the block before the expected one is written again.
WriteBlockTwice(c, p) ==
  /\ mode = "write"
  /\ p.cmd = "DATA"
  /\ ToClient(c, Ack(p.num))
  /\ IF p.num + 1 < block
       THEN UNCHANGED <<block, disk>>
       ELSE /\ block' = block + 1
            /\ disk' = [disk EXCEPT ![open] = Append(@, <<p.of, p.index>>)]
  /\ mode' = IF p.short THEN "run" ELSE "write"
  /\ UNCHANGED <<open, tries, spoilt, sent, opened>>

\* process_write receives a block. Whatever its number, it is acknowledged; a
\* number above the expected one counts as that one; a short block is the last.
WriteBlock(c, p) ==
  /\ mode = "write"
  /\ p.cmd = "DATA"
  /\ ToClient(c, Ack(p.num))
  /\ IF p.num < block
       THEN UNCHANGED <<block, disk>>
       ELSE /\ block' = block + 1
            /\ disk' = [disk EXCEPT ![open] = Append(@, <<p.of, p.index>>)]
  /\ mode' = IF p.short THEN "run" ELSE "write"
  /\ UNCHANGED <<open, tries, spoilt, sent, opened>>

\* It takes a WRQ before the first block for a repeated one.
WriteRepeated(c, p) ==
  /\ mode = "write"
  /\ p.cmd = "WRQ" /\ block = 1
  /\ ToClient(c, Ack(0))
  /\ UNCHANGED <<mode, open, block, tries, spoilt, files>>

\* Mutant: parse_rq knows a repeated WRQ no better than an ERROR.
WriteInterruptedSpins(c, p) ==
  /\ mode = "write"
  /\ p.cmd # "DATA" /\ ~(p.cmd = "WRQ" /\ block = 1)
  /\ mode' = "spin"
  /\ UNCHANGED <<open, block, tries, spoilt, files, link>>

\* Anything else goes back to parse_rq, which has no way out when it is no request.
WriteInterrupted(c, p) ==
  /\ mode = "write"
  /\ p.cmd # "DATA" /\ ~(p.cmd = "WRQ" /\ block = 1)
  /\ \/ Request(c, p)
     \/ /\ p.cmd \notin {"WRQ", "RRQ"}
        /\ mode' = "spin"
        /\ UNCHANGED <<open, block, tries, spoilt, files, link>>

\* Mutant: any ACK counts as that of the block.
AcknowledgedByAny(c, p) ==
  /\ mode = "wait"
  /\ p.cmd = "ACK"
  /\ IF Block(open, block).short
       THEN /\ mode' = "run"
            /\ sent' = sent \cup {open}
            /\ UNCHANGED <<block, tries, spoilt, link>>
       ELSE /\ SendBlock(open, c, block + 1)
            /\ block' = block + 1 /\ tries' = 1 /\ spoilt' = FALSE
            /\ UNCHANGED sent
  /\ UNCHANGED <<open, disk, opened>>

\* wait_for_ack returns 0: the next block, or, after a short one, the end.
Acknowledged(c, p) ==
  /\ mode = "wait"
  /\ p.cmd = "ACK" /\ p.num = block % Wrap
  /\ IF Block(open, block).short
       THEN /\ mode' = "run"
            /\ sent' = sent \cup {open}
            /\ UNCHANGED <<block, tries, spoilt, link>>
       ELSE /\ SendBlock(open, c, block + 1)
            /\ block' = block + 1 /\ tries' = 1 /\ spoilt' = FALSE
            /\ UNCHANGED sent
  /\ UNCHANGED <<open, disk, opened>>

\* Mutants: one try too many; tries that are not counted.
RetryOnceMore(c) ==
  /\ IF tries <= Tries
       THEN mode' = "wait" /\ tries' = tries + 1
       ELSE mode' = "stopped" /\ UNCHANGED tries
  /\ UNCHANGED <<open, block, files>>

RetryForEver(c) ==
  /\ mode' = "wait"
  /\ UNCHANGED <<open, block, tries, files>>

\* It does not, and m_buffer is sent to c once more, if tries are left.
Retry(c) ==
  /\ IF tries < Tries
       THEN mode' = "wait" /\ tries' = tries + 1
       ELSE mode' = "stopped" /\ UNCHANGED tries
  /\ UNCHANGED <<open, block, files>>

\* An ACK of another block.
WrongAck(c, p) ==
  /\ mode = "wait"
  /\ p.cmd = "ACK" /\ p.num # block % Wrap
  /\ Retry(c)
  /\ IF tries = Tries THEN UNCHANGED link
                      ELSE ToClient(c, IF spoilt THEN Error ELSE Block(open, block))
  /\ UNCHANGED spoilt

\* Mutant: the retry after a timeout sends the block.
NoAckSendsBlock(c) ==
  /\ mode = "wait"
  /\ Retry(c)
  /\ UNCHANGED spoilt
  /\ link' = [link EXCEPT ![c] = IF tries = Tries THEN @ ELSE Add(@, Block(open, block))]

\* Neither an ACK nor, after 30 seconds, anything: the error reply is built in
\* m_buffer, over the block, so that the retry sends it a second time.
NoAck(c) ==
  /\ mode = "wait"
  /\ Retry(c)
  /\ spoilt' = TRUE
  /\ link' = [link EXCEPT ![c] =
                IF tries = Tries THEN Add(@, Error) ELSE Add(Add(@, Error), Error)]

\* A datagram arrives, and its sender is m_client from now on.
Receive(m) ==
  /\ m \in BagToSet(inbox)
  /\ inbox' = BagRemove(inbox, m)
  /\ peer' = m.from
  /\ mixed' = IF mode \in {"write", "wait"} /\ m.from # open THEN mixed \cup {open, m.from} ELSE mixed
  /\ \/ Listen(m.from, m.pkt)
     \/ WriteBlock(m.from, m.pkt)
     \/ WriteRepeated(m.from, m.pkt)
     \/ WriteInterrupted(m.from, m.pkt)
     \/ Acknowledged(m.from, m.pkt)
     \/ WrongAck(m.from, m.pkt)
     \/ m.pkt.cmd # "ACK" /\ NoAck(m.from)
  /\ UNCHANGED <<clients, lost>>

\* recvfrom gives up after 30 seconds: run() goes on, process_write fails and with
\* it the server.
Timeout ==
  /\ inbox = EmptyBag
  /\ \/ mode = "write" /\ mode' = "stopped"
        /\ UNCHANGED <<open, block, tries, spoilt, files, link>>
     \/ NoAck(peer)
  /\ UNCHANGED <<peer, mixed, clients, lost, inbox>>

ServerStep == Timeout \/ \E m \in BagToSet(inbox) : Receive(m)

-----------------------------------------------------------------------------
(* The links and the clients *)

Lose ==
  /\ \/ /\ \E m \in BagToSet(inbox) : inbox' = BagRemove(inbox, m)
        /\ UNCHANGED <<lost, link>>
     \/ /\ \E c \in Clients : \E p \in BagToSet(link[c]) :
             /\ link' = [link EXCEPT ![c] = BagRemove(@, p)]
             /\ lost' = IF p.cmd = "DATA" THEN lost \cup {c} ELSE lost
        /\ UNCHANGED inbox
  /\ UNCHANGED <<server, clients>>

\* What a client has to send, or to repeat, to go on.
Pending(c) ==
  IF job[c].op = "put"
    THEN IF at[c] = 0 THEN Wrq ELSE Block(c, at[c])
    ELSE IF at[c] = 0 THEN Rrq ELSE Ack(at[c])

Ask(c) ==
  /\ phase[c] = "idle"
  /\ phase' = [phase EXCEPT ![c] = "busy"]
  /\ ToServer(c, Pending(c))
  /\ UNCHANGED <<server, job, at, copy, repeats, lost, link>>

Repeat(c) ==
  /\ phase[c] = "busy"
  /\ repeats[c] < Repeats[c]
  /\ repeats' = [repeats EXCEPT ![c] = @ + 1]
  /\ ToServer(c, Pending(c))
  /\ UNCHANGED <<server, job, phase, at, copy, lost, link>>

\* It aborts. (One that falls silent just takes no more steps.)
GiveUp(c) ==
  /\ phase[c] = "busy"
  /\ phase' = [phase EXCEPT ![c] = "failed"]
  /\ ToServer(c, Error)
  /\ UNCHANGED <<server, job, at, copy, repeats, lost, link>>

\* The block it sent last is acknowledged: it sends the next or is done.
HearAck(c, p) ==
  /\ job[c].op = "put"
  /\ p = Ack(at[c])
  /\ IF at[c] = job[c].blocks
       THEN /\ phase' = [phase EXCEPT ![c] = "ok"]
            /\ UNCHANGED <<at, inbox>>
       ELSE /\ at' = [at EXCEPT ![c] = @ + 1]
            /\ ToServer(c, Block(c, at[c] + 1))
            /\ UNCHANGED phase
  /\ UNCHANGED copy

\* The block it waits for: it takes and acknowledges it.
HearBlock(c, p) ==
  /\ job[c].op = "get"
  /\ p.cmd = "DATA" /\ p.num = (at[c] + 1) % Wrap
  /\ copy' = [copy EXCEPT ![c] = Append(@, <<p.of, p.index>>)]
  /\ at' = [at EXCEPT ![c] = @ + 1]
  /\ phase' = [phase EXCEPT ![c] = IF p.short THEN "ok" ELSE "busy"]
  /\ ToServer(c, Ack(at[c] + 1))

HearError(c, p) ==
  /\ p.cmd = "ERROR"
  /\ phase' = [phase EXCEPT ![c] = "failed"]
  /\ UNCHANGED <<at, copy, inbox>>

Expected(c, p) ==
  \/ job[c].op = "put" /\ p = Ack(at[c])
  \/ job[c].op = "get" /\ p.cmd = "DATA" /\ p.num = (at[c] + 1) % Wrap
  \/ p.cmd = "ERROR"

\* What a client hears after its transfer, or does not expect, it drops.
Hear(c) ==
  /\ \E p \in BagToSet(link[c]) :
       /\ link' = [link EXCEPT ![c] = BagRemove(@, p)]
       /\ IF phase[c] = "busy" /\ Expected(c, p)
            THEN HearAck(c, p) \/ HearBlock(c, p) \/ HearError(c, p)
            ELSE UNCHANGED <<phase, at, copy, inbox>>
  /\ UNCHANGED <<server, job, repeats, lost>>

ClientStep(c) == Ask(c) \/ Repeat(c) \/ GiveUp(c) \/ Hear(c)

Next == ServerStep \/ Lose \/ \E c \in Clients : ClientStep(c)

Spec == Init /\ [][Next]_vars

\* The server is scheduled, and its 30 seconds pass.
FairSpec == Spec /\ WF_vars(ServerStep)

-----------------------------------------------------------------------------
(* Properties *)

\* Every variable stays in its type; what is in the server's files and in the
\* clients' copies are blocks of the clients' files.
TypeOK ==
  /\ mode \in {"run", "write", "wait", "spin", "stopped"}
  /\ peer \in Clients \cup {NoClient} /\ open \in Clients \cup {NoClient}
  /\ mode \in {"write", "wait"} => open \in Clients /\ peer \in Clients
  /\ block \in Nat \ {0} /\ tries \in 0..Tries /\ spoilt \in BOOLEAN
  /\ disk \in [Clients -> Seq(Clients \X Nat)]
  /\ copy \in [Clients -> Seq(Clients \X Nat)]
  /\ sent \subseteq Clients /\ mixed \subseteq Clients /\ lost \subseteq Clients
  /\ opened \in [Clients -> Nat]
  /\ job \in [Clients -> UNION {Jobs[c] : c \in Clients}]
  /\ phase \in [Clients -> {"idle", "busy", "ok", "failed"}]
  /\ at \in [Clients -> Nat]
  /\ repeats \in [Clients -> Nat]

\* A client's transfer is its own: the server has taken one request of it, and no
\* datagram of one client in the middle of the transfer of the other.
Undisturbed(c) == opened[c] <= 1 /\ c \notin mixed

\* What the server stores of an undisturbed upload, once its client knows that the
\* last block was acknowledged: all of it, but for the blocks from number 2^16 on,
\* which process_write takes for repeated ones (line 114) and acknowledges unwritten.
StoredIsWhole ==
  \A c \in Clients :
    job[c].op = "put" /\ phase[c] = "ok" /\ Undisturbed(c) =>
      disk[c] = SubSeq(File(c), 1, IF job[c].blocks < Wrap THEN job[c].blocks ELSE Wrap - 1)

\* Transfers of fewer than Wrap blocks, one by one, are what FileTransfer promises:
\* no block is lost, repeated or misplaced, and the sender (the client of an upload,
\* process_read of a download) believes in success only when the copy is whole.
Transfer(c) == INSTANCE FileTransfer WITH
  file   <- File(c),
  copy   <- IF job[c].op = "put" THEN disk[c] ELSE copy[c],
  status <- IF ~Undisturbed(c) \/ job[c].blocks >= Wrap THEN "void"
            ELSE IF (job[c].op = "put" /\ phase[c] = "ok") \/ c \in sent THEN "done"
            ELSE "going"

ImplementsFileTransfer ==
  /\ \A c \in Clients : Transfer(c)!Init
  /\ [][\A c \in Clients : [Transfer(c)!Next]_(Transfer(c)!vars)]_vars

\* parse_rq never returns from a datagram that is no request and interrupts an upload
\* (line 281). It takes a client that gives up, or a datagram of another: nothing
\* that the network does to the datagrams of one upload brings it about.
SpinIsProvoked == mode = "spin" => open \in mixed \/ phase[open] = "failed"

\* The retries of process_read do not replace a block that was lost: after the first
\* timeout m_buffer holds an ERROR (line 221). Only a client that repeats its own
\* last datagram in time gets the block again.
LostBlockNeedsClient ==
  \A c \in lost : phase[c] = "ok" => repeats[c] > 0 \/ c \in mixed

\* tftp_server.h, on_read_data: "if length of read data is less than len argument
\* value, it is considered as end of file". So the end of a file, wherever it is,
\* should be the end of the transfer only, and not that of the server.
EndOfFileIsNoFailure ==
  mode = "stopped" /\ open # NoClient /\ job[open].op = "get" => block <= job[open].blocks

\* A transfer ends, well or badly, however the network behaves: process_write and
\* process_read do not wait for ever.
TransferEnds == mode \in {"write", "wait"} ~> mode \in {"run", "spin", "stopped"}
=============================================================================
