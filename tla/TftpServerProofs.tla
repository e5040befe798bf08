--------------------------- MODULE TftpServerProofs ---------------------------
(***************************************************************************)
(* What TftpServer promises for any number of clients with any jobs, any   *)
(* width of a block number and links of any capacity.                      *)
(*                                                                         *)
(* IInv strengthens SpinIsProvoked by what is on the way: who sends an     *)
(* ERROR has given up, and only a client that wants a file sends an ACK.   *)
(*                                                                         *)
(* TransfersOK relates, for a client that nobody disturbs, the numbers on  *)
(* the way to the blocks that both sides have.  StoredIsWhole follows, and *)
(* so does that every step is one of FileTransfer: bring the next block,   *)
(* let the sender know that the copy is whole, or neither.                 *)
(*                                                                         *)
(* LostOK follows, of a client that repeats nothing, the one datagram that *)
(* can carry its download forward; LostBlockNeedsClient is the end of it.  *)
(***************************************************************************)
EXTENDS TftpServer, TLAPS

Operations == [op : {"get", "put"}, blocks : Nat, ragged : BOOLEAN]

Datagram(p) ==
  /\ p.cmd \in {"WRQ", "RRQ", "ERROR", "ACK", "DATA"}
  /\ p.cmd = "DATA" => p.of \in Clients /\ p.index \in Nat

\* What a client may have sent.
Sensible(m) ==
  /\ m.from \in Clients
  /\ Datagram(m.pkt)
  /\ m.pkt.cmd = "ACK" => job[m.from].op = "get"
  /\ m.pkt.cmd = "ERROR" => phase[m.from] = "failed"

InboxOK == \A m \in BagToSet(inbox) : Sensible(m)

LinksOK ==
  /\ link = [c \in Clients |-> link[c]]
  /\ \A c \in Clients : \A p \in BagToSet(link[c]) : Datagram(p)

\* Only a client that has a file to send opens one to write.
WritesUploads ==
  /\ \A m \in BagToSet(inbox) : m.pkt.cmd = "WRQ" => job[m.from].op = "put"
  /\ mode \in {"write", "spin"} => open \in Clients /\ job[open].op = "put"

\* What SpinIsProvoked rests on.
Sane == InboxOK /\ LinksOK /\ WritesUploads

IInv == TypeOK /\ Sane /\ SpinIsProvoked

-----------------------------------------------------------------------------
(* Links *)

\* Nothing else is on a link than before, and what was added.
LEMMA AddOnly ==
  ASSUME NEW b, NEW p
  PROVE  BagToSet(Add(b, p)) \subseteq BagToSet(b) \cup {p}
BY DEF Add, BagAdd, BagToSet

LEMMA RemoveOnly ==
  ASSUME NEW b, NEW p
  PROVE  BagToSet(BagRemove(b, p)) \subseteq BagToSet(b)
BY DEF BagRemove, BagToSet

\* What is on the links after a datagram has been sent to c.
LEMMA LinkAfter ==
  ASSUME LinksOK, NEW c \in Clients, NEW p, ToClient(c, p)
  PROVE  /\ \A d \in Clients \ {c} : link'[d] = link[d]
         /\ BagToSet(link'[c]) \subseteq BagToSet(link[c]) \cup {p}
<1>1. link' = [d \in Clients |-> IF d = c THEN Add(link[c], p) ELSE link[d]]
  BY DEF ToClient, LinksOK
<1> QED
  BY <1>1, AddOnly

\* After a timeout nothing but ERRORs is sent.
LEMMA NoAckSends ==
  ASSUME LinksOK, NEW c \in Clients, NoAck(c), NEW d \in Clients
  PROVE  BagToSet(link'[d]) \subseteq BagToSet(link[d]) \cup {Error} /\ Error.cmd = "ERROR"
<1> DEFINE added == IF tries = Tries THEN Add(link[c], Error)
                                     ELSE Add(Add(link[c], Error), Error)
<1>1. link' = [e \in Clients |-> IF e = c THEN added ELSE link[e]]
  BY DEF NoAck, LinksOK
<1>2. BagToSet(added) \subseteq BagToSet(link[c]) \cup {Error}
  <2>1. BagToSet(Add(link[c], Error)) \subseteq BagToSet(link[c]) \cup {Error}
    BY AddOnly
  <2>2. BagToSet(Add(Add(link[c], Error), Error))
          \subseteq BagToSet(Add(link[c], Error)) \cup {Error}
    BY AddOnly
  <2> QED
    BY <2>1, <2>2
<1> HIDE DEF added
<1> QED
  BY <1>1, <1>2 DEF Error

\* What is in the socket after a client has sent a datagram.
LEMMA InboxAfter ==
  ASSUME NEW c \in Clients, NEW p, ToServer(c, p), NEW m \in BagToSet(inbox')
  PROVE  m \in BagToSet(inbox) \/ m = [from |-> c, pkt |-> p]
BY AddOnly DEF ToServer

\* What is on the link to a client after it has heard a datagram.
LEMMA LinkHeard ==
  ASSUME LinksOK, NEW c \in Clients, NEW p, link' = [link EXCEPT ![c] = BagRemove(@, p)],
         NEW d \in Clients
  PROVE  BagToSet(link'[d]) \subseteq BagToSet(link[d])
BY RemoveOnly DEF LinksOK

\* A datagram for a client (lines 160 to 206 of tftp_server.cpp).
LEMMA ToClientSound ==
  ASSUME LinksOK, NEW c \in Clients, NEW p, Datagram(p), ToClient(c, p)
  PROVE  LinksOK'
<1>1. link' = [d \in Clients |-> link'[d]]
  BY DEF ToClient, LinksOK
<1>2. \A d \in Clients : BagToSet(link'[d]) \subseteq BagToSet(link[d]) \cup {p}
  BY LinkAfter
<1> QED
  BY <1>1, <1>2 DEF LinksOK, Datagram

\* What the server and the clients send are datagrams.
LEMMA Datagrams ==
  /\ Datagram(Wrq) /\ Datagram(Rrq) /\ Datagram(Error)
  /\ \A n \in Nat : Datagram(Ack(n))
  /\ \A c \in Clients, n \in Nat : Datagram(Block(c, n))
BY DEF Datagram, Wrq, Rrq, Error, Ack, Block

\* The assumptions, as the proofs need them.
LEMMA TriesType == Tries \in Nat /\ Tries > 0
BY TftpAssumption, SMT

LEMMA JobTypes ==
  ASSUME TypeOK, NEW c \in Clients
  PROVE  job[c] \in Operations
BY TftpAssumption DEF TypeOK, Operations

-----------------------------------------------------------------------------
(* The server *)

\* TypeOK, of what the server itself changes when it has received a datagram.
ServerTypes ==
  /\ mode \in {"run", "write", "wait", "spin", "stopped"}
  /\ open \in Clients \cup {NoClient}
  /\ mode \in {"write", "wait"} => open \in Clients
  /\ block \in Nat \ {0} /\ tries \in 0..Tries /\ spoilt \in BOOLEAN
  /\ disk \in [Clients -> Seq(Clients \X Nat)]
  /\ sent \subseteq Clients
  /\ opened \in [Clients -> Nat]

\* What the server does with a datagram p keeps the types and the links; it only writes
\* for a client that has a file to send, and spins only in the middle of an upload.
Handled(p) ==
  /\ ServerTypes' /\ LinksOK'
  /\ mode' = "write" => open' \in Clients /\ job[open'].op = "put"
  /\ mode' = "spin" => mode = "write" /\ p.cmd \in {"ERROR", "ACK"} /\ open' = open

\* parse_rq (lines 278 to 320), when it is a request.
LEMMA RequestHandled ==
  ASSUME IInv, NEW c \in Clients, NEW p, Request(c, p),
         p.cmd = "WRQ" => job[c].op = "put"
  PROVE  Handled(p)
<1>1. ServerTypes /\ LinksOK /\ job[c] \in Operations
  BY JobTypes DEF IInv, TypeOK, ServerTypes, Sane
<1>2. CASE /\ p.cmd = "WRQ" /\ OpenToWrite(c)
           /\ open' = c /\ block' = 1 /\ opened' = [opened EXCEPT ![c] = @ + 1]
  <2>1. LinksOK'
    BY <1>1, <1>2, ToClientSound, Datagrams DEF OpenToWrite
  <2>2. ServerTypes'
    BY <1>1, <1>2 DEF OpenToWrite, ServerTypes
  <2> QED
    BY <1>2, <2>1, <2>2 DEF Handled, OpenToWrite
<1>3. CASE /\ p.cmd = "RRQ" /\ OpenToRead(c)
           /\ open' = c /\ block' = 1 /\ opened' = [opened EXCEPT ![c] = @ + 1]
  <2>1. LinksOK' /\ mode' \in {"wait", "stopped"}
    BY <1>1, <1>3, ToClientSound, Datagrams DEF OpenToRead, SendBlock
  <2>2. tries' = 1 /\ spoilt' = FALSE /\ UNCHANGED <<disk, sent>>
    BY <1>3 DEF OpenToRead
  <2>3. ServerTypes'
    <3>1. tries' \in 0..Tries
      BY <2>2, TriesType
    <3>3. spoilt' \in BOOLEAN
      BY <2>2, Zenon
    <3>2. opened' \in [Clients -> Nat] /\ open' = c /\ block' \in Nat \ {0}
      BY <1>1, <1>3 DEF ServerTypes
    <3> QED
      BY <1>1, <2>1, <2>2, <3>1, <3>2, <3>3 DEF ServerTypes
  <2> QED
    BY <2>1, <2>3 DEF Handled
<1>4. CASE /\ mode' = "run" /\ ToClient(c, Error)
           /\ UNCHANGED <<open, block, tries, spoilt, files>>
  <2>1. LinksOK'
    BY <1>1, <1>4, ToClientSound, Datagrams
  <2>2. ServerTypes'
    BY <1>1, <1>4 DEF ServerTypes, files
  <2> QED
    BY <1>4, <2>1, <2>2 DEF Handled
<1> QED
  BY <1>2, <1>3, <1>4 DEF Request

\* run() (lines 367 to 381).
LEMMA ListenHandled ==
  ASSUME IInv, NEW c \in Clients, NEW p, Listen(c, p),
         p.cmd = "WRQ" => job[c].op = "put"
  PROVE  Handled(p)
<1>1. CASE Request(c, p)
  BY <1>1, RequestHandled
<1>2. CASE mode' = "stopped" /\ UNCHANGED <<open, block, tries, spoilt, files, link>>
  BY <1>2 DEF Handled, ServerTypes, LinksOK, IInv, TypeOK, Sane, files
<1> QED
  BY <1>1, <1>2 DEF Listen

\* process_write (lines 82 to 134).
LEMMA WriteHandled ==
  ASSUME IInv, NEW c \in Clients, NEW p, Datagram(p),
         p.cmd = "WRQ" => job[c].op = "put",
         WriteBlock(c, p) \/ WriteRepeated(c, p) \/ WriteInterrupted(c, p)
  PROVE  Handled(p)
<1>1. ServerTypes /\ LinksOK /\ WritesUploads
  BY DEF IInv, TypeOK, ServerTypes, Sane
<1>2. CASE WriteBlock(c, p)
  <2>1. LinksOK'
    <3>1. Datagram(Ack(p.num))
      BY DEF Datagram, Ack
    <3> QED
      BY <1>1, <1>2, <3>1, ToClientSound DEF WriteBlock
  <2>2. mode = "write" /\ open \in Clients /\ UNCHANGED open /\ mode' \in {"run", "write"}
    BY <1>1, <1>2 DEF WriteBlock, ServerTypes
  <2>3. disk' \in [Clients -> Seq(Clients \X Nat)] /\ block' \in Nat \ {0}
    <3>1. <<p.of, p.index>> \in Clients \X Nat
      BY <1>2 DEF WriteBlock, Datagram
    <3>2. Append(disk[open], <<p.of, p.index>>) \in Seq(Clients \X Nat)
      BY <1>1, <2>2, <3>1 DEF ServerTypes
    <3>3. \/ UNCHANGED <<block, disk>>
          \/ /\ block' = block + 1
             /\ disk' = [disk EXCEPT ![open] = Append(disk[open], <<p.of, p.index>>)]
      BY <1>2 DEF WriteBlock
    <3>4. block \in Nat \ {0} /\ disk \in [Clients -> Seq(Clients \X Nat)]
      BY <1>1 DEF ServerTypes
    <3>5. disk' \in [Clients -> Seq(Clients \X Nat)]
      BY <2>2, <3>2, <3>3, <3>4, Zenon
    <3>6. block' \in Nat \ {0}
      BY <3>3, <3>4, SMT
    <3> QED
      BY <3>5, <3>6
  <2>4. ServerTypes'
    BY <1>1, <1>2, <2>2, <2>3 DEF WriteBlock, ServerTypes
  <2> QED
    BY <1>1, <2>1, <2>2, <2>4 DEF Handled, WritesUploads
<1>3. CASE WriteRepeated(c, p)
  <2>1. LinksOK'
    BY <1>1, <1>3, ToClientSound, Datagrams DEF WriteRepeated
  <2>2. ServerTypes' /\ mode' = "write" /\ open' = open /\ open \in Clients
    BY <1>1, <1>3 DEF WriteRepeated, ServerTypes, files
  <2> QED
    BY <1>1, <1>3, <2>1, <2>2 DEF Handled, WritesUploads, WriteRepeated
<1>4. CASE WriteInterrupted(c, p)
  <2>1. CASE Request(c, p)
    BY <2>1, RequestHandled
  <2>2. CASE /\ p.cmd \notin {"WRQ", "RRQ"} /\ mode' = "spin"
             /\ UNCHANGED <<open, block, tries, spoilt, files, link>>
    <3>1. mode = "write" /\ p.cmd \in {"ERROR", "ACK"}
      BY <1>4, <2>2 DEF WriteInterrupted, Datagram
    <3> QED
      BY <1>1, <2>2, <3>1 DEF Handled, ServerTypes, LinksOK, files
  <2> QED
    BY <1>4, <2>1, <2>2 DEF WriteInterrupted
<1> QED
  BY <1>2, <1>3, <1>4

\* wait_for_ack returns 0 (lines 165 to 187).
LEMMA AcknowledgedHandled ==
  ASSUME IInv, NEW c \in Clients, NEW p, Acknowledged(c, p)
  PROVE  Handled(p)
<1>1. ServerTypes /\ LinksOK /\ mode = "wait" /\ open \in Clients
  BY DEF IInv, TypeOK, ServerTypes, Sane, Acknowledged
<1>2. /\ mode' \in {"run", "wait", "stopped"} /\ UNCHANGED <<open, disk, opened>>
      /\ sent' \in {sent, sent \cup {open}}
  BY DEF Acknowledged, SendBlock
<1>3. LinksOK'
  <2>1. CASE UNCHANGED link
    BY <1>1, <2>1 DEF LinksOK
  <2>2. CASE SendBlock(open, c, block + 1)
    <3>1. Datagram(Block(open, block + 1)) /\ Datagram(Error)
      BY <1>1, Datagrams DEF ServerTypes
    <3> QED
      BY <1>1, <2>2, <3>1, ToClientSound DEF SendBlock
  <2> QED
    BY <2>1, <2>2 DEF Acknowledged
<1>4. block' \in Nat \ {0} /\ tries' \in 0..Tries /\ spoilt' \in BOOLEAN
  <2>1. \/ UNCHANGED <<block, tries, spoilt>>
        \/ block' = block + 1 /\ tries' = 1 /\ spoilt' = FALSE
    BY DEF Acknowledged
  <2>2. block \in Nat \ {0} /\ tries \in 0..Tries /\ spoilt \in BOOLEAN
    BY <1>1 DEF ServerTypes
  <2>3. block' \in Nat \ {0} /\ tries' \in 0..Tries
    BY <2>1, <2>2, TriesType, SMT
  <2>4. spoilt' \in BOOLEAN
    BY <2>1, <2>2, Zenon
  <2> QED
    BY <2>3, <2>4
<1>5. ServerTypes'
  BY <1>1, <1>2, <1>4 DEF ServerTypes
<1> QED
  BY <1>2, <1>3, <1>5 DEF Handled

\* wait_for_ack returns -1, or there is no ACK: the retries (lines 158 to 176).
LEMMA RetryHandled ==
  ASSUME IInv, NEW c \in Clients, NEW p, WrongAck(c, p) \/ NoAck(c)
  PROVE  Handled(p)
<1>1. ServerTypes /\ LinksOK /\ mode = "wait" /\ open \in Clients
  BY DEF IInv, TypeOK, ServerTypes, Sane, WrongAck, NoAck
<1>2. /\ mode' \in {"wait", "stopped"} /\ UNCHANGED <<open, block, files>>
      /\ tries' \in 0..Tries
  BY <1>1, TriesType, SMT DEF WrongAck, NoAck, Retry, ServerTypes
<1>3. spoilt' \in BOOLEAN
  BY <1>1 DEF WrongAck, NoAck, ServerTypes
<1>4. LinksOK'
  <2>1. CASE WrongAck(c, p)
    <3>1. Datagram(Error) /\ Datagram(Block(open, block))
      BY <1>1, Datagrams DEF ServerTypes
    <3>2. UNCHANGED link \/ ToClient(c, Error) \/ ToClient(c, Block(open, block))
      BY <2>1 DEF WrongAck
    <3>3. UNCHANGED link => LinksOK'
      BY <1>1 DEF LinksOK
    <3> QED
      BY <1>1, <3>1, <3>2, <3>3, ToClientSound
  <2>2. CASE NoAck(c)
    <3>1. link' = [d \in Clients |-> link'[d]]
      BY <1>1, <2>2 DEF NoAck, LinksOK
    <3>2. \A d \in Clients : BagToSet(link'[d]) \subseteq BagToSet(link[d]) \cup {Error}
      BY <1>1, <2>2, NoAckSends
    <3> QED
      BY <1>1, <3>1, <3>2, Datagrams DEF LinksOK, Datagram
  <2> QED
    BY <2>1, <2>2
<1>5. ServerTypes'
  BY <1>1, <1>2, <1>3 DEF ServerTypes, files
<1> QED
  BY <1>2, <1>4, <1>5 DEF Handled

\* A step of the server keeps the invariant if a spin that begins with it is provoked.
LEMMA ServerInvariant ==
  ASSUME IInv, NEW p, NEW c \in Clients, Handled(p),
         peer' = c, UNCHANGED <<clients, lost>>,
         BagToSet(inbox') \subseteq BagToSet(inbox),
         mixed' \subseteq Clients,
         mode = "write" /\ p.cmd \in {"ERROR", "ACK"} => open \in mixed' \/ phase[open] = "failed"
  PROVE  IInv'
<1>1. TypeOK'
  BY DEF IInv, TypeOK, Handled, ServerTypes, clients
<1>2. InboxOK'
  BY DEF IInv, Sane, InboxOK, Sensible, Datagram, clients
<1>3. LinksOK'
  BY DEF Handled
<1>4. WritesUploads'
  BY DEF IInv, Sane, WritesUploads, Handled, clients
<1>5. SpinIsProvoked'
  BY DEF Handled, SpinIsProvoked, clients
<1> QED
  BY <1>1, <1>2, <1>3, <1>4, <1>5 DEF IInv, Sane

LEMMA ReceiveInvariant ==
  ASSUME IInv, NEW m, Receive(m)
  PROVE  IInv'
<1> DEFINE c == m.from
           p == m.pkt
<1>1. /\ m \in BagToSet(inbox)
      /\ peer' = c /\ UNCHANGED <<clients, lost>> /\ inbox' = BagRemove(inbox, m)
      /\ mixed' = IF mode \in {"write", "wait"} /\ c # open THEN mixed \cup {open, c} ELSE mixed
  BY DEF Receive
<1>2. Sensible(m) /\ (p.cmd = "WRQ" => job[c].op = "put")
  BY <1>1 DEF IInv, Sane, InboxOK, WritesUploads
<1>3. c \in Clients /\ Datagram(p)
  BY <1>2 DEF Sensible
<1>4. mixed' \subseteq Clients
  BY <1>1, <1>3 DEF IInv, TypeOK
<1>5. BagToSet(inbox') \subseteq BagToSet(inbox)
  BY <1>1, RemoveOnly
<1>6. ASSUME mode = "write", p.cmd \in {"ERROR", "ACK"}
      PROVE  open \in mixed' \/ phase[open] = "failed"
  <2>1. CASE c # open
    BY <1>1, <1>6, <2>1
  <2>2. CASE c = open
    <3>1. job[open].op = "put"
      BY <1>6 DEF IInv, Sane, WritesUploads
    <3>2. p.cmd = "ERROR"
      BY <1>2, <1>6, <2>2, <3>1 DEF Sensible
    <3> QED
      BY <1>2, <2>2, <3>2 DEF Sensible
  <2> QED
    BY <2>1, <2>2
<1>7. Handled(p)
  <2>1. CASE Listen(c, p)
    BY <1>2, <1>3, <2>1, ListenHandled
  <2>2. CASE WriteBlock(c, p) \/ WriteRepeated(c, p) \/ WriteInterrupted(c, p)
    BY <1>2, <1>3, <2>2, WriteHandled
  <2>3. CASE Acknowledged(c, p)
    BY <1>3, <2>3, AcknowledgedHandled
  <2>4. CASE WrongAck(c, p) \/ NoAck(c)
    BY <1>3, <2>4, RetryHandled
  <2> QED
    BY <2>1, <2>2, <2>3, <2>4 DEF Receive
<1> HIDE DEF c, p
<1> QED
  BY <1>1, <1>3, <1>4, <1>5, <1>6, <1>7, ServerInvariant

LEMMA TimeoutInvariant == IInv /\ Timeout => IInv'
<1> SUFFICES ASSUME IInv, Timeout PROVE IInv'
  OBVIOUS
<1>1. UNCHANGED <<peer, mixed, clients, lost, inbox>>
  BY DEF Timeout
<1>2. CASE /\ mode = "write" /\ mode' = "stopped"
           /\ UNCHANGED <<open, block, tries, spoilt, files, link>>
  BY <1>1, <1>2 DEF IInv, TypeOK, Sane, InboxOK, Sensible, LinksOK, WritesUploads,
                    SpinIsProvoked, files, clients
<1>3. CASE NoAck(peer)
  <2>1. mode = "wait" /\ peer \in Clients
    BY <1>3 DEF NoAck, IInv, TypeOK
  <2>2. Handled(Error)
    BY <1>3, <2>1, RetryHandled
  <2>3. mixed' \subseteq Clients /\ BagToSet(inbox') \subseteq BagToSet(inbox)
    BY <1>1 DEF IInv, TypeOK
  <2> QED
    BY <1>1, <2>1, <2>2, <2>3, ServerInvariant
<1> QED
  BY <1>2, <1>3 DEF Timeout

-----------------------------------------------------------------------------
(* The links and the clients *)

LEMMA LoseInvariant == IInv /\ Lose => IInv'
<1> SUFFICES ASSUME IInv, Lose PROVE IInv'
  OBVIOUS
<1>1. UNCHANGED <<server, clients>>
  BY DEF Lose
<1>2. BagToSet(inbox') \subseteq BagToSet(inbox)
  BY RemoveOnly DEF Lose
<1>3. LinksOK' /\ lost' \subseteq Clients
  <2>1. CASE UNCHANGED <<lost, link>>
    BY <2>1 DEF IInv, TypeOK, Sane, LinksOK
  <2>2. CASE \E c \in Clients : \E p \in BagToSet(link[c]) :
               /\ link' = [link EXCEPT ![c] = BagRemove(@, p)]
               /\ lost' = IF p.cmd = "DATA" THEN lost \cup {c} ELSE lost
    <3>1. PICK c \in Clients : \E p \in BagToSet(link[c]) :
               /\ link' = [link EXCEPT ![c] = BagRemove(@, p)]
               /\ lost' = IF p.cmd = "DATA" THEN lost \cup {c} ELSE lost
      BY <2>2
    <3>2. PICK p \in BagToSet(link[c]) :
               /\ link' = [link EXCEPT ![c] = BagRemove(@, p)]
               /\ lost' = IF p.cmd = "DATA" THEN lost \cup {c} ELSE lost
      BY <3>1
    <3>3. link' = [d \in Clients |-> IF d = c THEN BagRemove(link[c], p) ELSE link[d]]
      BY <3>2 DEF IInv, Sane, LinksOK
    <3>4. \A d \in Clients : BagToSet(link'[d]) \subseteq BagToSet(link[d])
      BY <3>3, RemoveOnly
    <3>5. link' = [d \in Clients |-> link'[d]]
      BY <3>3
    <3>6. LinksOK'
      BY <3>4, <3>5 DEF IInv, Sane, LinksOK, Datagram
    <3> QED
      BY <3>1, <3>2, <3>6 DEF IInv, TypeOK
  <2> QED
    BY <2>1, <2>2 DEF Lose
<1>4. TypeOK'
  BY <1>1, <1>3 DEF IInv, TypeOK, server, files, clients
<1>5. InboxOK' /\ WritesUploads' /\ SpinIsProvoked'
  BY <1>1, <1>2 DEF IInv, Sane, InboxOK, Sensible, Datagram, WritesUploads, SpinIsProvoked,
                    server, clients
<1> QED
  BY <1>3, <1>4, <1>5 DEF IInv, Sane

\* What a client has to send: a WRQ or blocks if it has a file, else a RRQ or an ACK.
LEMMA PendingSensible ==
  ASSUME IInv, NEW c \in Clients
  PROVE  /\ Datagram(Pending(c)) /\ Pending(c).cmd # "ERROR"
         /\ Pending(c).cmd = "ACK" => job[c].op = "get"
         /\ Pending(c).cmd = "WRQ" => job[c].op = "put"
<1>1. at[c] \in Nat /\ job[c].op \in {"get", "put"}
  BY JobTypes DEF IInv, TypeOK, Operations
<1>2. Datagram(Pending(c))
  BY <1>1, Datagrams DEF Pending
<1> QED
  BY <1>1, <1>2 DEF Pending, Wrq, Rrq, Ack, Block

\* TypeOK, of what the clients change.
ClientTypes ==
  /\ phase \in [Clients -> {"idle", "busy", "ok", "failed"}]
  /\ at \in [Clients -> Nat]
  /\ copy \in [Clients -> Seq(Clients \X Nat)]
  /\ repeats \in [Clients -> Nat]

\* A step of a client that sends p, or nothing at all, keeps the invariant, if it has
\* given up when it sends an ERROR, and stays with that.
LEMMA ClientInvariant ==
  ASSUME IInv, NEW c \in Clients, UNCHANGED <<server, job, lost>>, ClientTypes', LinksOK',
         \A d \in Clients : phase[d] = "failed" => phase'[d] = "failed",
         NEW p, Datagram(p),
         p.cmd = "ACK" => job[c].op = "get",
         p.cmd = "WRQ" => job[c].op = "put",
         p.cmd = "ERROR" => phase'[c] = "failed",
         UNCHANGED inbox \/ ToServer(c, p)
  PROVE  IInv'
<1>1. TypeOK'
  BY DEF IInv, TypeOK, ClientTypes, server, files
<1> DEFINE m == [from |-> c, pkt |-> p]
<1>2. m.from = c /\ m.pkt = p
  OBVIOUS
<1>3. BagToSet(inbox') \subseteq BagToSet(inbox) \cup {m}
  BY AddOnly DEF ToServer
<1> HIDE DEF m
<1>4. ASSUME NEW n \in BagToSet(inbox')
      PROVE  Sensible(n)' /\ (n.pkt.cmd = "WRQ" => job'[n.from].op = "put")
  <2>1. CASE n \in BagToSet(inbox)
    <3>1. Sensible(n) /\ (n.pkt.cmd = "WRQ" => job[n.from].op = "put")
      BY <2>1 DEF IInv, Sane, InboxOK, WritesUploads
    <3> QED
      BY <3>1 DEF Sensible, Datagram
  <2>2. CASE n = m
    BY <1>2, <2>2 DEF Sensible, Datagram
  <2> QED
    BY <1>3, <1>4, <2>1, <2>2
<1>5. InboxOK' /\ WritesUploads'
  BY <1>4 DEF IInv, Sane, InboxOK, WritesUploads, server
<1>6. SpinIsProvoked'
  <2>1. mode = "spin" => open \in Clients
    BY DEF IInv, Sane, WritesUploads
  <2> QED
    BY <2>1 DEF IInv, SpinIsProvoked, server
<1> QED
  BY <1>1, <1>5, <1>6 DEF IInv, Sane

LEMMA HearInvariant ==
  ASSUME IInv, NEW c \in Clients, Hear(c)
  PROVE  IInv'
<1>1. PICK p \in BagToSet(link[c]) :
        /\ link' = [link EXCEPT ![c] = BagRemove(@, p)]
        /\ IF phase[c] = "busy" /\ Expected(c, p)
             THEN HearAck(c, p) \/ HearBlock(c, p) \/ HearError(c, p)
             ELSE UNCHANGED <<phase, at, copy, inbox>>
  BY DEF Hear
<1>2. UNCHANGED <<server, job, repeats, lost>>
  BY DEF Hear
<1>3. Datagram(p) /\ job[c] \in Operations /\ ClientTypes
  BY JobTypes DEF IInv, Sane, LinksOK, TypeOK, ClientTypes
<1>4. LinksOK'
  <2>1. link' = [d \in Clients |-> IF d = c THEN BagRemove(link[c], p) ELSE link[d]]
    BY <1>1 DEF IInv, Sane, LinksOK
  <2>2. \A d \in Clients : BagToSet(link'[d]) \subseteq BagToSet(link[d])
    BY <2>1, RemoveOnly
  <2>3. link' = [d \in Clients |-> link'[d]]
    BY <2>1
  <2> QED
    BY <2>2, <2>3 DEF IInv, Sane, LinksOK, Datagram
<1>5. CASE phase[c] = "busy" /\ HearAck(c, p)
  <2> DEFINE block1 == Block(c, at[c] + 1)
  <2>1. at[c] + 1 \in Nat
    BY <1>3 DEF ClientTypes
  <2>2. Datagram(block1) /\ block1.cmd = "DATA"
    BY <2>1, Datagrams DEF Block
  <2>3. UNCHANGED inbox \/ ToServer(c, block1)
    BY <1>5 DEF HearAck
  <2> HIDE DEF block1
  <2>4. ClientTypes'
    BY <1>2, <1>3, <1>5, <2>1 DEF HearAck, ClientTypes
  <2>5. \A d \in Clients : phase[d] = "failed" => phase'[d] = "failed"
    BY <1>3, <1>5 DEF HearAck, ClientTypes
  <2> QED
    BY <1>2, <1>4, <2>2, <2>3, <2>4, <2>5, ClientInvariant
<1>6. CASE phase[c] = "busy" /\ Expected(c, p) /\ HearBlock(c, p)
  <2> DEFINE ack == Ack(at[c] + 1)
  <2>1. at[c] + 1 \in Nat
    BY <1>3 DEF ClientTypes
  <2>2. Datagram(ack) /\ ack.cmd = "ACK" /\ job[c].op = "get" /\ ToServer(c, ack)
    BY <1>6, <2>1, Datagrams DEF HearBlock, Ack
  <2> HIDE DEF ack
  <2>3. <<p.of, p.index>> \in Clients \X Nat
    BY <1>3, <1>6 DEF HearBlock, Datagram
  <2>4. Append(copy[c], <<p.of, p.index>>) \in Seq(Clients \X Nat)
    BY <1>3, <2>3 DEF ClientTypes
  <2>5. ClientTypes'
    BY <1>2, <1>3, <1>6, <2>1, <2>4 DEF HearBlock, ClientTypes
  <2>6. \A d \in Clients : phase[d] = "failed" => phase'[d] = "failed"
    BY <1>3, <1>6 DEF HearBlock, ClientTypes
  <2> QED
    BY <1>2, <1>4, <2>2, <2>5, <2>6, ClientInvariant
<1>7. CASE UNCHANGED <<at, copy, inbox>> /\ (UNCHANGED phase \/ HearError(c, p))
  <2>1. ClientTypes'
    BY <1>2, <1>3, <1>7 DEF HearError, ClientTypes
  <2>2. \A d \in Clients : phase[d] = "failed" => phase'[d] = "failed"
    BY <1>3, <1>7 DEF HearError, ClientTypes
  <2>3. Datagram(Rrq) /\ Rrq.cmd = "RRQ"
    BY Datagrams DEF Rrq
  <2> QED
    BY <1>2, <1>4, <1>7, <2>1, <2>2, <2>3, ClientInvariant
<1> QED
  BY <1>1, <1>5, <1>6, <1>7 DEF HearError

LEMMA ClientStepInvariant ==
  ASSUME IInv, NEW c \in Clients, ClientStep(c)
  PROVE  IInv'
<1>1. ClientTypes
  BY DEF IInv, TypeOK, ClientTypes
<1>2. UNCHANGED link => LinksOK'
  BY DEF IInv, Sane, LinksOK
<1> DEFINE p == Pending(c)
<1>3. /\ Datagram(p) /\ p.cmd # "ERROR"
      /\ p.cmd = "ACK" => job[c].op = "get"
      /\ p.cmd = "WRQ" => job[c].op = "put"
  BY PendingSensible
<1>4. CASE Ask(c) \/ Repeat(c)
  <2>1. UNCHANGED <<server, job, at, copy, lost, link>> /\ ToServer(c, p)
    BY <1>4 DEF Ask, Repeat
  <2> HIDE DEF p
  <2>2. ClientTypes'
    <3>1. CASE Ask(c)
      BY <1>1, <2>1, <3>1 DEF Ask, ClientTypes
    <3>2. CASE Repeat(c)
      BY <1>1, <2>1, <3>2 DEF Repeat, ClientTypes
    <3> QED
      BY <1>4, <3>1, <3>2
  <2>3. \A d \in Clients : phase[d] = "failed" => phase'[d] = "failed"
    BY <1>1, <1>4 DEF Ask, Repeat, ClientTypes
  <2> QED
    BY <1>2, <1>3, <2>1, <2>2, <2>3, ClientInvariant
<1>5. CASE GiveUp(c)
  <2>1. UNCHANGED <<server, job, at, copy, repeats, lost, link>> /\ ToServer(c, Error)
    BY <1>5 DEF GiveUp
  <2>2. ClientTypes' /\ phase'[c] = "failed"
    BY <1>1, <1>5, <2>1 DEF GiveUp, ClientTypes
  <2>3. \A d \in Clients : phase[d] = "failed" => phase'[d] = "failed"
    BY <1>1, <1>5 DEF GiveUp, ClientTypes
  <2>4. Datagram(Error) /\ Error.cmd = "ERROR"
    BY Datagrams DEF Error
  <2> QED
    BY <1>2, <2>1, <2>2, <2>3, <2>4, ClientInvariant
<1>6. CASE Hear(c)
  BY <1>6, HearInvariant
<1> QED
  BY <1>4, <1>5, <1>6 DEF ClientStep

-----------------------------------------------------------------------------

LEMMA InitInvariant == Init => IInv
<1> SUFFICES ASSUME Init PROVE IInv
  OBVIOUS
<1>1. TypeOK
  <2>1. block \in Nat \ {0} /\ tries \in 0..Tries
    BY TriesType, SMT DEF Init
  <2>2. /\ mode = "run" /\ peer = NoClient /\ open = NoClient /\ spoilt \in BOOLEAN
        /\ sent \subseteq Clients /\ mixed \subseteq Clients /\ lost \subseteq Clients
        /\ job \in [Clients -> UNION {Jobs[c] : c \in Clients}]
    BY Zenon DEF Init
  <2>3. /\ disk \in [Clients -> Seq(Clients \X Nat)]
        /\ copy \in [Clients -> Seq(Clients \X Nat)]
        /\ opened \in [Clients -> Nat] /\ at \in [Clients -> Nat]
        /\ repeats \in [Clients -> Nat]
        /\ phase \in [Clients -> {"idle", "busy", "ok", "failed"}]
    BY DEF Init
  <2> QED
    BY <2>1, <2>2, <2>3 DEF TypeOK
<1>2. BagToSet(EmptyBag) = {}
  BY DEF BagToSet, EmptyBag, SetToBag
<1>3. InboxOK /\ WritesUploads /\ SpinIsProvoked
  BY <1>2 DEF Init, InboxOK, WritesUploads, SpinIsProvoked
<1>4. LinksOK
  BY <1>2 DEF Init, LinksOK
<1> QED
  BY <1>1, <1>3, <1>4 DEF IInv, Sane

LEMMA StepInvariant == IInv /\ [Next]_vars => IInv'
<1> SUFFICES ASSUME IInv, [Next]_vars PROVE IInv'
  OBVIOUS
<1>1. CASE ServerStep
  BY <1>1, TimeoutInvariant, ReceiveInvariant DEF ServerStep
<1>2. CASE Lose
  BY <1>2, LoseInvariant
<1>3. CASE \E c \in Clients : ClientStep(c)
  BY <1>3, ClientStepInvariant
<1>4. CASE UNCHANGED vars
  BY <1>4 DEF vars, server, files, clients, IInv, TypeOK, Sane, InboxOK, Sensible, Datagram,
              LinksOK, WritesUploads, SpinIsProvoked
<1> QED
  BY <1>1, <1>2, <1>3, <1>4 DEF Next

LEMMA Invariant == Spec => []IInv
BY InitInvariant, StepInvariant, PTL DEF Spec

\* Types of the server, of its files and of the clients' copies, whoever talks to it.
THEOREM TftpTyping == Spec => []TypeOK
<1>1. IInv => TypeOK
  BY DEF IInv
<1> QED
  BY <1>1, Invariant, PTL

\* The loop of parse_rq that has no way out (line 281 of tftp_server.cpp) takes a client
\* that gave up, or two clients, however the network loses and reorders.
THEOREM SpinsAreProvoked == Spec => []SpinIsProvoked
<1>1. IInv => SpinIsProvoked
  BY DEF IInv
<1> QED
  BY <1>1, Invariant, PTL

-----------------------------------------------------------------------------
(* Transfers.  Of a client that nobody disturbs, the numbers of what is on *)
(* the way are related to the blocks that both sides have: an ACK for the  *)
(* client of an upload names a block that is in the server's file, an ACK  *)
(* for process_read one that is in the client's copy.                      *)

\* s is the beginning of the file of c.
Begins(s, c) == s = [n \in 1..Len(s) |-> <<c, n>>]

UploadOK(c) ==
  /\ Begins(disk[c], c)
  /\ Len(disk[c]) <= at[c] /\ Len(disk[c]) < Wrap
  /\ at[c] <= job[c].blocks
  /\ at[c] <= Len(disk[c]) + 1 \/ Len(disk[c]) = Wrap - 1
  /\ phase[c] = "ok" =>
       at[c] = job[c].blocks /\ (Len(disk[c]) = at[c] \/ Len(disk[c]) = Wrap - 1)
  /\ mode = "write" /\ open = c => block = Len(disk[c]) + 1 /\ opened[c] # 0
  /\ \A p \in BagToSet(link[c]) : p.cmd = "ACK" => p.num \in 0..Len(disk[c])
  /\ \A m \in BagToSet(inbox) :
       m.from = c /\ m.pkt.cmd = "DATA" => \E n \in 1..at[c] : m.pkt = Block(c, n)
  /\ opened[c] = 0 => at[c] = 0 /\ \A p \in BagToSet(link[c]) : p.cmd # "ACK"

DownloadOK(c) ==
  /\ Begins(copy[c], c)
  /\ Len(copy[c]) = at[c] /\ at[c] <= job[c].blocks
  /\ c \in sent => at[c] = job[c].blocks
  /\ mode = "wait" /\ open = c => block <= job[c].blocks
  /\ \A p \in BagToSet(link[c]) :
       p.cmd = "DATA" => \E n \in 1..job[c].blocks : p = Block(c, n)
  /\ \A m \in BagToSet(inbox) :
       m.from = c /\ m.pkt.cmd = "ACK" => \E n \in 0..at[c] : m.pkt = Ack(n)

IsUpload(c)   == job[c].op = "put" /\ Undisturbed(c)
IsDownload(c) == job[c].op = "get" /\ job[c].blocks < Wrap /\ Undisturbed(c)

\* Only a client that wants a file opens one to read, and another one that is
\* heard during a transfer disturbs it.
ReadsDownloads ==
  /\ \A m \in BagToSet(inbox) : m.pkt.cmd = "RRQ" => job[m.from].op = "get"
  /\ mode = "wait" => job[open].op = "get"
  /\ \A c \in sent : job[c].op = "get"

TransfersOK ==
  /\ ReadsDownloads
  /\ \A c \in Clients : (IsUpload(c) => UploadOK(c)) /\ (IsDownload(c) => DownloadOK(c))

\* What a step may do for the client of an upload, or of a download: nothing, bring the
\* next block, or let the sender know that the copy is whole.
UploadStep(c) ==
  \/ disk'[c] = disk[c] /\ (phase'[c] = "ok" <=> phase[c] = "ok")
  \/ /\ phase[c] # "ok" /\ phase'[c] # "ok"
     /\ Len(disk[c]) < job[c].blocks
     /\ disk'[c] = Append(disk[c], <<c, Len(disk[c]) + 1>>)
  \/ /\ disk'[c] = disk[c] /\ phase'[c] = "ok"
     /\ Len(disk[c]) = job[c].blocks \/ job[c].blocks >= Wrap

DownloadStep(c) ==
  \/ copy'[c] = copy[c] /\ (c \in sent' <=> c \in sent)
  \/ /\ c \notin sent /\ c \notin sent'
     /\ Len(copy[c]) < job[c].blocks
     /\ copy'[c] = Append(copy[c], <<c, Len(copy[c]) + 1>>)
  \/ copy'[c] = copy[c] /\ c \in sent' /\ Len(copy[c]) = job[c].blocks

Good(c) ==
  /\ IsUpload(c)' => UploadOK(c)' /\ UploadStep(c)
  /\ IsDownload(c)' => DownloadOK(c)' /\ DownloadStep(c)

\* A block more at the end of the beginning of a file.
LEMMA BeginsAppend ==
  ASSUME NEW c \in Clients, NEW s \in Seq(Clients \X Nat), Begins(s, c)
  PROVE  /\ Append(s, <<c, Len(s) + 1>>) \in Seq(Clients \X Nat)
         /\ Begins(Append(s, <<c, Len(s) + 1>>), c)
         /\ Len(Append(s, <<c, Len(s) + 1>>)) = Len(s) + 1
<1>1. Len(s) \in Nat /\ <<c, Len(s) + 1>> \in Clients \X Nat
  OBVIOUS
<1>2. /\ Append(s, <<c, Len(s) + 1>>) \in Seq(Clients \X Nat)
      /\ Len(Append(s, <<c, Len(s) + 1>>)) = Len(s) + 1
  BY <1>1
<1>3. \A n \in 1..(Len(s) + 1) : Append(s, <<c, Len(s) + 1>>)[n] = <<c, n>>
  <2> TAKE n \in 1..(Len(s) + 1)
  <2>1. CASE n = Len(s) + 1
    BY <1>1, <2>1
  <2>2. CASE n \in 1..Len(s)
    BY <1>1, <2>2 DEF Begins
  <2> QED
    BY <1>1, <2>1, <2>2
<1> QED
  BY <1>2, <1>3 DEF Begins

\* Block numbers on the wire.
LEMMA WrapType == Wrap \in Nat /\ Wrap > 1
BY TftpAssumption, SMT

\* A number of less than 2^16 is the one on the wire.
LEMMA Numbers ==
  ASSUME NEW n \in Nat
  PROVE  /\ n % Wrap \in 0..(Wrap - 1)
         /\ n < Wrap => n % Wrap = n
         /\ Wrap \in Nat /\ Wrap > 1
  BY TftpAssumption

\* An upload whose file the server leaves alone.
LEMMA UploadKept ==
  ASSUME NEW d \in Clients, UploadOK(d), UNCHANGED job,
         at'[d] = at[d], phase'[d] = "ok" <=> phase[d] = "ok", disk'[d] = disk[d],
         \A m \in BagToSet(inbox') :
           \/ m \in BagToSet(inbox) \/ m.from # d \/ m.pkt.cmd # "DATA"
           \/ at[d] \in 1..at[d] /\ m.pkt = Block(d, at[d]),
         mode' = "write" /\ open' = d => block' = Len(disk[d]) + 1 /\ opened'[d] # 0,
         opened'[d] = 0 => opened[d] = 0,
         \A p \in BagToSet(link'[d]) :
           \/ p \in BagToSet(link[d]) \/ p.cmd # "ACK"
           \/ opened'[d] # 0 /\ p.num \in 0..Len(disk[d])
  PROVE  UploadOK(d)' /\ UploadStep(d)
<1>1. \A n : Block(d, n)' = Block(d, n)
  BY DEF Block
<1>2. Begins(disk[d], d)'
  BY DEF UploadOK, Begins
<1>3. \A m \in BagToSet(inbox') :
        m.from = d /\ m.pkt.cmd = "DATA" => \E n \in 1..at[d] : m.pkt = Block(d, n)'
  BY <1>1 DEF UploadOK
<1>4. /\ \A p \in BagToSet(link'[d]) : p.cmd = "ACK" => p.num \in 0..Len(disk[d])
      /\ opened'[d] = 0 => at[d] = 0 /\ \A p \in BagToSet(link'[d]) : p.cmd # "ACK"
  BY DEF UploadOK
<1>5. UploadOK(d)'
  BY <1>2, <1>3, <1>4 DEF UploadOK
<1> QED
  BY <1>5 DEF UploadStep

\* process_write receives a block of an upload that nobody disturbs: the next one, or one
\* that it has written already (lines 112 to 127).
LEMMA UploadWrites ==
  ASSUME IInv, NEW d \in Clients, IsUpload(d), UploadOK(d), open = d,
         NEW p, NEW i \in 1..at[d], p = Block(d, i), WriteBlock(d, p),
         UNCHANGED <<job, at, phase>>,
         BagToSet(inbox') \subseteq BagToSet(inbox)
  PROVE  UploadOK(d)' /\ UploadStep(d)
<1> DEFINE k == Len(disk[d])
<1>1. /\ disk[d] \in Seq(Clients \X Nat) /\ k \in Nat /\ at[d] \in Nat /\ i \in Nat
      /\ block = k + 1
      /\ job[d].blocks \in Nat /\ phase[d] = phase'[d] /\ LinksOK
      /\ disk \in [Clients -> Seq(Clients \X Nat)]
  <2>1. job[d] \in Operations /\ LinksOK /\ disk \in [Clients -> Seq(Clients \X Nat)]
        /\ at \in [Clients -> Nat] /\ mode = "write"
    BY JobTypes DEF IInv, TypeOK, Sane, WriteBlock
  <2>2. disk[d] \in Seq(Clients \X Nat) /\ at[d] \in Nat /\ job[d].blocks \in Nat
    BY <2>1 DEF Operations
  <2>3. block = k + 1
    BY <2>1 DEF UploadOK
  <2> QED
    BY <2>1, <2>2, <2>3
<1>2. /\ p.num = i % Wrap /\ p.of = d /\ p.index = i /\ p.cmd = "DATA"
      /\ p.num \in 0..(Wrap - 1) /\ Wrap \in Nat /\ Wrap > 1
      /\ i < Wrap => p.num = i
  BY <1>1, Numbers DEF Block
<1>3. Ack(p.num).cmd = "ACK" /\ Ack(p.num).num = p.num
  BY <1>2, Numbers DEF Ack
<1>4. BagToSet(link'[d]) \subseteq BagToSet(link[d]) \cup {Ack(p.num)}
  BY <1>1, LinkAfter DEF WriteBlock
<1>5. /\ k <= at[d] /\ k < Wrap /\ (at[d] <= k + 1 \/ k = Wrap - 1) /\ at[d] <= job[d].blocks
  BY DEF UploadOK
<1>6. UNCHANGED <<open, opened>> /\ at[d] # 0 /\ opened[d] # 0
  BY <1>1 DEF WriteBlock, UploadOK
<1>7. CASE p.num < block
  <2>1. UNCHANGED <<block, disk>>
    BY <1>7 DEF WriteBlock
  <2>2. p.num \in 0..k
    BY <1>1, <1>2, <1>7
  <2> QED
    BY <1>1, <1>3, <1>4, <1>6, <2>1, <2>2, UploadKept
<1>8. CASE ~(p.num < block)
  <2>1. p.num = k + 1 /\ i = k + 1
    BY <1>1, <1>2, <1>5, <1>8
  <2>2. block' = block + 1 /\ disk'[d] = Append(disk[d], <<d, k + 1>>)
    BY <1>1, <1>2, <1>8, <2>1 DEF WriteBlock
  <2>3. Begins(disk'[d], d) /\ Len(disk'[d]) = k + 1
    BY <1>1, <2>2, BeginsAppend DEF UploadOK
  <2>4. k + 1 <= at[d] /\ k + 1 < Wrap /\ k < job[d].blocks
    BY <1>1, <1>2, <1>5, <2>1
  <2>5. phase[d] # "ok"
    BY <1>1, <1>2, <2>4 DEF UploadOK
  <2>6. \A q \in BagToSet(link'[d]) : q.cmd = "ACK" => q.num \in 0..(k + 1)
    BY <1>1, <1>3, <1>4, <2>1 DEF UploadOK
  <2>7. \A m \in BagToSet(inbox') :
          m.from = d /\ m.pkt.cmd = "DATA" => \E n \in 1..at[d] : m.pkt = Block(d, n)'
    BY DEF UploadOK, Block
  <2>8. at[d] <= (k + 1) + 1 /\ block' = (k + 1) + 1
    BY <1>1, <1>2, <1>5, <2>2, <2>4
  <2> HIDE DEF k
  <2>9. UploadOK(d)'
    <3>1. Begins(disk[d], d)'
      BY <2>3 DEF Begins
    <3> QED
      BY <1>5, <1>6, <2>3, <2>4, <2>5, <2>6, <2>7, <2>8, <3>1 DEF UploadOK
  <2> QED
    BY <1>1, <2>2, <2>4, <2>5, <2>9 DEF UploadStep, k
<1> QED
  BY <1>7, <1>8

\* What the server does with a datagram, for the client of an upload. It leaves the
\* file alone unless it is a block of that client.
LEMMA UploadReceive ==
  ASSUME IInv, TransfersOK, NEW d \in Clients, IsUpload(d)', NEW m, Receive(m)
  PROVE  UploadOK(d)' /\ UploadStep(d)
<1> DEFINE c == m.from
           p == m.pkt
<1>1. /\ m \in BagToSet(inbox) /\ UNCHANGED <<job, at, phase>>
      /\ mixed' = IF mode \in {"write", "wait"} /\ c # open THEN mixed \cup {open, c} ELSE mixed
      /\ BagToSet(inbox') \subseteq BagToSet(inbox)
  BY RemoveOnly DEF Receive, clients
<1>2. Sensible(m) /\ c \in Clients /\ LinksOK
  BY <1>1 DEF IInv, Sane, InboxOK, Sensible
<1>3. /\ opened \in [Clients -> Nat] /\ disk \in [Clients -> Seq(Clients \X Nat)]
      /\ mode \in {"write", "wait"} => open \in Clients
  BY DEF IInv, TypeOK
<1>4. /\ Listen(c, p) \/ WriteBlock(c, p) \/ WriteRepeated(c, p) \/ WriteInterrupted(c, p)
         \/ Acknowledged(c, p) \/ WrongAck(c, p) \/ NoAck(c)
  BY DEF Receive
<1>5. opened'[d] \in {opened[d], opened[d] + 1} /\ mixed \subseteq mixed'
  BY <1>1, <1>3, <1>4 DEF Listen, WriteBlock, WriteRepeated, WriteInterrupted, Acknowledged,
                          WrongAck, NoAck, Retry, Request, files
<1>6. IsUpload(d) /\ UploadOK(d)
  BY <1>1, <1>3, <1>5 DEF IsUpload, Undisturbed, TransfersOK
<1>7. /\ c = d /\ mode \in {"write", "wait"} => open = d
      /\ c # d /\ mode \in {"write", "wait"} => open # d
  BY <1>1 DEF IsUpload, Undisturbed
<1>8. mode # "wait" \/ open # d
  BY <1>6 DEF TransfersOK, ReadsDownloads, IsUpload
<1>9. ASSUME Request(c, p)
      PROVE  UploadOK(d)' /\ UploadStep(d)
  <2>1. CASE c = d /\ p.cmd = "WRQ" /\ OpenToWrite(c) /\ open' = c /\ block' = 1
             /\ opened' = [opened EXCEPT ![c] = @ + 1]
    <3>1. opened[d] = 0 /\ opened'[d] # 0
      BY <1>3, <2>1 DEF IsUpload, Undisturbed
    <3>2. /\ disk'[d] = <<>> /\ Len(disk'[d]) = 0 /\ at[d] = 0 /\ disk[d] = <<>>
      <4>1. at[d] = 0 /\ Len(disk[d]) <= 0 /\ disk[d] \in Seq(Clients \X Nat)
        BY <1>3, <1>6, <3>1 DEF UploadOK
      <4>2. disk[d] = <<>>
        BY <4>1
      <4>3. disk'[d] = <<>>
        BY <1>3, <2>1 DEF OpenToWrite
      <4> QED
        BY <4>1, <4>2, <4>3
    <3>3. Ack(0).cmd = "ACK" /\ Ack(0).num = 0
      BY Numbers DEF Ack
    <3>4. \A q \in BagToSet(link'[d]) : q.cmd = "ACK" => q.num = 0
      <4>1. BagToSet(link'[d]) \subseteq BagToSet(link[d]) \cup {Ack(0)}
        BY <1>2, <2>1, LinkAfter DEF OpenToWrite
      <4> QED
        BY <1>6, <3>1, <3>3, <4>1 DEF UploadOK
    <3>5. \A q \in BagToSet(link'[d]) :
           \/ q \in BagToSet(link[d]) \/ q.cmd # "ACK"
           \/ opened'[d] # 0 /\ q.num \in 0..Len(disk[d])
      BY <3>1, <3>2, <3>4
    <3>6. block' = Len(disk[d]) + 1
      BY <2>1, <3>2
    <3> QED
      BY <1>1, <1>6, <3>1, <3>2, <3>5, <3>6, UploadKept
  <2>2. CASE c = d /\ p.cmd = "RRQ"
    BY <1>1, <1>2, <2>2 DEF TransfersOK, ReadsDownloads, IsUpload
  <2>3. CASE c = d /\ mode' = "run" /\ ToClient(c, Error) /\ UNCHANGED files
    <3>1. BagToSet(link'[d]) \subseteq BagToSet(link[d]) \cup {Error} /\ Error.cmd = "ERROR"
      BY <1>2, <2>3, LinkAfter DEF Error
    <3> QED
      BY <1>1, <1>6, <2>3, <3>1, UploadKept DEF files
  <2>4. CASE c # d
    <3>1. ToClient(c, Ack(0)) \/ (\E q : ToClient(c, q))
      BY <1>9 DEF Request, OpenToWrite, OpenToRead, SendBlock
    <3>2. link'[d] = link[d]
      BY <1>2, <2>4, <3>1, LinkAfter
    <3>3. disk'[d] = disk[d] /\ opened'[d] = opened[d]
      BY <1>2, <1>3, <1>9, <2>4 DEF Request, OpenToWrite, OpenToRead, files
    <3>4. mode' # "write" \/ open' # d
      BY <1>9, <2>4 DEF Request
    <3> QED
      BY <1>1, <1>6, <3>2, <3>3, <3>4, UploadKept
  <2> QED
    BY <1>9, <2>1, <2>2, <2>3, <2>4 DEF Request
<1>10. ASSUME UNCHANGED <<disk, opened>>, mode' # "write" \/ UNCHANGED <<mode, open, block>>,
              \A q \in BagToSet(link'[d]) :
                \/ q \in BagToSet(link[d]) \/ q.cmd # "ACK"
                \/ mode = "write" /\ open = d /\ q.num = 0
       PROVE  UploadOK(d)' /\ UploadStep(d)
  <2>1. mode = "write" /\ open = d => block = Len(disk[d]) + 1 /\ opened[d] # 0
    BY <1>6 DEF UploadOK
  <2>2. disk[d] \in Seq(Clients \X Nat) /\ 0 \in 0..Len(disk[d])
    BY <1>3
  <2> QED
    BY <1>1, <1>6, <1>10, <2>1, <2>2, UploadKept
<1>11. CASE Listen(c, p) /\ ~Request(c, p)
  BY <1>10, <1>11 DEF Listen, files
<1>12. CASE WriteBlock(c, p)
  <2>1. CASE c = d
    <3>1. PICK i \in 1..at[d] : p = Block(d, i)
      BY <1>1, <1>6, <1>12, <2>1 DEF UploadOK, WriteBlock
    <3>2. open = d /\ WriteBlock(d, p)
      BY <1>7, <1>12, <2>1 DEF WriteBlock
    <3> HIDE DEF c, p
    <3> QED
      BY <1>1, <1>6, <3>1, <3>2, UploadWrites
  <2>2. CASE c # d
    <3>1. open # d /\ open' = open /\ disk'[d] = disk[d] /\ UNCHANGED opened
      BY <1>3, <1>7, <1>12, <2>2 DEF WriteBlock
    <3>2. link'[d] = link[d]
      BY <1>2, <1>12, <2>2, LinkAfter DEF WriteBlock
    <3> QED
      BY <1>1, <1>6, <3>1, <3>2, UploadKept
  <2> QED
    BY <2>1, <2>2
<1>13. CASE WriteRepeated(c, p)
  <2>1. Ack(0).num = 0
    BY Numbers DEF Ack
  <2>2. \A q \in BagToSet(link'[d]) : q \in BagToSet(link[d]) \/ (c = d /\ q = Ack(0))
    BY <1>2, <1>13, LinkAfter DEF WriteRepeated
  <2>3. UNCHANGED <<disk, opened, mode, open, block>> /\ mode = "write"
    BY <1>13 DEF WriteRepeated, files
  <2> QED
    BY <1>7, <1>10, <2>1, <2>2, <2>3
<1>14. CASE WriteInterrupted(c, p) /\ ~Request(c, p)
  BY <1>10, <1>14 DEF WriteInterrupted, files
<1>15. CASE Acknowledged(c, p) \/ WrongAck(c, p)
  <2>1. mode = "wait" /\ c # d
    BY <1>7, <1>8, <1>15 DEF Acknowledged, WrongAck
  <2>2. UNCHANGED link \/ \E q : ToClient(c, q)
    BY <1>15 DEF Acknowledged, WrongAck, SendBlock
  <2>3. link'[d] = link[d]
    BY <1>2, <2>1, <2>2, LinkAfter
  <2>4. mode' # "write" /\ UNCHANGED <<disk, opened>>
    BY <1>15 DEF Acknowledged, WrongAck, SendBlock, Retry, files
  <2> QED
    BY <1>10, <2>3, <2>4
<1>16. CASE NoAck(c)
  <2>1. \A q \in BagToSet(link'[d]) : q \in BagToSet(link[d]) \/ q.cmd # "ACK"
    BY <1>2, <1>16, NoAckSends
  <2>2. mode' # "write" /\ UNCHANGED <<disk, opened>>
    BY <1>16 DEF NoAck, Retry, files
  <2> QED
    BY <1>10, <2>1, <2>2
<1> QED
  BY <1>4, <1>9, <1>11, <1>12, <1>13, <1>14, <1>15, <1>16 DEF Listen, WriteInterrupted

\* A timeout writes nothing, and sends no ACK (lines 92 to 106).
LEMMA UploadTimeout ==
  ASSUME IInv, TransfersOK, NEW d \in Clients, IsUpload(d)', Timeout
  PROVE  UploadOK(d)' /\ UploadStep(d)
<1>1. UNCHANGED <<job, at, phase, opened, mixed, disk, inbox>> /\ mode' # "write"
  BY DEF Timeout, NoAck, Retry, clients, files
<1>2. UploadOK(d)
  BY <1>1 DEF TransfersOK, IsUpload, Undisturbed
<1>3. \A p \in BagToSet(link'[d]) : p \in BagToSet(link[d]) \/ p.cmd # "ACK"
  <2>1. CASE NoAck(peer)
    <3>1. peer \in Clients /\ LinksOK
      BY <2>1 DEF NoAck, IInv, TypeOK, Sane
    <3> QED
      BY <2>1, <3>1, NoAckSends
  <2>2. CASE UNCHANGED link
    BY <2>2
  <2> QED
    BY <2>1, <2>2 DEF Timeout
<1> QED
  BY <1>1, <1>2, <1>3, UploadKept

\* A datagram of an upload that the network loses.
LEMMA UploadLose ==
  ASSUME IInv, TransfersOK, NEW d \in Clients, IsUpload(d)', Lose
  PROVE  UploadOK(d)' /\ UploadStep(d)
<1>1. UNCHANGED <<job, at, phase, opened, mixed, disk, mode, open, block>>
  BY DEF Lose, server, clients, files
<1>2. UploadOK(d)
  BY <1>1 DEF TransfersOK, IsUpload, Undisturbed
<1>3. BagToSet(inbox') \subseteq BagToSet(inbox)
  BY RemoveOnly DEF Lose
<1>4. BagToSet(link'[d]) \subseteq BagToSet(link[d])
  BY RemoveOnly DEF Lose, IInv, Sane, LinksOK
<1>5. mode = "write" /\ open = d => block = Len(disk[d]) + 1 /\ opened[d] # 0
  BY <1>2 DEF UploadOK
<1> QED
  BY <1>1, <1>2, <1>3, <1>4, <1>5, UploadKept

\* A step of a client; only an ACK of the block that it has sent last takes it on.
LEMMA UploadClient ==
  ASSUME IInv, TransfersOK, NEW d \in Clients, IsUpload(d)', NEW c \in Clients, ClientStep(c)
  PROVE  UploadOK(d)' /\ UploadStep(d)
<1>1. UNCHANGED <<job, opened, mixed, disk, mode, open, block>>
  BY DEF ClientStep, Ask, Repeat, GiveUp, Hear, server, files
<1>2. UploadOK(d) /\ job[d].op = "put"
  BY <1>1 DEF TransfersOK, IsUpload, Undisturbed
<1>3. mode = "write" /\ open = d => block = Len(disk[d]) + 1 /\ opened[d] # 0
  BY <1>2 DEF UploadOK
<1>4. /\ phase \in [Clients -> {"idle", "busy", "ok", "failed"}] /\ at \in [Clients -> Nat]
      /\ disk[d] \in Seq(Clients \X Nat) /\ job[d].blocks \in Nat /\ LinksOK
  BY JobTypes DEF IInv, TypeOK, Sane, Operations
<1>5. BagToSet(link'[d]) \subseteq BagToSet(link[d])
  BY <1>4, LinkHeard DEF ClientStep, Ask, Repeat, GiveUp, Hear
<1>6. ASSUME at'[d] = at[d], phase'[d] = "ok" <=> phase[d] = "ok",
             UNCHANGED inbox \/ \E p : /\ ToServer(c, p)
                                       /\ c # d \/ p.cmd # "DATA" \/ p = Pending(d)
      PROVE  UploadOK(d)' /\ UploadStep(d)
  <2>1. at[d] # 0 => at[d] \in 1..at[d] /\ Pending(d) = Block(d, at[d])
    BY <1>2, <1>4 DEF Pending
  <2>2. at[d] = 0 => Pending(d).cmd = "WRQ"
    BY <1>2 DEF Pending, Wrq
  <2>3. \A m \in BagToSet(inbox') :
          \/ m \in BagToSet(inbox) \/ m.from # d \/ m.pkt.cmd # "DATA"
          \/ at[d] \in 1..at[d] /\ m.pkt = Block(d, at[d])
    BY <1>6, <2>1, <2>2, InboxAfter
  <2> QED
    BY <1>1, <1>2, <1>3, <1>5, <1>6, <2>3, UploadKept
<1>7. CASE Ask(c) \/ Repeat(c) \/ GiveUp(c)
  <2>1. UNCHANGED at /\ (phase'[d] = "ok" <=> phase[d] = "ok")
    BY <1>4, <1>7 DEF Ask, Repeat, GiveUp
  <2>2. ToServer(c, Pending(c)) \/ (ToServer(c, Error) /\ Error.cmd # "DATA")
    BY <1>7 DEF Ask, Repeat, GiveUp, Error
  <2> QED
    BY <1>6, <2>1, <2>2
<1>8. CASE Hear(c)
  <2>1. PICK p \in BagToSet(link[c]) :
          /\ link' = [link EXCEPT ![c] = BagRemove(@, p)]
          /\ IF phase[c] = "busy" /\ Expected(c, p)
               THEN HearAck(c, p) \/ HearBlock(c, p) \/ HearError(c, p)
               ELSE UNCHANGED <<phase, at, copy, inbox>>
    BY <1>8 DEF Hear
  <2>2. CASE UNCHANGED <<phase, at, inbox>>
    BY <1>6, <2>2
  <2>3. CASE phase[c] = "busy" /\ HearError(c, p)
    BY <1>4, <1>6, <2>3 DEF HearError
  <2>4. CASE c # d /\ phase[c] = "busy" /\ (HearAck(c, p) \/ HearBlock(c, p))
    <3>1. at'[d] = at[d] /\ phase'[d] = phase[d] /\ (UNCHANGED inbox \/ \E q : ToServer(c, q))
      BY <1>4, <2>4 DEF HearAck, HearBlock
    <3> QED
      BY <1>6, <2>4, <3>1
  <2>5. CASE c = d /\ phase[c] = "busy" /\ HearAck(c, p)
    <3> DEFINE k == Len(disk[d])
    <3>1. p = Ack(at[d]) /\ p.cmd = "ACK" /\ p.num = at[d] % Wrap /\ p \in BagToSet(link[d])
      BY <2>5 DEF HearAck, Ack
    <3>2. p.num \in 0..k /\ opened[d] # 0 /\ k \in Nat
      BY <1>2, <1>4, <3>1 DEF UploadOK
    <3>3. /\ k <= at[d] /\ k < Wrap /\ at[d] <= job[d].blocks
          /\ at[d] <= k + 1 \/ k = Wrap - 1
      BY <1>2 DEF UploadOK
    <3>4. Wrap \in Nat /\ at[d] \in Nat /\ (at[d] < Wrap => p.num = at[d])
      BY <1>4, <3>1, Numbers
    <3>5. k = at[d] \/ (k = Wrap - 1 /\ at[d] >= Wrap)
      BY <3>2, <3>3, <3>4
    <3>6. \A n : Block(d, n)' = Block(d, n)
      BY <1>1 DEF Block
    <3>7. Begins(disk[d], d)'
      BY <1>1, <1>2 DEF UploadOK, Begins
    <3>8. /\ \A q \in BagToSet(link'[d]) : q.cmd = "ACK" => q.num \in 0..k
          /\ \A m \in BagToSet(inbox) :
               m.from = d /\ m.pkt.cmd = "DATA" => \E n \in 1..at[d] : m.pkt = Block(d, n)
          /\ mode = "write" /\ open = d => block = k + 1
      BY <1>2, <1>5 DEF UploadOK
    <3>9. CASE at[d] = job[d].blocks
      <4>1. phase'[d] = "ok" /\ at'[d] = at[d] /\ UNCHANGED inbox
        BY <1>4, <2>5, <3>9 DEF HearAck
      <4>2. UploadOK(d)'
        BY <1>1, <3>2, <3>3, <3>5, <3>6, <3>7, <3>8, <3>9, <4>1 DEF UploadOK
      <4>3. Len(disk[d]) = job[d].blocks \/ job[d].blocks >= Wrap
        BY <3>5, <3>9
      <4> QED
        BY <1>1, <4>1, <4>2, <4>3 DEF UploadStep
    <3>10. CASE at[d] # job[d].blocks
      <4>1. /\ phase'[d] = "busy" /\ phase[d] = "busy" /\ at'[d] = at[d] + 1
            /\ ToServer(d, Block(d, at[d] + 1))
        BY <1>4, <2>5, <3>10 DEF HearAck
      <4>2. /\ at[d] + 1 <= job[d].blocks /\ at[d] + 1 # 0 /\ k <= at[d] + 1
            /\ at[d] + 1 <= k + 1 \/ k = Wrap - 1
            /\ at[d] + 1 \in 1..(at[d] + 1) /\ 1..at[d] \subseteq 1..(at[d] + 1)
        BY <1>4, <3>2, <3>3, <3>4, <3>5, <3>10
      <4>3. \A m \in BagToSet(inbox') :
              m.from = d /\ m.pkt.cmd = "DATA" => \E n \in 1..(at[d] + 1) : m.pkt = Block(d, n)'
        BY <3>6, <3>8, <4>1, <4>2, InboxAfter
      <4> HIDE DEF k
      <4>4. UploadOK(d)'
        BY <1>1, <3>2, <3>3, <3>7, <3>8, <4>1, <4>2, <4>3 DEF UploadOK, k
      <4> QED
        BY <1>1, <4>1, <4>4 DEF UploadStep
    <3> QED
      BY <3>9, <3>10
  <2> QED
    BY <1>2, <2>1, <2>2, <2>3, <2>4, <2>5 DEF HearBlock
<1> QED
  BY <1>7, <1>8 DEF ClientStep

\* A download whose copy the step leaves alone.
LEMMA DownloadKept ==
  ASSUME NEW d \in Clients, DownloadOK(d), UNCHANGED job,
         at'[d] = at[d], copy'[d] = copy[d], d \in sent' <=> d \in sent,
         mode' = "wait" /\ open' = d => block' <= job[d].blocks,
         \A p \in BagToSet(link'[d]) :
           \/ p \in BagToSet(link[d]) \/ p.cmd # "DATA"
           \/ \E n \in 1..job[d].blocks : p = Block(d, n),
         \A m \in BagToSet(inbox') :
           \/ m \in BagToSet(inbox) \/ m.from # d \/ m.pkt.cmd # "ACK"
           \/ 0 <= at[d] /\ at[d] \in 0..at[d] /\ m.pkt = Ack(at[d])
  PROVE  DownloadOK(d)' /\ DownloadStep(d)
<1>1. Begins(copy[d], d)'
  BY DEF DownloadOK, Begins
<1>2. \A n : Block(d, n)' = Block(d, n) /\ Ack(n)' = Ack(n)
  BY DEF Block, Ack
<1>3. \A p \in BagToSet(link'[d]) :
        p.cmd = "DATA" => \E n \in 1..job[d].blocks : p = Block(d, n)'
  BY <1>2 DEF DownloadOK
<1>4. \A m \in BagToSet(inbox') :
        m.from = d /\ m.pkt.cmd = "ACK" => \E n \in 0..at[d] : m.pkt = Ack(n)'
  BY <1>2 DEF DownloadOK
<1>5. DownloadOK(d)'
  BY <1>1, <1>3, <1>4 DEF DownloadOK
<1> QED
  BY <1>5 DEF DownloadStep

\* process_read receives the ACK of the block it waits for, from the client whose
\* file it is: after the last block the copy of that client is whole.
LEMMA DownloadAcknowledged ==
  ASSUME IInv, NEW d \in Clients, IsDownload(d), DownloadOK(d), open = d,
         NEW p, NEW i \in 0..at[d], p = Ack(i), Acknowledged(d, p),
         UNCHANGED <<job, at, copy>>,
         BagToSet(inbox') \subseteq BagToSet(inbox)
  PROVE  DownloadOK(d)' /\ DownloadStep(d)
<1>1. /\ job[d].blocks \in Nat /\ at[d] \in Nat /\ i \in Nat /\ LinksOK
      /\ block \in Nat /\ block # 0
  <2>1. job[d] \in Operations /\ LinksOK /\ at \in [Clients -> Nat] /\ block \in Nat \ {0}
    BY JobTypes DEF IInv, TypeOK, Sane
  <2> QED
    BY <2>1 DEF Operations
<1>2. /\ block <= job[d].blocks /\ at[d] <= job[d].blocks /\ job[d].blocks < Wrap
      /\ Len(copy[d]) = at[d]
  BY DEF Acknowledged, DownloadOK, IsDownload
<1>3. block = i
  <2>1. i % Wrap = block % Wrap
    BY DEF Acknowledged, Ack
  <2>2. Wrap \in Nat
    BY TftpAssumption
  <2>3. i < Wrap /\ block < Wrap
    BY <1>1, <1>2, <2>2
  <2> QED
    BY <1>1, <2>1, <2>3, Numbers
<1>4. UNCHANGED <<open, disk, opened>>
  BY DEF Acknowledged
<1>5. CASE Block(open, block).short
  <2>1. block = job[d].blocks
    BY <1>5 DEF Block
  <2>2. at[d] = job[d].blocks
    BY <1>1, <1>2, <1>3, <2>1
  <2>3. mode' = "run" /\ sent' = sent \cup {d} /\ UNCHANGED link
    BY <1>5 DEF Acknowledged
  <2>4. \A n : Block(d, n)' = Block(d, n) /\ Ack(n)' = Ack(n)
    BY DEF Block, Ack
  <2>5. DownloadOK(d)'
    <3>1. Begins(copy[d], d)'
      BY DEF DownloadOK, Begins
    <3> QED
      BY <1>2, <2>2, <2>3, <2>4, <3>1 DEF DownloadOK
  <2> QED
    BY <1>2, <2>2, <2>3, <2>5 DEF DownloadStep
<1>6. CASE ~Block(open, block).short
  <2>1. SendBlock(d, d, block + 1) /\ block' = block + 1 /\ UNCHANGED sent
    BY <1>6 DEF Acknowledged
  <2>2. /\ mode' = "wait" => block' <= job[d].blocks
        /\ \/ block + 1 \in 1..job[d].blocks /\ ToClient(d, Block(d, block + 1))
           \/ ToClient(d, Error)
    BY <1>1, <2>1 DEF SendBlock
  <2>3. \A q \in BagToSet(link'[d]) :
           \/ q \in BagToSet(link[d]) \/ q.cmd # "DATA"
           \/ \E n \in 1..job[d].blocks : q = Block(d, n)
    <3>1. Error.cmd = "ERROR"
      BY DEF Error
    <3> QED
      BY <1>1, <2>2, <3>1, LinkAfter
  <2> QED
    BY <2>1, <2>2, <2>3, DownloadKept
<1> QED
  BY <1>5, <1>6

\* What the server does with a datagram, for the client of a download.
LEMMA DownloadReceive ==
  ASSUME IInv, TransfersOK, NEW d \in Clients, IsDownload(d)', NEW m, Receive(m)
  PROVE  DownloadOK(d)' /\ DownloadStep(d)
<1> DEFINE c == m.from
           p == m.pkt
<1>1. /\ m \in BagToSet(inbox) /\ UNCHANGED <<job, at, copy>>
      /\ mixed' = IF mode \in {"write", "wait"} /\ c # open THEN mixed \cup {open, c} ELSE mixed
      /\ BagToSet(inbox') \subseteq BagToSet(inbox)
  BY RemoveOnly DEF Receive, clients
<1>2. Sensible(m) /\ c \in Clients /\ LinksOK
  BY <1>1 DEF IInv, Sane, InboxOK, Sensible
<1>3. /\ opened \in [Clients -> Nat] /\ job[d].blocks \in Nat /\ block \in Nat \ {0}
      /\ mode \in {"write", "wait"} => open \in Clients
  <2>1. job[d] \in Operations
    BY JobTypes DEF IInv
  <2> QED
    BY <2>1 DEF IInv, TypeOK, Operations
<1>4. /\ Listen(c, p) \/ WriteBlock(c, p) \/ WriteRepeated(c, p) \/ WriteInterrupted(c, p)
         \/ Acknowledged(c, p) \/ WrongAck(c, p) \/ NoAck(c)
  BY DEF Receive
<1>5. opened'[d] \in {opened[d], opened[d] + 1} /\ mixed \subseteq mixed'
  BY <1>1, <1>3, <1>4 DEF Listen, WriteBlock, WriteRepeated, WriteInterrupted, Acknowledged,
                          WrongAck, NoAck, Retry, Request, files
<1>6. IsDownload(d) /\ DownloadOK(d)
  BY <1>1, <1>3, <1>5 DEF IsDownload, Undisturbed, TransfersOK
<1>7. /\ c = d /\ mode \in {"write", "wait"} => open = d
      /\ c # d /\ mode \in {"write", "wait"} => open # d
  BY <1>1 DEF IsDownload, Undisturbed
<1>8. mode = "write" => open # d /\ c # d
  BY <1>6, <1>7 DEF IInv, Sane, WritesUploads, IsDownload
<1>9. mode = "wait" /\ open = d => block <= job[d].blocks
  BY <1>6 DEF DownloadOK
<1>10. ASSUME d \in sent' <=> d \in sent,
              mode' = "wait" /\ open' = d => block' <= job[d].blocks,
              \A q \in BagToSet(link'[d]) :
                \/ q \in BagToSet(link[d]) \/ q.cmd # "DATA"
                \/ \E n \in 1..job[d].blocks : q = Block(d, n)
       PROVE  DownloadOK(d)' /\ DownloadStep(d)
  BY <1>1, <1>6, <1>10, DownloadKept
<1>11. CASE c # d /\ ~NoAck(c)
  <2>1. UNCHANGED link \/ \E q : ToClient(c, q)
    BY <1>4, <1>11 DEF Listen, WriteBlock, WriteRepeated, WriteInterrupted, Acknowledged,
                   WrongAck, Request, OpenToWrite, OpenToRead, SendBlock
  <2>2. link'[d] = link[d]
    BY <1>2, <1>11, <2>1, LinkAfter
  <2>3. d \in sent' <=> d \in sent
    BY <1>4, <1>7, <1>11 DEF Listen, WriteBlock, WriteRepeated, WriteInterrupted, Acknowledged,
                   WrongAck, Retry, Request, OpenToWrite, OpenToRead, files
  <2>4. mode' # "wait" \/ open' # d
    BY <1>4, <1>7, <1>11 DEF Listen, WriteBlock, WriteRepeated, WriteInterrupted, Acknowledged,
                   WrongAck, Retry, Request, files
  <2> QED
    BY <1>10, <2>2, <2>3, <2>4
<1>12. CASE NoAck(c)
  <2>1. \A q \in BagToSet(link'[d]) : q \in BagToSet(link[d]) \/ q.cmd # "DATA"
    BY <1>2, <1>12, NoAckSends
  <2>2. mode = "wait" /\ UNCHANGED <<open, block, sent>>
    BY <1>12 DEF NoAck, Retry, files
  <2> QED
    BY <1>9, <1>10, <2>1, <2>2
<1>13. ASSUME Request(c, p), c = d
       PROVE  DownloadOK(d)' /\ DownloadStep(d)
  <2>1. p.cmd # "WRQ"
    BY <1>1, <1>6, <1>13 DEF IInv, Sane, WritesUploads, IsDownload
  <2>2. Error.cmd = "ERROR"
    BY DEF Error
  <2>3. CASE OpenToRead(d) /\ block' = 1
    <3>1. UNCHANGED sent /\ SendBlock(d, d, 1)
      BY <2>3 DEF OpenToRead
    <3>2. /\ mode' = "wait" => block' <= job[d].blocks
          /\ \/ 1 \in 1..job[d].blocks /\ ToClient(d, Block(d, 1))
             \/ ToClient(d, Error)
      BY <1>3, <2>3, <3>1 DEF SendBlock
    <3>3. \A q \in BagToSet(link'[d]) :
            \/ q \in BagToSet(link[d]) \/ q.cmd # "DATA"
            \/ \E n \in 1..job[d].blocks : q = Block(d, n)
      BY <1>2, <2>2, <3>2, LinkAfter
    <3> QED
      BY <1>10, <3>1, <3>2, <3>3
  <2>4. CASE mode' = "run" /\ ToClient(d, Error) /\ UNCHANGED files
    <3>1. \A q \in BagToSet(link'[d]) : q \in BagToSet(link[d]) \/ q.cmd # "DATA"
      BY <1>2, <2>2, <2>4, LinkAfter
    <3> QED
      BY <1>10, <2>4, <3>1 DEF files
  <2> QED
    BY <1>13, <2>1, <2>3, <2>4 DEF Request
<1>14. CASE c = d /\ Listen(c, p) /\ ~Request(c, p)
  BY <1>10, <1>14 DEF Listen, files
<1>15. CASE c = d /\ Acknowledged(c, p)
  <2>1. PICK i \in 0..at[d] : p = Ack(i)
    BY <1>1, <1>6, <1>15 DEF DownloadOK, Acknowledged
  <2>2. open = d /\ Acknowledged(d, p)
    BY <1>7, <1>15 DEF Acknowledged
  <2> HIDE DEF c, p
  <2> QED
    BY <1>1, <1>6, <2>1, <2>2, DownloadAcknowledged
<1>16. CASE c = d /\ WrongAck(c, p)
  <2>1. mode = "wait" /\ open = d /\ UNCHANGED <<open, block, sent>>
    BY <1>7, <1>16 DEF WrongAck, Retry, files
  <2>2. block \in 1..job[d].blocks
    BY <1>3, <1>9, <2>1
  <2>3. UNCHANGED link \/ ToClient(d, Error) \/ ToClient(d, Block(d, block))
    BY <1>16, <2>1 DEF WrongAck
  <2>4. Error.cmd = "ERROR"
    BY DEF Error
  <2>5. \A q \in BagToSet(link'[d]) :
          \/ q \in BagToSet(link[d]) \/ q.cmd # "DATA"
          \/ \E n \in 1..job[d].blocks : q = Block(d, n)
    BY <1>2, <2>2, <2>3, <2>4, LinkAfter
  <2> QED
    BY <1>9, <1>10, <2>1, <2>5
<1> QED
  BY <1>4, <1>8, <1>11, <1>12, <1>13, <1>14, <1>15, <1>16
     DEF WriteBlock, WriteRepeated, WriteInterrupted, Listen

\* A timeout sends no block (lines 212 to 231).
LEMMA DownloadTimeout ==
  ASSUME IInv, TransfersOK, NEW d \in Clients, IsDownload(d)', Timeout
  PROVE  DownloadOK(d)' /\ DownloadStep(d)
<1>1. UNCHANGED <<job, at, copy, open, block, opened, mixed, sent, inbox>>
  BY DEF Timeout, NoAck, Retry, clients, files
<1>2. DownloadOK(d)
  BY <1>1 DEF TransfersOK, IsDownload, Undisturbed
<1>3. mode' = "wait" => mode = "wait"
  BY DEF Timeout, NoAck
<1>4. \A p \in BagToSet(link'[d]) : p \in BagToSet(link[d]) \/ p.cmd # "DATA"
  <2>1. CASE NoAck(peer)
    <3>1. peer \in Clients /\ LinksOK
      BY <2>1 DEF NoAck, IInv, TypeOK, Sane
    <3> QED
      BY <2>1, <3>1, NoAckSends
  <2>2. CASE UNCHANGED link
    BY <2>2
  <2> QED
    BY <2>1, <2>2 DEF Timeout
<1>5. mode = "wait" /\ open = d => block <= job[d].blocks
  BY <1>2 DEF DownloadOK
<1> QED
  BY <1>1, <1>2, <1>3, <1>4, <1>5, DownloadKept

\* A datagram of a download that is lost.
LEMMA DownloadLose ==
  ASSUME IInv, TransfersOK, NEW d \in Clients, IsDownload(d)', Lose
  PROVE  DownloadOK(d)' /\ DownloadStep(d)
<1>1. UNCHANGED <<job, at, copy, opened, mixed, sent, mode, open, block>>
  BY DEF Lose, server, clients, files
<1>2. DownloadOK(d)
  BY <1>1 DEF TransfersOK, IsDownload, Undisturbed
<1>3. BagToSet(inbox') \subseteq BagToSet(inbox)
  BY RemoveOnly DEF Lose
<1>4. BagToSet(link'[d]) \subseteq BagToSet(link[d])
  BY RemoveOnly DEF Lose, IInv, Sane, LinksOK
<1>5. mode = "wait" /\ open = d => block <= job[d].blocks
  BY <1>2 DEF DownloadOK
<1> QED
  BY <1>1, <1>2, <1>3, <1>4, <1>5, DownloadKept

\* A step of a client; only the block it waits for makes the copy longer.
LEMMA DownloadClient ==
  ASSUME IInv, TransfersOK, NEW d \in Clients, IsDownload(d)', NEW c \in Clients, ClientStep(c)
  PROVE  DownloadOK(d)' /\ DownloadStep(d)
<1>1. UNCHANGED <<job, opened, mixed, sent, mode, open, block>>
  BY DEF ClientStep, Ask, Repeat, GiveUp, Hear, server, files
<1>2. DownloadOK(d) /\ job[d].op = "get" /\ job[d].blocks < Wrap
  BY <1>1 DEF TransfersOK, IsDownload, Undisturbed
<1>3. mode = "wait" /\ open = d => block <= job[d].blocks
  BY <1>2 DEF DownloadOK
<1>4. /\ at \in [Clients -> Nat] /\ copy \in [Clients -> Seq(Clients \X Nat)]
      /\ job[d].blocks \in Nat /\ LinksOK
  BY JobTypes DEF IInv, TypeOK, Sane, Operations
<1>5. BagToSet(link'[d]) \subseteq BagToSet(link[d])
  BY <1>4, LinkHeard DEF ClientStep, Ask, Repeat, GiveUp, Hear
<1>6. ASSUME at'[d] = at[d], copy'[d] = copy[d],
             UNCHANGED inbox \/ \E p : /\ ToServer(c, p)
                                       /\ c # d \/ p.cmd # "ACK" \/ p = Pending(d)
      PROVE  DownloadOK(d)' /\ DownloadStep(d)
  <2>1. at[d] \in 0..at[d] /\ 0 <= at[d]
    BY <1>4
  <2>2. Pending(d).cmd = "RRQ" \/ Pending(d) = Ack(at[d])
    BY <1>2 DEF Pending, Rrq
  <2>3. \A m \in BagToSet(inbox') :
          \/ m \in BagToSet(inbox) \/ m.from # d \/ m.pkt.cmd # "ACK"
          \/ 0 <= at[d] /\ at[d] \in 0..at[d] /\ m.pkt = Ack(at[d])
    BY <1>6, <2>1, <2>2, InboxAfter
  <2> QED
    BY <1>1, <1>2, <1>3, <1>5, <1>6, <2>3, DownloadKept
<1>7. CASE Ask(c) \/ Repeat(c) \/ GiveUp(c)
  <2>1. UNCHANGED <<at, copy>>
    BY <1>7 DEF Ask, Repeat, GiveUp
  <2>2. ToServer(c, Pending(c)) \/ (ToServer(c, Error) /\ Error.cmd # "ACK")
    BY <1>7 DEF Ask, Repeat, GiveUp, Error
  <2> QED
    BY <1>6, <2>1, <2>2
<1>8. CASE Hear(c)
  <2>1. PICK p \in BagToSet(link[c]) :
          /\ link' = [link EXCEPT ![c] = BagRemove(@, p)]
          /\ IF phase[c] = "busy" /\ Expected(c, p)
               THEN HearAck(c, p) \/ HearBlock(c, p) \/ HearError(c, p)
               ELSE UNCHANGED <<phase, at, copy, inbox>>
    BY <1>8 DEF Hear
  <2>2. CASE UNCHANGED <<at, copy, inbox>>
    BY <1>6, <2>2
  <2>3. CASE c # d /\ (HearAck(c, p) \/ HearBlock(c, p))
    <3>1. at'[d] = at[d] /\ copy'[d] = copy[d] /\ (UNCHANGED inbox \/ \E q : ToServer(c, q))
      BY <1>4, <2>3 DEF HearAck, HearBlock
    <3> QED
      BY <1>6, <2>3, <3>1
  <2>4. CASE c = d /\ HearBlock(c, p)
    <3>1. p.cmd = "DATA" /\ p.num = (at[d] + 1) % Wrap /\ p \in BagToSet(link[d])
      BY <2>4 DEF HearBlock
    <3>2. PICK n \in 1..job[d].blocks : p = Block(d, n)
      BY <1>2, <3>1 DEF DownloadOK
    <3>3. p.of = d /\ p.index = n /\ p.num = n % Wrap
      BY <3>2 DEF Block
    <3>4. /\ at[d] <= job[d].blocks /\ Len(copy[d]) = at[d]
          /\ d \in sent => at[d] = job[d].blocks
          /\ Begins(copy[d], d)
      BY <1>2 DEF DownloadOK
    <3>5. n = at[d] + 1 /\ at[d] < job[d].blocks /\ at[d] + 1 <= job[d].blocks
      <4>1. Wrap \in Nat /\ Wrap > 1
        BY TftpAssumption
      <4>2. at[d] \in Nat /\ job[d].blocks \in Nat
        BY <1>4
      <4>3. n \in Nat /\ n < Wrap /\ n # 0 /\ at[d] + 1 \in Nat /\ at[d] + 1 <= Wrap
        BY <1>2, <3>4, <4>1, <4>2
      <4>4. n % Wrap = n /\ n = (at[d] + 1) % Wrap
        BY <3>1, <3>3, <4>3, Numbers
      <4>5. at[d] + 1 # Wrap
        <5>1. Wrap % Wrap = 0
          BY <4>1
        <5> QED
          BY <4>3, <4>4, <5>1
      <4>6. n = at[d] + 1
        BY <4>1, <4>3, <4>4, <4>5, Numbers
      <4> QED
        BY <4>2, <4>6
    <3>6. /\ copy'[d] = Append(copy[d], <<d, Len(copy[d]) + 1>>) /\ at'[d] = at[d] + 1
          /\ ToServer(d, Ack(at[d] + 1))
      BY <1>4, <2>4, <3>3, <3>4, <3>5 DEF HearBlock
    <3>7. Begins(copy'[d], d) /\ Len(copy'[d]) = at[d] + 1
      BY <1>4, <3>4, <3>6, BeginsAppend
    <3>8. d \notin sent
      BY <1>4, <3>4, <3>5
    <3>9. \A i : Block(d, i)' = Block(d, i) /\ Ack(i)' = Ack(i)
      BY <1>1 DEF Block, Ack
    <3>10. 0..at[d] \subseteq 0..(at[d] + 1) /\ at[d] + 1 \in 0..(at[d] + 1)
      BY <1>4
    <3>11. \A m \in BagToSet(inbox') :
             m.from = d /\ m.pkt.cmd = "ACK" => \E i \in 0..(at[d] + 1) : m.pkt = Ack(i)'
      <4>1. \A m \in BagToSet(inbox) :
             m.from = d /\ m.pkt.cmd = "ACK" => \E i \in 0..at[d] : m.pkt = Ack(i)
        BY <1>2 DEF DownloadOK
      <4> QED
        BY <3>6, <3>9, <3>10, <4>1, InboxAfter
    <3>12. \A q \in BagToSet(link'[d]) :
             q.cmd = "DATA" => \E i \in 1..job[d].blocks : q = Block(d, i)'
      BY <1>2, <1>5, <3>9 DEF DownloadOK
    <3>13. Begins(copy[d], d)'
      BY <3>7 DEF Begins
    <3>14. DownloadOK(d)'
      BY <1>1, <1>3, <3>5, <3>6, <3>7, <3>8, <3>11, <3>12, <3>13 DEF DownloadOK
    <3> QED
      BY <1>1, <3>4, <3>5, <3>6, <3>8, <3>14 DEF DownloadStep
  <2> QED
    BY <1>2, <2>1, <2>2, <2>3, <2>4 DEF HearAck, HearError
<1> QED
  BY <1>7, <1>8 DEF ClientStep

-----------------------------------------------------------------------------
(* The invariant of the transfers, and what it is for *)

\* A datagram that opens a file to read comes from a client that wants one, and only
\* such a client's file is reported as sent (lines 149 to 187 and 296 to 307).
LEMMA ReadsPreserved ==
  ASSUME IInv, ReadsDownloads, [Next]_vars
  PROVE  ReadsDownloads'
<1>1. ASSUME UNCHANGED job, BagToSet(inbox') \subseteq BagToSet(inbox),
             UNCHANGED sent, mode' = "wait" => mode = "wait" /\ UNCHANGED open
      PROVE  ReadsDownloads'
  BY <1>1 DEF ReadsDownloads
<1>2. ASSUME NEW m, Receive(m)
      PROVE  ReadsDownloads'
  <2> DEFINE c == m.from
             p == m.pkt
  <2>1. /\ m \in BagToSet(inbox) /\ UNCHANGED job /\ BagToSet(inbox') \subseteq BagToSet(inbox)
        /\ \/ Listen(c, p) \/ WriteBlock(c, p) \/ WriteRepeated(c, p) \/ WriteInterrupted(c, p)
           \/ Acknowledged(c, p) \/ WrongAck(c, p) \/ NoAck(c)
    BY <1>2, RemoveOnly DEF Receive, clients
  <2>2. p.cmd = "RRQ" => job[c].op = "get"
    BY <2>1 DEF ReadsDownloads
  <2>3. mode' = "wait" => \/ mode = "wait" /\ UNCHANGED open
                          \/ p.cmd = "RRQ" /\ open' = c
    BY <2>1 DEF Listen, WriteBlock, WriteRepeated, WriteInterrupted, Acknowledged, WrongAck,
                NoAck, Retry, Request, OpenToWrite
  <2>4. UNCHANGED sent \/ (mode = "wait" /\ sent' = sent \cup {open})
    BY <2>1 DEF Listen, WriteBlock, WriteRepeated, WriteInterrupted, Acknowledged, WrongAck,
                NoAck, Retry, Request, OpenToWrite, OpenToRead, files
  <2> HIDE DEF c, p
  <2> QED
    BY <2>1, <2>2, <2>3, <2>4 DEF ReadsDownloads
<1>3. CASE Timeout
  BY <1>1, <1>3 DEF Timeout, NoAck, Retry, files, clients
<1>4. CASE Lose
  BY <1>1, <1>4, RemoveOnly DEF Lose, server, files, clients
<1>5. ASSUME NEW c \in Clients, ClientStep(c)
      PROVE  ReadsDownloads'
  <2>1. UNCHANGED <<job, mode, open, sent>>
    BY <1>5 DEF ClientStep, Ask, Repeat, GiveUp, Hear, server, files
  <2>2. \/ UNCHANGED inbox
        \/ \E p : ToServer(c, p) /\ (p.cmd = "RRQ" => job[c].op = "get")
    <3>1. Pending(c).cmd = "RRQ" => job[c].op = "get"
      BY JobTypes DEF IInv, Operations, Pending, Wrq, Block
    <3>2. Error.cmd = "ERROR" /\ \A n : Block(c, n).cmd = "DATA" /\ Ack(n).cmd = "ACK"
      BY DEF Error, Block, Ack
    <3>3. ASSUME Hear(c)
          PROVE  UNCHANGED inbox \/ \E n : ToServer(c, Block(c, n)) \/ ToServer(c, Ack(n))
      BY <3>3 DEF Hear, HearAck, HearBlock, HearError
    <3>4. CASE Ask(c) \/ Repeat(c) \/ GiveUp(c)
      BY <3>1, <3>2, <3>4 DEF Ask, Repeat, GiveUp
    <3>5. CASE Hear(c)
      BY <3>2, <3>3, <3>5
    <3> QED
      BY <1>5, <3>4, <3>5 DEF ClientStep
  <2>3. \A m \in BagToSet(inbox') : m.pkt.cmd = "RRQ" => job[m.from].op = "get"
    BY <2>2, InboxAfter DEF ReadsDownloads
  <2> QED
    BY <2>1, <2>3 DEF ReadsDownloads
<1>6. CASE UNCHANGED vars
  BY <1>1, <1>6 DEF vars, server, files, clients
<1> QED
  BY <1>2, <1>3, <1>4, <1>5, <1>6 DEF Next, ServerStep

\* A transfer that was disturbed remains so, and a client keeps its job.
LEMMA RemainsDisturbed ==
  ASSUME IInv, [Next]_vars, NEW d \in Clients
  PROVE  UNCHANGED job /\ (Undisturbed(d)' => Undisturbed(d))
<1>1. opened \in [Clients -> Nat]
  BY DEF IInv, TypeOK
<1>2. ASSUME UNCHANGED <<job, opened, mixed>>
      PROVE  UNCHANGED job /\ (Undisturbed(d)' => Undisturbed(d))
  BY <1>2 DEF Undisturbed
<1>3. ASSUME NEW m, Receive(m)
      PROVE  UNCHANGED job /\ (Undisturbed(d)' => Undisturbed(d))
  <2>1. UNCHANGED job /\ mixed \subseteq mixed'
    BY <1>3 DEF Receive, clients
  <2>2. opened'[d] \in {opened[d], opened[d] + 1}
    BY <1>1, <1>3 DEF Receive, Listen, WriteBlock, WriteRepeated, WriteInterrupted,
                      Acknowledged, WrongAck, NoAck, Retry, Request, files
  <2> QED
    BY <1>1, <2>1, <2>2 DEF Undisturbed
<1>4. CASE Timeout
  BY <1>2, <1>4 DEF Timeout, NoAck, Retry, files, clients
<1>5. CASE Lose \/ UNCHANGED vars
  BY <1>2, <1>5 DEF Lose, vars, server, files, clients
<1>6. CASE \E c \in Clients : ClientStep(c)
  BY <1>2, <1>6 DEF ClientStep, Ask, Repeat, GiveUp, Hear, server, files
<1> QED
  BY <1>3, <1>4, <1>5, <1>6 DEF Next, ServerStep

\* Every step is good for every transfer.
LEMMA StepGood ==
  ASSUME IInv, TransfersOK, [Next]_vars, NEW d \in Clients
  PROVE  Good(d)
<1>1. CASE ServerStep
  BY <1>1, UploadReceive, UploadTimeout, DownloadReceive, DownloadTimeout DEF Good, ServerStep
<1>2. CASE Lose
  BY <1>2, UploadLose, DownloadLose DEF Good
<1>3. CASE \E c \in Clients : ClientStep(c)
  BY <1>3, UploadClient, DownloadClient DEF Good
<1>4. CASE UNCHANGED vars
  <2>1. /\ UNCHANGED <<mode, open, block, disk, sent, opened, mixed>>
        /\ UNCHANGED <<job, phase, at, copy, inbox, link>>
    BY <1>4 DEF vars, server, files, clients
  <2>2. (IsUpload(d)' <=> IsUpload(d)) /\ (IsDownload(d)' <=> IsDownload(d))
    BY <2>1 DEF IsUpload, IsDownload, Undisturbed
  <2>3. IsUpload(d) => UploadOK(d)' /\ UploadStep(d)
    <3>1. UploadOK(d) =>
            (mode = "write" /\ open = d => block = Len(disk[d]) + 1 /\ opened[d] # 0)
      BY DEF UploadOK
    <3> QED
      BY <2>1, <3>1, UploadKept DEF TransfersOK
  <2>4. IsDownload(d) => DownloadOK(d)' /\ DownloadStep(d)
    <3>1. DownloadOK(d) => (mode = "wait" /\ open = d => block <= job[d].blocks)
      BY DEF DownloadOK
    <3> QED
      BY <2>1, <3>1, DownloadKept DEF TransfersOK
  <2> QED
    BY <2>2, <2>3, <2>4 DEF Good
<1> QED
  BY <1>1, <1>2, <1>3, <1>4 DEF Next

\* Nothing has been sent at first.
LEMMA TransfersInit == Init => TransfersOK
<1> SUFFICES ASSUME Init PROVE TransfersOK
  OBVIOUS
<1>1. BagToSet(EmptyBag) = {}
  BY DEF BagToSet, EmptyBag, SetToBag
<1>2. ReadsDownloads
  BY <1>1 DEF Init, ReadsDownloads
<1>3. ASSUME NEW c \in Clients
      PROVE  UploadOK(c) /\ DownloadOK(c)
  <2>1. job[c] \in Operations
    BY InitInvariant, JobTypes DEF IInv
  <2>2. Begins(<<>>, c) /\ Len(<<>>) = 0
    BY DEF Begins
  <2>3. job[c].blocks \in Nat /\ Wrap \in Nat /\ Wrap > 1
    BY <2>1, WrapType DEF Operations
  <2>4. /\ disk[c] = <<>> /\ copy[c] = <<>> /\ at[c] = 0 /\ opened[c] = 0 /\ phase[c] = "idle"
        /\ BagToSet(link[c]) = {} /\ BagToSet(inbox) = {} /\ mode = "run" /\ c \notin sent
    BY <1>1 DEF Init
  <2>5. UploadOK(c)
    BY <2>2, <2>3, <2>4 DEF UploadOK
  <2>6. DownloadOK(c)
    BY <2>2, <2>3, <2>4 DEF DownloadOK
  <2> QED
    BY <2>5, <2>6
<1> QED
  BY <1>2, <1>3 DEF TransfersOK

\* The steps preserve what is known of the transfers.
LEMMA TransfersStep == IInv /\ TransfersOK /\ [Next]_vars => TransfersOK'
<1> SUFFICES ASSUME IInv, TransfersOK, [Next]_vars PROVE TransfersOK'
  OBVIOUS
<1>1. ReadsDownloads'
  BY ReadsPreserved DEF TransfersOK
<1> QED
  BY <1>1, StepGood DEF TransfersOK, Good

LEMMA TransfersInvariant == Spec => [](IInv /\ TransfersOK)
BY InitInvariant, StepInvariant, TransfersInit, TransfersStep, PTL DEF Spec

\* What begins the file of a client and is as long is that file, and what begins it is
\* its first blocks.
LEMMA WholeFile ==
  ASSUME NEW c \in Clients, job[c].blocks \in Nat,
         NEW s \in Seq(Clients \X Nat), Begins(s, c), Len(s) <= job[c].blocks
  PROVE  /\ s = SubSeq(File(c), 1, Len(s))
         /\ Len(s) = job[c].blocks => s = File(c)
         /\ Len(File(c)) = job[c].blocks
         /\ \A n \in 1..job[c].blocks : File(c)[n] = <<c, n>>
<1>1. File(c) \in Seq(Clients \X Nat) /\ Len(File(c)) = job[c].blocks
  BY DEF File
<1>2. \A n \in 1..job[c].blocks : File(c)[n] = <<c, n>>
  BY DEF File
<1>3. Len(s) = job[c].blocks => s = File(c)
  BY DEF Begins, File
<1>4. s = SubSeq(File(c), 1, Len(s))
  <2>1. SubSeq(File(c), 1, Len(s)) = [n \in 1..Len(s) |-> File(c)[n]]
    BY <1>1
  <2>2. \A n \in 1..Len(s) : File(c)[n] = <<c, n>>
    BY <1>2
  <2> QED
    BY <2>1, <2>2 DEF Begins
<1> QED
  BY <1>1, <1>2, <1>3, <1>4

\* When the client of an upload that nobody disturbed has heard that its last block was
\* acknowledged, the server's file holds all of it, or its first 2^16 - 1 blocks (lines
\* 108 to 134), whatever the network lost or reordered and the client repeated.
THEOREM UploadsAreWhole == Spec => []StoredIsWhole
<1>1. ASSUME IInv, TransfersOK
      PROVE  StoredIsWhole
  <2> SUFFICES ASSUME NEW c \in Clients, IsUpload(c), phase[c] = "ok"
               PROVE  disk[c] = SubSeq(File(c), 1, IF job[c].blocks < Wrap THEN job[c].blocks
                                                                           ELSE Wrap - 1)
    BY DEF StoredIsWhole, IsUpload
  <2>1. UploadOK(c)
    BY <1>1 DEF TransfersOK
  <2>2. /\ disk[c] \in Seq(Clients \X Nat) /\ Len(disk[c]) \in Nat
        /\ job[c].blocks \in Nat /\ at[c] \in Nat
    <3>1. job[c] \in Operations
      BY <1>1, JobTypes DEF IInv
    <3>2. disk \in [Clients -> Seq(Clients \X Nat)] /\ at \in [Clients -> Nat]
      BY <1>1 DEF IInv, TypeOK
    <3> QED
      BY <3>1, <3>2 DEF Operations
  <2>3. /\ Begins(disk[c], c) /\ Len(disk[c]) <= at[c] /\ at[c] = job[c].blocks
        /\ Len(disk[c]) < Wrap /\ (Len(disk[c]) = at[c] \/ Len(disk[c]) = Wrap - 1)
    BY <2>1 DEF UploadOK
  <2>4. /\ Len(disk[c]) <= job[c].blocks
        /\ Len(disk[c]) = IF job[c].blocks < Wrap THEN job[c].blocks ELSE Wrap - 1
    BY <2>2, <2>3, WrapType
  <2> QED
    BY <2>2, <2>3, <2>4, WholeFile
<1> QED
  BY <1>1, TransfersInvariant, PTL

\* A good step of an upload of fewer than 2^16 blocks is one of FileTransfer.
LEMMA UploadImplements ==
  ASSUME IInv, NEW d \in Clients, job[d].op = "put", UploadOK(d), UploadStep(d),
         job[d].blocks < Wrap, Undisturbed(d), Undisturbed(d)',
         d \notin sent, d \notin sent', UNCHANGED job
  PROVE  [Transfer(d)!Next]_(Transfer(d)!vars)
<1>1. disk[d] \in Seq(Clients \X Nat) /\ job[d].blocks \in Nat /\ at[d] \in Nat
  BY JobTypes DEF IInv, TypeOK, Operations
<1>2. Begins(disk[d], d) /\ Len(disk[d]) <= at[d] /\ at[d] <= job[d].blocks
  BY DEF UploadOK
<1>3. /\ Len(disk[d]) = job[d].blocks => disk[d] = File(d)
      /\ Len(File(d)) = job[d].blocks
      /\ \A n \in 1..job[d].blocks : File(d)[n] = <<d, n>>
  BY <1>1, <1>2, WholeFile
<1>4. File(d)' = File(d)
  BY DEF File
<1>5. ~(job[d].blocks >= Wrap) /\ ~(job'[d].blocks >= Wrap)
  BY <1>1, WrapType
<1>6. CASE disk'[d] = disk[d] /\ (phase'[d] = "ok" <=> phase[d] = "ok")
  BY <1>4, <1>6 DEF Transfer!vars
<1>7. CASE /\ phase[d] # "ok" /\ phase'[d] # "ok"
           /\ Len(disk[d]) < job[d].blocks
           /\ disk'[d] = Append(disk[d], <<d, Len(disk[d]) + 1>>)
  <2>1. File(d)[Len(disk[d]) + 1] = <<d, Len(disk[d]) + 1>>
    BY <1>1, <1>3, <1>7
  <2>2. Transfer(d)!Deliver
    BY <1>3, <1>7, <2>1 DEF Transfer!Deliver
  <2> QED
    BY <1>4, <1>7, <1>5, <2>2 DEF Transfer!Next
<1>8. CASE disk'[d] = disk[d] /\ phase'[d] = "ok" /\ phase[d] # "ok"
           /\ Len(disk[d]) = job[d].blocks
  <2>1. Transfer(d)!Succeed
    BY <1>3, <1>8, <1>5 DEF Transfer!Succeed
  <2> QED
    BY <1>4, <1>8, <1>5, <2>1 DEF Transfer!Next
<1> QED
  BY <1>6, <1>7, <1>8, <1>5 DEF UploadStep

\* So is one of a download.
LEMMA DownloadImplements ==
  ASSUME IInv, NEW d \in Clients, job[d].op = "get", DownloadOK(d), DownloadStep(d),
         job[d].blocks < Wrap, Undisturbed(d), Undisturbed(d)', UNCHANGED job
  PROVE  [Transfer(d)!Next]_(Transfer(d)!vars)
<1>1. copy[d] \in Seq(Clients \X Nat) /\ job[d].blocks \in Nat
  BY JobTypes DEF IInv, TypeOK, Operations
<1>2. Begins(copy[d], d) /\ Len(copy[d]) <= job[d].blocks
  BY DEF DownloadOK
<1>3. /\ Len(copy[d]) = job[d].blocks => copy[d] = File(d)
      /\ Len(File(d)) = job[d].blocks
      /\ \A n \in 1..job[d].blocks : File(d)[n] = <<d, n>>
  BY <1>1, <1>2, WholeFile
<1>4. File(d)' = File(d)
  BY DEF File
<1>5. ~(job[d].blocks >= Wrap) /\ ~(job'[d].blocks >= Wrap)
  BY <1>1, WrapType
<1>6. CASE copy'[d] = copy[d] /\ (d \in sent' <=> d \in sent)
  BY <1>4, <1>6 DEF Transfer!vars
<1>7. CASE /\ d \notin sent /\ d \notin sent'
           /\ Len(copy[d]) < job[d].blocks
           /\ copy'[d] = Append(copy[d], <<d, Len(copy[d]) + 1>>)
  <2>1. File(d)[Len(copy[d]) + 1] = <<d, Len(copy[d]) + 1>>
    BY <1>1, <1>3, <1>7
  <2>2. Transfer(d)!Deliver
    BY <1>3, <1>7, <2>1 DEF Transfer!Deliver
  <2> QED
    BY <1>4, <1>7, <1>5, <2>2 DEF Transfer!Next
<1>8. CASE /\ copy'[d] = copy[d] /\ d \in sent' /\ d \notin sent
           /\ Len(copy[d]) = job[d].blocks
  <2>1. Transfer(d)!Succeed
    BY <1>3, <1>8, <1>5 DEF Transfer!Succeed
  <2> QED
    BY <1>4, <1>8, <1>5, <2>1 DEF Transfer!Next
<1> QED
  BY <1>6, <1>7, <1>8 DEF DownloadStep

\* Every step of the server, the network and the clients is, for each of the clients, a
\* step of the transfer of its file or leaves it alone.
LEMMA StepsImplement ==
  ASSUME IInv, TransfersOK, [Next]_vars, NEW d \in Clients
  PROVE  [Transfer(d)!Next]_(Transfer(d)!vars)
<1>1. UNCHANGED job /\ (Undisturbed(d)' => Undisturbed(d)) /\ File(d)' = File(d)
  BY RemainsDisturbed DEF File
<1>2. Good(d) /\ ReadsDownloads /\ ReadsDownloads'
  BY StepGood, ReadsPreserved DEF TransfersOK
<1>3. job[d].op \in {"get", "put"} /\ job[d].blocks \in Nat /\ Wrap \in Nat
  BY JobTypes, WrapType DEF IInv, Operations
<1>4. CASE ~Undisturbed(d)' \/ job[d].blocks >= Wrap
  BY <1>1, <1>4 DEF Transfer!Next
<1>5. CASE job[d].op = "put" /\ Undisturbed(d)' /\ job[d].blocks < Wrap
  <2>1. d \notin sent /\ d \notin sent'
    BY <1>1, <1>2, <1>5 DEF ReadsDownloads
  <2>2. UploadOK(d) /\ UploadStep(d)
    BY <1>1, <1>2, <1>5 DEF Good, IsUpload, TransfersOK
  <2> QED
    BY <1>1, <1>5, <2>1, <2>2, UploadImplements
<1>6. CASE job[d].op = "get" /\ Undisturbed(d)' /\ job[d].blocks < Wrap
  <2>1. DownloadOK(d) /\ DownloadStep(d)
    BY <1>1, <1>2, <1>6 DEF Good, IsDownload, TransfersOK
  <2> QED
    BY <1>1, <1>6, <2>1, DownloadImplements
<1> QED
  BY <1>3, <1>4, <1>5, <1>6

\* Whoever has a file of fewer than 2^16 blocks and is not disturbed gets a transfer as
\* FileTransfer promises it: lost, late and repeated datagrams lose, repeat or misplace
\* no block, and process_read and the client of an upload only believe what is true.
THEOREM TransfersAreFileTransfers == Spec => ImplementsFileTransfer
<1>1. Init => \A c \in Clients : Transfer(c)!Init
  BY DEF Init, Transfer!Init
<1>2. IInv /\ TransfersOK /\ [Next]_vars
        => [\A c \in Clients : [Transfer(c)!Next]_(Transfer(c)!vars)]_vars
  BY StepsImplement
<1> QED
  BY <1>1, <1>2, TransfersInvariant, PTL DEF Spec, ImplementsFileTransfer
-----------------------------------------------------------------------------
(* Lost blocks: of one client that nobody mixes up and that repeats        *)
(* nothing, at most one datagram that carries its download forward is on   *)
(* the way, its request or ACK, or the block that answers it.              *)

Asked(c)  == {m \in BagToSet(inbox) : m.from = c /\ m.pkt.cmd \in {"RRQ", "ACK"}}
Blocks(c) == {p \in BagToSet(link[c]) : p.cmd = "DATA"}

\* process_read waits for the ACK of c's block.
Waiting(c) == mode = "wait" /\ open = c

\* Each of them once.
Once(c) ==
  /\ \A m \in Asked(c) : inbox[m] = 1
  /\ \A p \in Blocks(c) : link[c][p] = 1

\* A client whose block was lost has nothing left on the way.
LostOK(c) ==
  /\ Once(c)
  /\ \A m \in Asked(c) : Blocks(c) = {} /\ \A n \in Asked(c) : n = m
  /\ \A p, q \in Blocks(c) : q = p
  /\ c \in lost \/ Blocks(c) # {} => job[c].op = "get"
  /\ c \in lost => Asked(c) = {} /\ Blocks(c) = {} /\ phase[c] # "ok"
  /\ phase[c] = "idle" =>
       at[c] = 0 /\ Asked(c) = {} /\ Blocks(c) = {} /\ c \notin lost /\ ~Waiting(c)
  /\ phase[c] = "ok" => Blocks(c) = {} /\ \A m \in Asked(c) : m.pkt.cmd = "ACK"
  /\ Waiting(c) => /\ \A p \in Blocks(c) : p = Block(c, block)
                   /\ \A m \in Asked(c) : /\ m.pkt = Ack(block)
                                          /\ phase[c] = "ok" => Block(c, block).short

LossesOK == \A c \in Clients : c \notin mixed /\ repeats[c] = 0 => LostOK(c)

\* What a datagram more does to the others on a link, and how often it is there.
LEMMA AddOnce ==
  ASSUME NEW b, NEW p
  PROVE  /\ BagToSet(b) \subseteq BagToSet(Add(b, p))
         /\ \A q \in BagToSet(b) : q # p => Add(b, p)[q] = b[q]
         /\ p \notin BagToSet(b) /\ p \in BagToSet(Add(b, p)) => Add(b, p)[p] = 1
BY DEF Add, BagAdd, BagToSet

\* What one less does.
LEMMA RemoveOnce ==
  ASSUME NEW b, NEW p
  PROVE  /\ BagToSet(b) \ {p} \subseteq BagToSet(BagRemove(b, p))
         /\ \A q \in BagToSet(b) : q # p => BagRemove(b, p)[q] = b[q]
         /\ p \in BagToSet(b) /\ b[p] = 1 => p \notin BagToSet(BagRemove(b, p))
BY DEF BagRemove, BagToSet

\* The blocks of c on the way, after the server has sent something.
LEMMA BlocksSent ==
  ASSUME LinksOK, NEW c \in Clients, NEW d \in Clients, NEW p, ToClient(d, p), Once(c)
  PROVE  /\ \A q \in Blocks(c)' : link'[c][q] = 1 \/ (d = c /\ q = p /\ q \in Blocks(c))
         /\ d # c \/ p.cmd # "DATA" =>
              Blocks(c)' = Blocks(c) /\ \A q \in Blocks(c) : link'[c][q] = 1
         /\ d = c => Blocks(c)' \subseteq Blocks(c) \cup {p}
<1>1. link'[c] = IF d = c THEN Add(link[c], p) ELSE link[c]
  BY DEF ToClient, LinksOK
<1>2. CASE d # c
  BY <1>1, <1>2 DEF Blocks, Once
<1>3. CASE d = c
  BY <1>1, <1>3, AddOnly, AddOnce DEF Blocks, Once
<1> QED
  BY <1>2, <1>3

\* After a timeout no block is sent.
LEMMA BlocksNoAck ==
  ASSUME LinksOK, NEW c \in Clients, NEW d \in Clients, NoAck(d), Once(c)
  PROVE  Blocks(c)' = Blocks(c) /\ \A q \in Blocks(c) : link'[c][q] = 1
<1> DEFINE added == IF tries = Tries THEN Add(link[d], Error)
                                     ELSE Add(Add(link[d], Error), Error)
<1>1. link'[c] = IF d = c THEN added ELSE link[c]
  BY DEF NoAck, LinksOK
<1>2. \A b, q : q.cmd = "DATA" => /\ q \in BagToSet(Add(b, Error)) <=> q \in BagToSet(b)
                                  /\ q \in BagToSet(b) => Add(b, Error)[q] = b[q]
  BY AddOnly, AddOnce DEF Error
<1>3. \A q : q.cmd = "DATA" => /\ q \in BagToSet(added) <=> q \in BagToSet(link[d])
                               /\ q \in BagToSet(link[d]) => added[q] = link[d][q]
  BY <1>2
<1> HIDE DEF added
<1> QED
  BY <1>1, <1>3 DEF Blocks, Once

\* The blocks of c on the way, after a datagram to d has arrived or was lost.
LEMMA BlocksHeard ==
  ASSUME LinksOK, NEW c \in Clients, NEW d \in Clients, NEW p \in BagToSet(link[d]),
         link' = [link EXCEPT ![d] = BagRemove(@, p)], Once(c)
  PROVE  /\ Blocks(c)' \subseteq Blocks(c) /\ \A q \in Blocks(c)' : link'[c][q] = 1
         /\ d = c /\ p.cmd = "DATA" => p \in Blocks(c) /\ Blocks(c)' = Blocks(c) \ {p}
<1>1. link'[c] = IF d = c THEN BagRemove(link[c], p) ELSE link[c]
  BY DEF LinksOK
<1>2. CASE d # c
  BY <1>1, <1>2 DEF Blocks, Once
<1>3. CASE d = c
  BY <1>1, <1>3, RemoveOnly, RemoveOnce DEF Blocks, Once
<1> QED
  BY <1>2, <1>3

\* What c has asked for, after a datagram of d was sent to the server.
LEMMA AskedSent ==
  ASSUME NEW c \in Clients, NEW d \in Clients, NEW p, ToServer(d, p), Once(c)
  PROVE  /\ d # c \/ p.cmd \notin {"RRQ", "ACK"} =>
              Asked(c)' = Asked(c) /\ \A m \in Asked(c) : inbox'[m] = 1
         /\ d = c /\ Asked(c) = {} => /\ Asked(c)' \subseteq {[from |-> c, pkt |-> p]}
                                      /\ \A m \in Asked(c)' : inbox'[m] = 1
<1> DEFINE n == [from |-> d, pkt |-> p]
<1>1. inbox' = Add(inbox, n)
  BY DEF ToServer
<1>2. n.from = d /\ n.pkt = p
  OBVIOUS
<1> HIDE DEF n
<1>3. ASSUME d # c \/ p.cmd \notin {"RRQ", "ACK"}
      PROVE  Asked(c)' = Asked(c) /\ \A m \in Asked(c) : inbox'[m] = 1
  BY <1>1, <1>2, <1>3, AddOnly, AddOnce DEF Asked, Once
<1>4. ASSUME d = c, Asked(c) = {}
      PROVE  Asked(c)' \subseteq {n} /\ \A m \in Asked(c)' : inbox'[m] = 1
  BY <1>1, <1>2, <1>4, AddOnly, AddOnce DEF Asked, Once
<1> QED
  BY <1>3, <1>4 DEF n

\* What c has asked for, after a datagram was taken from the socket.
LEMMA AskedTaken ==
  ASSUME NEW c \in Clients, NEW m \in BagToSet(inbox), inbox' = BagRemove(inbox, m), Once(c)
  PROVE  /\ Asked(c)' \subseteq Asked(c) /\ \A n \in Asked(c)' : inbox'[n] = 1
         /\ m.from = c /\ m.pkt.cmd \in {"RRQ", "ACK"} =>
              m \in Asked(c) /\ Asked(c)' = Asked(c) \ {m}
BY RemoveOnly, RemoveOnce DEF Asked, Once

\* Steps that bring c nothing new keep what is known of its blocks.
LEMMA LostKept ==
  ASSUME NEW c \in Clients, LostOK(c), Once(c)',
         Asked(c)' \subseteq Asked(c), Blocks(c)' \subseteq Blocks(c),
         UNCHANGED <<job, at, lost>>, phase'[c] \in {phase[c], "failed"},
         Waiting(c)' => Waiting(c) /\ UNCHANGED block
  PROVE  LostOK(c)'
<1>1. Block(c, block)' = Block(c, block') /\ Ack(block)' = Ack(block')
  BY DEF Block, Ack
<1>2. \/ phase'[c] = phase[c]
      \/ phase'[c] = "failed" /\ phase'[c] # "ok" /\ phase'[c] # "idle"
  OBVIOUS
<1>3. CASE ~Waiting(c)'
  BY <1>2, <1>3 DEF LostOK
<1>4. CASE Waiting(c)' /\ Waiting(c) /\ block' = block
  BY <1>1, <1>2, <1>4 DEF LostOK
<1> QED
  BY <1>3, <1>4

\* process_read sends c its block n (lines 149 to 176): what c had asked for is gone.
LEMMA LostSent ==
  ASSUME IInv, NEW c \in Clients, NEW m \in Asked(c), LostOK(c), job[c].op = "get",
         NEW n \in Nat, SendBlock(c, c, n), block' = n, inbox' = BagRemove(inbox, m),
         phase[c] # "ok", UNCHANGED <<clients, lost>>
  PROVE  LostOK(c)'
<1>1. /\ m \in BagToSet(inbox) /\ m.from = c /\ m.pkt.cmd \in {"RRQ", "ACK"}
      /\ Once(c) /\ Blocks(c) = {} /\ c \notin lost /\ phase[c] # "idle" /\ Asked(c) = {m}
  BY DEF LostOK, Asked
<1>2. Asked(c)' = {}
  BY <1>1, AskedTaken
<1>3. LinksOK
  BY DEF IInv, Sane
<1>4. Blocks(c)' \subseteq {Block(c, n)} /\ \A q \in Blocks(c)' : link'[c][q] = 1
  <2>1. CASE ToClient(c, Block(c, n))
    BY <1>1, <1>3, <2>1, BlocksSent
  <2>2. CASE ToClient(c, Error)
    <3>1. Error.cmd # "DATA"
      BY DEF Error
    <3> QED
      BY <1>1, <1>3, <2>2, <3>1, BlocksSent
  <2> QED
    BY <2>1, <2>2 DEF SendBlock
<1>5. Block(c, block)' = Block(c, n) /\ UNCHANGED <<job, phase>>
  BY DEF Block, clients
<1>6. Once(c)'
  BY <1>2, <1>4 DEF Once
<1> QED
  BY <1>1, <1>2, <1>4, <1>5, <1>6 DEF LostOK

\* A datagram from somebody else changes nothing for c, or mixes it up.
LEMMA LostOther ==
  ASSUME IInv, NEW c \in Clients, LostOK(c), NEW m, Receive(m), m.from # c, c \notin mixed'
  PROVE  LostOK(c)'
<1> DEFINE d == m.from
           p == m.pkt
<1>1. /\ m \in BagToSet(inbox) /\ inbox' = BagRemove(inbox, m) /\ d \in Clients
      /\ UNCHANGED <<job, at, phase, lost>> /\ LinksOK /\ Once(c)
      /\ \/ Listen(d, p) \/ WriteBlock(d, p) \/ WriteRepeated(d, p) \/ WriteInterrupted(d, p)
         \/ Acknowledged(d, p) \/ WrongAck(d, p) \/ NoAck(d)
  BY DEF Receive, IInv, Sane, InboxOK, Sensible, LostOK, clients
<1>2. ~Waiting(c)
  BY DEF Receive, Waiting
<1>3. Waiting(c)' => open' = c /\ mode' = "wait"
  BY DEF Waiting
<1>4. open' = d \/ mode' # "wait" \/ (open' = open /\ mode = "wait")
  BY <1>1 DEF Listen, WriteBlock, WriteRepeated, WriteInterrupted, Acknowledged, WrongAck,
              NoAck, Retry, Request, OpenToWrite
<1>5. ~Waiting(c)'
  BY <1>2, <1>3, <1>4 DEF Waiting
<1>6. Asked(c)' \subseteq Asked(c) /\ \A n \in Asked(c)' : inbox'[n] = 1
  BY <1>1, AskedTaken
<1>7. Blocks(c)' = Blocks(c) /\ \A q \in Blocks(c) : link'[c][q] = 1
  <2>1. CASE NoAck(d)
    BY <1>1, <2>1, BlocksNoAck
  <2>2. CASE UNCHANGED link
    BY <1>1, <2>2 DEF Blocks, Once
  <2>3. CASE \E q : ToClient(d, q)
    BY <1>1, <2>3, BlocksSent
  <2>4. NoAck(d) \/ UNCHANGED link \/ \E q : ToClient(d, q)
    BY <1>1 DEF Listen, WriteBlock, WriteRepeated, WriteInterrupted, Acknowledged, WrongAck,
                Request, OpenToWrite, OpenToRead, SendBlock
  <2> QED
    BY <2>1, <2>2, <2>3, <2>4
<1>8. Once(c)'
  BY <1>6, <1>7 DEF Once
<1> HIDE DEF d, p
<1> QED
  BY <1>1, <1>5, <1>6, <1>7, <1>8, LostKept

\* A datagram from c: process_read sends its next block only for what c asked for, its
\* request or the ACK of the block before.
LEMMA LostOwn ==
  ASSUME IInv, ReadsDownloads, NEW c \in Clients, LostOK(c),
         NEW m, Receive(m), m.from = c, c \notin mixed'
  PROVE  LostOK(c)'
<1> DEFINE p == m.pkt
<1>1. /\ m \in BagToSet(inbox) /\ inbox' = BagRemove(inbox, m)
      /\ UNCHANGED <<clients, job, at, phase, lost>> /\ LinksOK /\ Once(c)
      /\ mode \in {"write", "wait"} => open = c
      /\ \/ Listen(c, p) \/ WriteBlock(c, p) \/ WriteRepeated(c, p) \/ WriteInterrupted(c, p)
         \/ Acknowledged(c, p) \/ WrongAck(c, p) \/ NoAck(c)
  BY DEF Receive, IInv, Sane, LostOK, clients
<1>2. /\ p.cmd = "RRQ" => job[c].op = "get" /\ m \in Asked(c)
      /\ p.cmd = "ACK" => m \in Asked(c)
      /\ mode = "write" => job[c].op = "put"
      /\ mode = "wait" => job[c].op = "get"
  BY <1>1 DEF ReadsDownloads, IInv, Sane, WritesUploads, Asked
<1>3. Asked(c)' \subseteq Asked(c) /\ \A n \in Asked(c)' : inbox'[n] = 1
  BY <1>1, AskedTaken
<1>4. CASE p.cmd = "RRQ" /\ OpenToRead(c) /\ open' = c /\ block' = 1
  <2>1. phase[c] # "ok"
    BY <1>2, <1>4 DEF LostOK
  <2>2. SendBlock(c, c, 1) /\ 1 \in Nat
    BY <1>4 DEF OpenToRead
  <2> QED
    BY <1>1, <1>2, <1>4, <2>1, <2>2, LostSent
<1>5. CASE /\ mode = "wait" /\ open = c /\ p.cmd = "ACK" /\ ~Block(c, block).short
           /\ SendBlock(c, c, block + 1) /\ block' = block + 1
  <2>1. phase[c] # "ok"
    BY <1>2, <1>5 DEF LostOK, Waiting
  <2>2. block + 1 \in Nat
    BY DEF IInv, TypeOK
  <2> QED
    BY <1>1, <1>2, <1>5, <2>1, <2>2, LostSent
<1>6. CASE /\ mode' = "wait" => mode = "wait" /\ UNCHANGED <<open, block>>
           /\ NoAck(c) \/ UNCHANGED link \/ \E q : q.cmd # "DATA" /\ ToClient(c, q)
  <2>1. Blocks(c)' = Blocks(c) /\ \A q \in Blocks(c) : link'[c][q] = 1
    <3>1. CASE UNCHANGED link
      BY <1>1, <3>1 DEF Blocks, Once
    <3> QED
      BY <1>1, <1>6, <3>1, BlocksNoAck, BlocksSent
  <2>2. Once(c)'
    BY <1>3, <2>1 DEF Once
  <2>3. Waiting(c)' => Waiting(c) /\ UNCHANGED block
    BY <1>6 DEF Waiting
  <2> QED
    BY <1>1, <1>3, <2>1, <2>2, <2>3, LostKept
<1>7. Error.cmd # "DATA" /\ \A n : Ack(n).cmd # "DATA"
  BY DEF Error, Ack
<1>8. ASSUME Request(c, p), mode \in {"run", "write"}
      PROVE  LostOK(c)'
  <2>1. CASE /\ mode' \in {"write", "run"}
             /\ ToClient(c, Ack(0)) \/ ToClient(c, Error)
    BY <1>6, <1>7, <2>1
  <2> QED
    BY <1>4, <1>8, <2>1 DEF Request, OpenToWrite
<1>9. CASE Listen(c, p)
  BY <1>6, <1>8, <1>9 DEF Listen
<1>10. CASE WriteBlock(c, p) \/ WriteRepeated(c, p)
  BY <1>6, <1>7, <1>10 DEF WriteBlock, WriteRepeated
<1>11. CASE WriteInterrupted(c, p)
  BY <1>6, <1>8, <1>11 DEF WriteInterrupted
<1>12. CASE Acknowledged(c, p)
  <2>1. mode = "wait" /\ open = c /\ p.cmd = "ACK"
    BY <1>1, <1>12 DEF Acknowledged
  <2>2. CASE Block(open, block).short
    BY <1>6, <1>12, <2>2 DEF Acknowledged
  <2>3. CASE ~Block(open, block).short
    BY <1>5, <1>12, <2>1, <2>3 DEF Acknowledged
  <2> QED
    BY <2>2, <2>3
<1>13. ~WrongAck(c, p)
  <2> SUFFICES ASSUME WrongAck(c, p) PROVE FALSE
    OBVIOUS
  <2>1. Waiting(c) /\ m \in Asked(c) /\ p.num # block % Wrap
    BY <1>1, <1>2 DEF WrongAck, Waiting
  <2>2. p = Ack(block)
    BY <2>1 DEF LostOK
  <2> QED
    BY <2>1, <2>2 DEF Ack
<1>14. CASE NoAck(c)
  BY <1>6, <1>14 DEF NoAck, Retry
<1> QED
  BY <1>1, <1>9, <1>10, <1>11, <1>12, <1>13, <1>14

\* After a timeout there is no block but those on the way.
LEMMA LostTimeout ==
  ASSUME IInv, NEW c \in Clients, LostOK(c), Timeout
  PROVE  LostOK(c)'
<1>1. /\ UNCHANGED <<clients, job, at, phase, lost, inbox>> /\ LinksOK /\ Once(c)
      /\ UNCHANGED block
  BY DEF Timeout, NoAck, Retry, clients, IInv, Sane, LostOK
<1>2. Waiting(c)' => Waiting(c)
  BY DEF Timeout, NoAck, Retry, Waiting
<1>3. Blocks(c)' = Blocks(c) /\ \A q \in Blocks(c) : link'[c][q] = 1
  <2>1. CASE UNCHANGED link
    BY <1>1, <2>1 DEF Blocks, Once
  <2>2. CASE NoAck(peer)
    <3>1. peer \in Clients
      BY <2>2 DEF NoAck, IInv, TypeOK
    <3> QED
      BY <1>1, <2>2, <3>1, BlocksNoAck
  <2> QED
    BY <2>1, <2>2 DEF Timeout
<1>4. Asked(c)' = Asked(c) /\ Once(c)'
  BY <1>1, <1>3 DEF Asked, Once
<1> QED
  BY <1>1, <1>2, <1>3, <1>4, LostKept

\* The network loses a datagram: when it is the block of c, nothing of its download is
\* on the way any more.
LEMMA LostLose ==
  ASSUME IInv, NEW c \in Clients, LostOK(c), Lose
  PROVE  LostOK(c)'
<1>1. /\ UNCHANGED <<job, at, phase, mode, open, block>> /\ LinksOK /\ Once(c)
      /\ Waiting(c)' = Waiting(c)
  BY DEF Lose, server, clients, IInv, Sane, LostOK, Waiting
<1>2. ASSUME NEW m \in BagToSet(inbox), inbox' = BagRemove(inbox, m), UNCHANGED <<lost, link>>
      PROVE  LostOK(c)'
  <2>1. Asked(c)' \subseteq Asked(c) /\ \A n \in Asked(c)' : inbox'[n] = 1
    BY <1>1, <1>2, AskedTaken
  <2>2. Blocks(c)' = Blocks(c) /\ Once(c)'
    BY <1>1, <1>2, <2>1 DEF Blocks, Once
  <2> QED
    BY <1>1, <1>2, <2>1, <2>2, LostKept
<1>3. ASSUME NEW d \in Clients, NEW p \in BagToSet(link[d]), UNCHANGED inbox,
             link' = [link EXCEPT ![d] = BagRemove(@, p)],
             lost' = IF p.cmd = "DATA" THEN lost \cup {d} ELSE lost
      PROVE  LostOK(c)'
  <2>1. /\ Blocks(c)' \subseteq Blocks(c) /\ \A q \in Blocks(c)' : link'[c][q] = 1
        /\ d = c /\ p.cmd = "DATA" => p \in Blocks(c) /\ Blocks(c)' = Blocks(c) \ {p}
    BY <1>1, <1>3, BlocksHeard
  <2>2. Asked(c)' = Asked(c) /\ Once(c)'
    BY <1>1, <1>3, <2>1 DEF Asked, Once
  <2>3. CASE d = c /\ p.cmd = "DATA"
    <3>1. /\ Blocks(c)' = {} /\ Asked(c) = {}
          /\ phase[c] \notin {"idle", "ok"} /\ job[c].op = "get"
      BY <2>1, <2>3 DEF LostOK
    <3> QED
      BY <1>1, <2>2, <3>1 DEF LostOK
  <2>4. CASE ~(d = c /\ p.cmd = "DATA")
    <3>1. c \in lost' <=> c \in lost
      BY <1>3, <2>4
    <3>2. Block(c, block)' = Block(c, block) /\ Ack(block)' = Ack(block)
      BY <1>1 DEF Block, Ack
    <3> QED
      BY <1>1, <2>1, <2>2, <3>1, <3>2 DEF LostOK
  <2> QED
    BY <2>3, <2>4
<1> QED
  BY <1>2, <1>3 DEF Lose

\* What another client does leaves c alone.
LEMMA LostOtherClient ==
  ASSUME IInv, NEW c \in Clients, LostOK(c), NEW d \in Clients, d # c, ClientStep(d)
  PROVE  LostOK(c)'
<1>1. /\ UNCHANGED <<job, lost, block>> /\ Waiting(c)' = Waiting(c) /\ LinksOK /\ Once(c)
      /\ phase'[c] = phase[c] /\ at'[c] = at[c]
  BY DEF ClientStep, Ask, Repeat, GiveUp, Hear, HearAck, HearBlock, HearError, server, Waiting,
         IInv, TypeOK, Sane, LostOK
<1>2. Asked(c)' = Asked(c) /\ \A m \in Asked(c) : inbox'[m] = 1
  <2>1. UNCHANGED inbox \/ \E p : ToServer(d, p)
    BY DEF ClientStep, Ask, Repeat, GiveUp, Hear, HearAck, HearBlock, HearError
  <2>2. CASE UNCHANGED inbox
    BY <1>1, <2>2 DEF Asked, Once
  <2>3. CASE \E p : ToServer(d, p)
    BY <1>1, <2>3, AskedSent
  <2> QED
    BY <2>1, <2>2, <2>3
<1>3. Blocks(c)' = Blocks(c) /\ \A q \in Blocks(c) : link'[c][q] = 1
  <2>1. link'[c] = link[c]
    BY <1>1 DEF ClientStep, Ask, Repeat, GiveUp, Hear, LinksOK
  <2> QED
    BY <1>1, <2>1 DEF Blocks, Once
<1>4. Block(c, block)' = Block(c, block) /\ Ack(block)' = Ack(block)
  BY <1>1 DEF Block, Ack
<1>5. Once(c)'
  BY <1>2, <1>3 DEF Once
<1> QED
  BY <1>1, <1>2, <1>3, <1>4, <1>5 DEF LostOK

\* A client that repeats nothing sends its request once, and one ACK for the block it
\* takes, which is no longer on the way then.
LEMMA LostClient ==
  ASSUME IInv, ReadsDownloads, NEW c \in Clients, LostOK(c), ClientStep(c), ~Repeat(c)
  PROVE  LostOK(c)'
<1>1. /\ UNCHANGED <<job, lost, block>> /\ Waiting(c)' = Waiting(c) /\ LinksOK /\ Once(c)
      /\ job[c].op \in {"get", "put"} /\ at[c] \in Nat
      /\ phase \in [Clients -> {"idle", "busy", "ok", "failed"}] /\ at \in [Clients -> Nat]
  BY JobTypes DEF ClientStep, Ask, GiveUp, Hear, server, Waiting, IInv, TypeOK, Sane, LostOK,
         Operations
<1>2. job[c].op = "put" => Asked(c) = {} /\ Blocks(c) = {} /\ ~Waiting(c) /\ c \notin lost
  BY <1>1 DEF Asked, Waiting, LostOK, IInv, Sane, InboxOK, Sensible, ReadsDownloads
<1>3. Block(c, block)' = Block(c, block) /\ Ack(block)' = Ack(block)
  BY <1>1 DEF Block, Ack
<1>4. CASE Ask(c)
  <2>1. /\ phase[c] = "idle" /\ phase'[c] = "busy" /\ UNCHANGED link
        /\ ToServer(c, IF job[c].op = "put" THEN Wrq ELSE Rrq)
    BY <1>1, <1>4 DEF Ask, Pending, LostOK
  <2>2. at[c] = 0 /\ Asked(c) = {} /\ Blocks(c) = {} /\ c \notin lost /\ ~Waiting(c)
    BY <2>1 DEF LostOK
  <2>3. Blocks(c)' = {} /\ \A m, n \in Asked(c)' : inbox'[m] = 1 /\ m = n
    BY <1>1, <2>1, <2>2, AskedSent DEF Blocks
  <2>4. Once(c)'
    BY <2>3 DEF Once
  <2> QED
    BY <1>1, <2>1, <2>2, <2>3, <2>4 DEF LostOK
<1>5. CASE GiveUp(c)
  <2>1. /\ phase'[c] = "failed" /\ UNCHANGED <<at, link>> /\ ToServer(c, Error)
    BY <1>1, <1>5 DEF GiveUp
  <2>2. Asked(c)' = Asked(c) /\ \A m \in Asked(c) : inbox'[m] = 1
    BY <1>1, <2>1, AskedSent DEF Error
  <2>3. Blocks(c)' = Blocks(c) /\ Once(c)'
    BY <1>1, <2>1, <2>2 DEF Blocks, Once
  <2> QED
    BY <1>1, <2>1, <2>2, <2>3, LostKept
<1>6. ASSUME NEW p \in BagToSet(link[c]), link' = [link EXCEPT ![c] = BagRemove(@, p)],
             \/ phase[c] = "busy" /\ (HearAck(c, p) \/ HearBlock(c, p) \/ HearError(c, p))
             \/ UNCHANGED <<phase, at, copy, inbox>>
      PROVE  LostOK(c)'
  <2>1. /\ Blocks(c)' \subseteq Blocks(c) /\ \A q \in Blocks(c)' : link'[c][q] = 1
        /\ p.cmd = "DATA" => p \in Blocks(c) /\ Blocks(c)' = Blocks(c) \ {p}
    BY <1>1, <1>6, BlocksHeard
  <2>2. CASE HearError(c, p) \/ UNCHANGED <<phase, at, copy, inbox>>
    <3>1. phase'[c] \in {phase[c], "failed"} /\ UNCHANGED <<at, inbox>>
      BY <1>1, <2>2 DEF HearError
    <3>2. Asked(c)' = Asked(c) /\ Once(c)'
      BY <1>1, <2>1, <3>1 DEF Asked, Once
    <3> QED
      BY <1>1, <2>1, <3>1, <3>2, LostKept
  <2>3. CASE HearAck(c, p) /\ phase[c] = "busy"
    <3>1. /\ job[c].op = "put" /\ phase'[c] \in {"busy", "ok"}
          /\ UNCHANGED inbox \/ \E n : ToServer(c, Block(c, n))
      BY <1>1, <2>3 DEF HearAck
    <3>2. Asked(c) = {} /\ Blocks(c) = {} /\ ~Waiting(c) /\ c \notin lost
      BY <1>2, <3>1
    <3>3. Asked(c)' = {}
      <4>1. \A n : Block(c, n).cmd \notin {"RRQ", "ACK"}
        BY DEF Block
      <4>2. CASE UNCHANGED inbox
        BY <3>2, <4>2 DEF Asked
      <4>3. CASE \E n : ToServer(c, Block(c, n))
        BY <1>1, <3>2, <4>1, <4>3, AskedSent
      <4> QED
        BY <3>1, <4>2, <4>3
    <3>4. Blocks(c)' = {} /\ Once(c)'
      BY <2>1, <3>2, <3>3 DEF Once
    <3> QED
      BY <1>1, <3>1, <3>2, <3>3, <3>4 DEF LostOK
  <2>4. CASE HearBlock(c, p) /\ phase[c] = "busy"
    <3>1. /\ job[c].op = "get" /\ p.cmd = "DATA" /\ p.num = (at[c] + 1) % Wrap
          /\ phase'[c] = IF p.short THEN "ok" ELSE "busy"
          /\ ToServer(c, Ack(at[c] + 1))
      BY <1>1, <2>4 DEF HearBlock
    <3>2. Blocks(c) = {p} /\ Blocks(c)' = {} /\ Asked(c) = {} /\ c \notin lost
      BY <2>1, <3>1 DEF LostOK
    <3>3. \A m, n \in Asked(c)' : inbox'[m] = 1 /\ m = n /\ m.pkt = Ack(at[c] + 1)
      BY <1>1, <3>1, <3>2, AskedSent
    <3>4. Waiting(c) => p = Block(c, block) /\ Ack(at[c] + 1) = Ack(block)
      <4> SUFFICES ASSUME Waiting(c) PROVE p = Block(c, block) /\ Ack(at[c] + 1) = Ack(block)
        OBVIOUS
      <4>1. p = Block(c, block)
        BY <3>2 DEF LostOK
      <4>2. p.num = block % Wrap
        BY <4>1 DEF Block
      <4> QED
        BY <3>1, <4>1, <4>2 DEF Ack
    <3>5. \A n : Ack(n).cmd = "ACK"
      BY DEF Ack
    <3>6. Once(c)'
      BY <3>2, <3>3 DEF Once
    <3>7. phase'[c] # "idle" /\ (phase'[c] = "ok" => p.short)
      BY <3>1
    <3> QED
      BY <1>1, <1>3, <3>1, <3>2, <3>3, <3>4, <3>5, <3>6, <3>7 DEF LostOK
  <2> QED
    BY <1>6, <2>2, <2>3, <2>4
<1>7. CASE Hear(c)
  BY <1>6, <1>7 DEF Hear
<1> QED
  BY <1>4, <1>5, <1>7 DEF ClientStep

\* Nothing has been sent at first.
LEMMA LossesInit == Init => LossesOK
<1> SUFFICES ASSUME Init, NEW c \in Clients PROVE LostOK(c)
  BY DEF LossesOK
<1>1. BagToSet(EmptyBag) = {}
  BY DEF BagToSet, EmptyBag, SetToBag
<1>2. /\ Asked(c) = {} /\ Blocks(c) = {} /\ c \notin lost /\ ~Waiting(c)
      /\ phase[c] = "idle" /\ at[c] = 0
  BY <1>1 DEF Init, Asked, Blocks, Waiting
<1> QED
  BY <1>2 DEF LostOK, Once

\* The steps preserve what is known of the blocks of the clients that repeat nothing.
LEMMA LossesStep == IInv /\ ReadsDownloads /\ LossesOK /\ [Next]_vars => LossesOK'
<1> SUFFICES ASSUME IInv, ReadsDownloads, LossesOK, [Next]_vars,
                    NEW c \in Clients, c \notin mixed', repeats'[c] = 0
             PROVE  LostOK(c)'
  BY DEF LossesOK
<1>1. repeats \in [Clients -> Nat]
  BY DEF IInv, TypeOK
<1>2. ASSUME UNCHANGED <<mixed, repeats>>
      PROVE  LostOK(c)
  BY <1>2 DEF LossesOK
<1>3. ASSUME NEW m, Receive(m)
      PROVE  LostOK(c)'
  <2>1. LostOK(c)
    BY <1>3 DEF Receive, clients, LossesOK
  <2> QED
    BY <1>3, <2>1, LostOther, LostOwn
<1>4. CASE Timeout
  BY <1>2, <1>4, LostTimeout DEF Timeout, clients
<1>5. CASE Lose
  BY <1>2, <1>5, LostLose DEF Lose, server, clients
<1>6. ASSUME NEW d \in Clients, ClientStep(d)
      PROVE  LostOK(c)'
  <2>1. UNCHANGED mixed
    BY <1>6 DEF ClientStep, Ask, Repeat, GiveUp, Hear, server
  <2>2. repeats'[c] = repeats[c] /\ (d = c => ~Repeat(c))
    <3>1. CASE Repeat(d)
      <4>1. repeats' = [repeats EXCEPT ![d] = repeats[d] + 1]
        BY <3>1 DEF Repeat
      <4> QED
        BY <1>1, <4>1
    <3>2. CASE ~Repeat(d)
      BY <1>6, <3>2 DEF ClientStep, Ask, GiveUp, Hear
    <3> QED
      BY <3>1, <3>2
  <2>3. LostOK(c)
    BY <2>1, <2>2 DEF LossesOK
  <2> QED
    BY <1>6, <2>2, <2>3, LostClient, LostOtherClient
<1>7. CASE UNCHANGED vars
  <2>1. /\ UNCHANGED <<mixed, repeats, mode, open, block, job, phase, at, lost, inbox, link>>
    BY <1>7 DEF vars, server, clients
  <2>2. /\ LostOK(c) /\ Asked(c)' = Asked(c) /\ Blocks(c)' = Blocks(c)
        /\ Once(c)' = Once(c) /\ Waiting(c)' = Waiting(c)
    BY <1>2, <2>1 DEF Asked, Blocks, Once, Waiting
  <2>3. Once(c)
    BY <2>2 DEF LostOK
  <2> QED
    BY <2>1, <2>2, <2>3, LostKept
<1> QED
  BY <1>3, <1>4, <1>5, <1>6, <1>7 DEF Next, ServerStep

\* The retries of process_read (lines 158 to 176) never make good for a block that the
\* network lost: a client nobody mixes up that has its file in the end all the same has
\* repeated a datagram itself.
THEOREM LostBlocksNeedClients == Spec => []LostBlockNeedsClient
<1>1. IInv /\ LossesOK => LostBlockNeedsClient
  <2> SUFFICES ASSUME IInv, LossesOK, NEW c \in lost, phase[c] = "ok", c \notin mixed
               PROVE  repeats[c] > 0
    BY DEF LostBlockNeedsClient
  <2>1. c \in Clients /\ repeats[c] \in Nat
    BY DEF IInv, TypeOK
  <2>2. repeats[c] # 0
    BY <2>1 DEF LossesOK, LostOK
  <2> QED
    BY <2>1, <2>2
<1>2. IInv /\ TransfersOK => ReadsDownloads
  BY DEF TransfersOK
<1> QED
  BY <1>1, <1>2, LossesInit, LossesStep, TransfersInvariant, PTL DEF Spec
==============================================================================
