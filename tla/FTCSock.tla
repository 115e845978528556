------------------------------ MODULE FTCSock -------------------------------
(***************************************************************************)
(* The socket layer (FTCSock.c) under the receive loop of P2PSrvProc:      *)
(* create a non-blocking UDP socket, poll it with FTC_SelectRead, read one *)
(* datagram with FTC_Recvfrom2 into stMsg, handle it, and answer with      *)
(* FTC_Sendto2.  Both transfer functions repeat the system call as long as *)
(* it returns -1, whatever the error.  The handler of RELAYMESSAGE reads   *)
(* the next datagram itself, as the body of the message; the handler of    *)
(* MSG_C_GET_PEERS leaves the loop.  What the handlers do to the database  *)
(* is in P2PServer.                                                        *)
(*                                                                         *)
(* The kernel is external: a bounded queue of datagrams.  One with a bad   *)
(* checksum makes the socket readable and is dropped only when it is read. *)
(* A datagram is its number; its length is that of a T_Msg (full), of the  *)
(* head alone, or zero.  stMsg keeps the bytes a short one does not cover. *)
(***************************************************************************)
EXTENDS Naturals, Sequences

CONSTANTS
  Capacity,        \* datagrams the kernel queues
  SendErrors,      \* how sendto fails: transient, permanent
  MaxArrivals      \* bound on the datagrams that arrive

Lengths == {"full", "head", "empty"}

ASSUME SockAssumption ==
  /\ Capacity \in Nat \ {0} /\ MaxArrivals \in Nat
  /\ SendErrors \subseteq {"transient", "permanent"}

VARIABLES
  fd,          \* the descriptor: open or closed
  pc,          \* where the thread is
  queue,       \* the kernel's queue
  stMsg,       \* from which datagram its head and its body come; 0: none
  fromAddr,    \* the sender's, named by its datagram
  arrived,     \* datagrams so far
  accepted,    \* history: the intact datagrams queued, with their length
  handled      \* history: what the handler saw

socketvars == <<fd, pc, queue, stMsg, fromAddr, arrived, accepted, handled>>

PCs == {"socket", "bind", "nonblock", "select", "recv", "handle",
        "relay", "body",       \* the nested read of RELAYMESSAGE, and after it
        "send", "refused", "ended", "exit"}

(* What a datagram is read for.                                            *)
Uses == {"request", "relay", "body"}


SockInit ==
  /\ fd = "closed" /\ pc = "socket" /\ queue = <<>>
  /\ stMsg = [head |-> 0, body |-> 0] /\ fromAddr = 0
  /\ arrived = 0 /\ accepted = <<>> /\ handled = <<>>

-----------------------------------------------------------------------------
(* FTC_CreateUdpSock: the caller returns from main() if it fails.          *)

Socket ==
  /\ pc = "socket"
  /\ \/ fd' = "open" /\ pc' = "bind"
     \/ fd' = fd /\ pc' = "exit"
  /\ UNCHANGED <<queue, stMsg, fromAddr, arrived, accepted, handled>>

(* Mutant: a socket that cannot be bound is left open.                     *)
BindLeaks ==
  /\ pc = "bind" /\ pc' \in {"nonblock", "exit"}
  /\ UNCHANGED <<fd, queue, stMsg, fromAddr, arrived, accepted, handled>>

(* Each step may fail, and the socket is closed then.                      *)
Bind ==
  /\ pc = "bind"
  /\ \/ pc' = "nonblock" /\ fd' = fd
     \/ pc' = "exit" /\ fd' = "closed"
  /\ UNCHANGED <<queue, stMsg, fromAddr, arrived, accepted, handled>>

SetNonblock ==
  /\ pc = "nonblock"
  /\ \/ pc' = "select" /\ fd' = fd
     \/ pc' = "exit" /\ fd' = "closed"
  /\ UNCHANGED <<queue, stMsg, fromAddr, arrived, accepted, handled>>

-----------------------------------------------------------------------------
(* External: datagrams arrive once the socket is bound; a full queue drops *)
(* them.                                                                   *)

Bound == fd = "open" /\ pc # "bind"

Arrive(len, intact) ==
  /\ Bound /\ arrived < MaxArrivals /\ arrived' = arrived + 1
  /\ IF Len(queue) < Capacity
       THEN /\ queue' = Append(queue, [n |-> arrived', len |-> len, intact |-> intact])
            /\ accepted' = IF intact THEN Append(accepted, [n |-> arrived', len |-> len])
                                     ELSE accepted
       ELSE UNCHANGED <<queue, accepted>>
  /\ UNCHANGED <<fd, pc, stMsg, fromAddr, handled>>

-----------------------------------------------------------------------------
(* FTC_SelectRead with a timeout of 0                                      *)

(* Mutant: the number of descriptors is returned instead of 0.             *)
SelectReadyOne ==
  /\ pc = "select" /\ queue # <<>>
  /\ UNCHANGED socketvars

SelectReady ==
  /\ pc = "select" /\ queue # <<>> /\ pc' = "recv"
  /\ UNCHANGED <<fd, queue, stMsg, fromAddr, arrived, accepted, handled>>

(* Nothing to read, or a signal: the loop goes round.                      *)
SelectAgain == pc = "select" /\ UNCHANGED socketvars

-----------------------------------------------------------------------------
(* FTC_Recvfrom2                                                           *)

(* Mutant: an error is returned as the length 0.                           *)
RecvAgainReturns ==
  /\ pc = "recv" /\ pc' = "handle"
  /\ UNCHANGED <<fd, queue, stMsg, fromAddr, arrived, accepted, handled>>

(* Any error, such as EAGAIN or EINTR: once more.                          *)
RecvAgain == pc \in {"recv", "relay"} /\ UNCHANGED socketvars

(* The checksum is wrong: the datagram is gone, and recvfrom returns -1 if *)
(* there is no other.                                                      *)
RecvCorrupt ==
  /\ pc \in {"recv", "relay"} /\ queue # <<>> /\ ~queue[1].intact
  /\ queue' = Tail(queue)
  /\ UNCHANGED <<fd, pc, stMsg, fromAddr, arrived, accepted, handled>>

(* Mutant: the size given to recvfrom is that of the head.                 *)
StoreHead(m, d) == [m EXCEPT !.head = IF d.len = "empty" THEN @ ELSE d.n]

(* The bytes of m after d is read over them.                               *)
Store(m, d) ==
  [head |-> IF d.len = "empty" THEN m.head ELSE d.n,
   body |-> IF d.len = "full" THEN d.n ELSE m.body]

(* The first datagram of the queue is read.                                *)
Takes ==
  /\ queue # <<>> /\ queue[1].intact
  /\ queue' = Tail(queue) /\ fromAddr' = queue[1].n

RecvOk ==
  /\ pc = "recv" /\ Takes /\ stMsg' = Store(stMsg, queue[1]) /\ pc' = "handle"
  /\ UNCHANGED <<fd, arrived, accepted, handled>>

(* The call within the handler of RELAYMESSAGE: into a buffer of its own,  *)
(* and over fromAddr.                                                      *)
RecvBody ==
  /\ pc = "relay" /\ Takes /\ pc' = "body"
  /\ UNCHANGED <<fd, stMsg, arrived, accepted, handled>>

-----------------------------------------------------------------------------
Sees(as) ==
  handled' = Append(handled, [head |-> stMsg.head, body |-> stMsg.body, from |-> fromAddr, as |-> as])

(* Answer or not, an address that may be refused for good; or crash.       *)
Answers ==
  \/ pc' \in {"select", "send"} /\ fd' = fd
  \/ "permanent" \in SendErrors /\ pc' = "refused" /\ fd' = fd
  \/ pc' = "exit" /\ fd' = "closed"

(* The switch sees stMsg and fromAddr, whatever the length was.            *)
Handle ==
  /\ pc = "handle" /\ Sees("request") /\ Answers
  /\ UNCHANGED <<queue, stMsg, fromAddr, arrived, accepted>>

(* MSG_C_GET_PEERS: the query fails, and return -1 ends the thread.  The   *)
(* socket stays open with nobody to read it.                               *)
HandleGetPeers ==
  /\ pc = "handle" /\ Sees("request") /\ pc' = "ended"
  /\ UNCHANGED <<fd, queue, stMsg, fromAddr, arrived, accepted>>

(* RELAYMESSAGE: the handler goes on to read the body, with no select.     *)
HandleRelay ==
  /\ pc = "handle" /\ Sees("relay") /\ pc' = "relay"
  /\ UNCHANGED <<fd, queue, stMsg, fromAddr, arrived, accepted>>

(* The body, whatever datagram that is, is forwarded or not; recv - 1 may  *)
(* lie outside the buffer of uiSendLen bytes.                              *)
HandleBody ==
  /\ pc = "body" /\ Sees("body") /\ Answers
  /\ UNCHANGED <<queue, stMsg, fromAddr, arrived, accepted>>

(* FTC_Sendto2                                                             *)
SendOk ==
  /\ pc = "send" /\ pc' = "select"
  /\ UNCHANGED <<fd, queue, stMsg, fromAddr, arrived, accepted, handled>>

SendAgain ==
  /\ pc = "refused" \/ (pc = "send" /\ "transient" \in SendErrors)
  /\ UNCHANGED socketvars

SockNext ==
  \/ Socket \/ Bind \/ SetNonblock
  \/ \E len \in Lengths, intact \in BOOLEAN : Arrive(len, intact)
  \/ SelectReady \/ SelectAgain
  \/ RecvAgain \/ RecvCorrupt \/ RecvOk \/ RecvBody
  \/ Handle \/ HandleGetPeers \/ HandleRelay \/ HandleBody
  \/ SendOk \/ SendAgain

SockSpec == SockInit /\ [][SockNext]_socketvars

(* The thread runs.  A transient error does not come back for ever.        *)
SockFairSpec ==
  /\ SockSpec
  /\ WF_socketvars(Socket \/ Bind \/ SetNonblock) /\ WF_socketvars(SelectReady)
  /\ WF_socketvars(RecvCorrupt) /\ WF_socketvars(RecvOk) /\ WF_socketvars(RecvBody)
  /\ WF_socketvars(Handle) /\ WF_socketvars(HandleBody) /\ WF_socketvars(SendOk)

-----------------------------------------------------------------------------
(* Properties                                                              *)

Numbers == 0..MaxArrivals

SockTypeOK ==
  /\ fd \in {"open", "closed"} /\ pc \in PCs
  /\ queue \in Seq([n : Numbers, len : Lengths, intact : BOOLEAN]) /\ Len(queue) <= Capacity
  /\ stMsg \in [head : Numbers, body : Numbers] /\ fromAddr \in Numbers
  /\ arrived \in Numbers
  /\ accepted \in Seq([n : Numbers, len : Lengths])
  /\ handled \in Seq([head : Numbers, body : Numbers, from : Numbers, as : Uses])
  /\ pc = "exit" => fd = "closed"

Given == [i \in DOMAIN handled |-> [d |-> handled[i].from, as |-> handled[i].as]]
Numbered == [i \in DOMAIN accepted |-> accepted[i].n]

Queue == INSTANCE DatagramQueue WITH accepted <- Numbered, given <- Given

(* Errors, spurious readiness and dropped datagrams do not show: the       *)
(* datagrams the socket accepted are read once each, in order, with the    *)
(* address of their sender, and the switch runs for each of them but the   *)
(* one that follows a RELAYMESSAGE, which is its body.                     *)
HandsOver == Queue!QSpec

(* A whole T_Msg is handled as it was sent, whatever short or empty        *)
(* datagram came before, and whatever a relay read in between; only a      *)
(* short one is completed with old bytes.                                  *)
WholeIsWhole ==
  \A i \in DOMAIN handled :
    i \in DOMAIN accepted /\ accepted[i].len = "full" /\ handled[i].as # "body" =>
      handled[i].head = accepted[i].n /\ handled[i].body = accepted[i].n

(* Every datagram accepted is read in the end, by the loop or as the body  *)
(* of a relayed message, unless sendto fails for good, the process is gone *)
(* or MSG_C_GET_PEERS has ended the thread: no other retry, and no wait    *)
(* for a body, holds the thread for ever.                                  *)
AllHandled ==
  \A k \in 1..MaxArrivals :
    Len(accepted) >= k ~> Len(handled) >= k \/ pc \in {"refused", "exit", "ended"}

=============================================================================
