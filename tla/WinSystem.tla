----------------------------- MODULE WinSystem ------------------------------
(***************************************************************************)
(* Windows clients that reach each other through NATs with the help of a   *)
(* server.  The server they were written for, which speaks stCommMsg, is   *)
(* not in the repository: its answers are modelled from how the clients    *)
(* use them.                                                               *)
(***************************************************************************)
EXTENDS WinClient

CONSTANT Lossy     \* may the network lose a datagram

ASSUME WinSystemAssumption == Lossy \in BOOLEAN

-----------------------------------------------------------------------------
(* The server (external).                                                  *)

Served(d, i) == d \in net /\ d.dst = Server /\ d.id = i

Answer(in, out) ==
  net' = (net \ in) \cup out /\ UNCHANGED <<opened, dlg, sent, shown>>

SrvList(d) ==
  \/ /\ Served(d, "MSG_C_HEART_BEAT")
     /\ Answer({d}, {Msg(Server, d.src, "MSG_R_HEART_BEAT", None)})
  \/ /\ Served(d, "MSG_C_GET_PEERS")
     /\ Answer({d}, {Msg(Server, d.src, "MSG_R_GET_PEERS", None)})

(* The answer to a call of a user nobody knows.                            *)
Refusal(u) ==
  [src |-> Server, dst |-> u, id |-> "MSG_R_HOLE", name |-> None, result |-> 1, text |-> None]

SrvHole(d) ==
  /\ Served(d, "MSG_C_HOLE")
  /\ Answer({d},
       IF d.name = None
         THEN {Refusal(d.src)}
         ELSE {Msg(Server, d.src, "MSG_R_HOLE", None),
               Msg(Server, d.name, "P2PSOMEONEWANTTOCALLYOU", d.src)})

SrvHaveConnect(d) ==
  /\ Served(d, "P2PHAVECONNECT1")
  /\ Answer({d}, IF d.name = None THEN {}
                   ELSE {Msg(Server, d.name, "P2PCANSTART", d.src)})

SrvRelay(d) ==
  /\ Served(d, "RELAYMESSAGE")
  /\ \E b \in net :
       /\ Served(b, "text") /\ b.src = d.src
       /\ Answer({d, b},
            IF d.name = None THEN {}
              ELSE {Msg(Server, d.name, "RELAYMESSAGE2", d.src),
                    Text(Server, d.name, b.text)})

SrvIgnore(d) == Served(d, "P2PMESSAGEACK") /\ Answer({d}, {})

SrvStep(d) == SrvList(d) \/ SrvHole(d) \/ SrvHaveConnect(d) \/ SrvRelay(d) \/ SrvIgnore(d)

-----------------------------------------------------------------------------

WinNext ==
  \/ \E u \in Users : WinClientNext(u)
  \/ \E d \in net : SrvStep(d)
  \/ (NatDrop \/ (Lossy /\ NetLose)) /\ UNCHANGED <<dlg, sent, shown>>

WinSpec == WinInit /\ [][WinNext]_wvars

(* Every thread and the server go on while they have something to do, and  *)
(* the timer fires.                                                        *)
WinFairSpec ==
  /\ WinSpec
  /\ \A u \in Users :
       /\ WF_wvars(OnTimer(u)) /\ WF_wvars(WaitAck(u))
       /\ WF_wvars(FillList(u) \/ HaveConnect(u) \/ \E d \in net : thread_recv_proc(u, d))
  /\ WF_wvars(\E d \in net : SrvStep(d))

-----------------------------------------------------------------------------

WinTypeOK ==
  /\ net \subseteq stCommMsg
  /\ opened \in [Users -> SUBSET Users]
  /\ dlg \in [Users -> CclientDlg]
  /\ \A u \in Users : dlg[u].clicks <= MaxClicks[u] /\ dlg[u].beats <= MaxBeats[u]
  /\ sent \subseteq Said /\ shown \subseteq Said

(* "has setup P2P connect!" is true: a client with bConnect has a peer to  *)
(* whom its datagrams and whose datagrams to it pass both NATs, however    *)
(* late, lost or crossing the messages of one or several hole punches.     *)
ConnectMeansReachable ==
  \A u \in Users : dlg[u].bConnect =>
    \E v \in opened[u] : Accepts(u, v) /\ Accepts(v, u)

(* A user who connects to a user who has entered that user's name in turn  *)
(* ends up connected or in relay mode, whatever the NATs (unless a client  *)
(* crashes).                                                               *)
ConnectSettles ==
  \A u, v \in Users :
    (Msg(u, Server, "MSG_C_HOLE", v) \in net /\ dlg[v].m_strToID = u)
      ~> (dlg[u].bConnect \/ dlg[u].bRelay \/ \E w \in Users : ~dlg[w].up)

(* P2PCANSTART goes to the requesting end, as p2ptype.h has it: to a user  *)
(* who has asked to be connected to the user it names.                     *)
CanStartReachesCaller ==
  \A d \in net : d.id = "P2PCANSTART" => d.name \in dlg[d.dst].asked

(* Whoever is told to start, the user P2PCANSTART names has been asked for *)
(* by somebody and has opened its NAT for that user before it reported so: *)
(* however calls of several users cross, no start precedes its punch.      *)
StartAfterPunch ==
  \A d \in net : d.id = "P2PCANSTART" =>
    \E w \in opened[d.name] : d.name \in dlg[w].asked

(* u has said something to v.                                              *)
WroteTo(u, v) == \E m \in sent : m.from = u /\ m.to = v

(* A text is displayed only under the name of a user who wrote to the user *)
(* who reads it, and it was said by one who did: although a client takes   *)
(* any datagram for the text of the last head (line 388), whoever sent it, *)
(* nobody is quoted to a user he did not write to.                         *)
ShownWasWritten ==
  \A s \in shown :
    /\ WroteTo(s.from, s.to)
    /\ s.text # None => \E m \in sent : m.text = s.text /\ WroteTo(m.from, s.to)

=============================================================================
