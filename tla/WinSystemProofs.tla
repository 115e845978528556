-------------------------- MODULE WinSystemProofs ---------------------------
(***************************************************************************)
(* Theorems about any number of Windows clients behind any NATs.           *)
(***************************************************************************)
EXTENDS WinSystem, TLAPS

(* The dialog's thread leaves the loop for the acknowledgement in time.    *)
AckLoop == \A u \in Users : dlg[u].gui = "ack" => dlg[u].tries < ACK_TRIES

(* What a datagram under way says about the holes: its sender has opened   *)
(* its own NAT for a P2PPUNCH2, and a P2PPUNCHOK crosses two open holes.   *)
Honest(d) ==
  /\ d.dst = Server => d.src \in Users
  /\ d.id = "P2PSOMEONEWANTTOCALLYOU" => d.name \in Users
  /\ d.id \in {"P2PPUNCH2", "P2PPUNCHOK"} =>
       d.src \in Users /\ d.dst \in Users /\ d.dst \in opened[d.src]
  /\ d.id = "P2PPUNCHOK" => d.src \in opened[d.dst] /\ Accepts(d.src, d.dst)

AllHonest == \A d \in net : Honest(d)

WinInv == WinTypeOK /\ AckLoop /\ AllHonest /\ ConnectMeansReachable

(* No step closes a hole.                                                  *)
Grows == \A u \in Users : opened[u] \subseteq opened'[u]

(* What u may send: P2PPUNCHOK only to a peer that has punched it.         *)
Sendable(u, d) ==
  /\ d \in stCommMsg /\ d.src = u
  /\ d.id # "P2PSOMEONEWANTTOCALLYOU"
  /\ d.id \in {"P2PPUNCH2", "P2PPUNCHOK"} => d.dst \in Users
  /\ d.id = "P2PPUNCHOK" => u \in opened[d.dst] /\ Accepts(u, d.dst)

-----------------------------------------------------------------------------
(* Messages are well formed and have the fields they are made with.        *)
LEMMA MsgType ==
  ASSUME NEW s \in Users \cup {Server}, NEW t \in Users \cup {Server}, NEW i \in Ids,
         NEW n \in Users \cup {None}
  PROVE  /\ Msg(s, t, i, n) \in stCommMsg
         /\ Msg(s, t, i, n).src = s /\ Msg(s, t, i, n).dst = t
         /\ Msg(s, t, i, n).id = i /\ Msg(s, t, i, n).name = n
BY DEF Msg, stCommMsg

LEMMA TextType ==
  ASSUME NEW s \in Users \cup {Server}, NEW t \in Users \cup {Server},
         NEW x \in Texts \cup {None}
  PROVE  /\ Text(s, t, x) \in stCommMsg
         /\ Text(s, t, x).src = s /\ Text(s, t, x).dst = t /\ Text(s, t, x).id = "text"
BY DEF Text, Msg, stCommMsg, Ids

(* A hole stays a hole, and what was honest stays so.                      *)
LEMMA AcceptsGrows ==
  ASSUME opened \in [Users -> SUBSET Users], Grows, NEW u \in Users, NEW v, Accepts(u, v)
  PROVE  Accepts(u, v)'
BY DEF Accepts, Grows

LEMMA HonestGrows ==
  ASSUME opened \in [Users -> SUBSET Users], Grows, NEW d \in stCommMsg, Honest(d)
  PROVE  Honest(d)'
<1>1. d.id = "P2PPUNCHOK" => Accepts(d.src, d.dst)'
  BY AcceptsGrows DEF Honest
<1> QED
  BY <1>1 DEF Honest, Grows

LEMMA ReachableGrows ==
  ASSUME opened \in [Users -> SUBSET Users], Grows, ConnectMeansReachable,
         \A u \in Users : dlg'[u].bConnect => dlg[u].bConnect
  PROVE  ConnectMeansReachable'
<1> SUFFICES ASSUME NEW u \in Users, dlg'[u].bConnect
             PROVE  \E v \in opened'[u] : Accepts(u, v)' /\ Accepts(v, u)'
  BY DEF ConnectMeansReachable
<1>1. PICK v \in opened[u] : Accepts(u, v) /\ Accepts(v, u)
  BY DEF ConnectMeansReachable
<1>2. v \in Users /\ v \in opened'[u]
  BY <1>1 DEF Grows
<1>3. Accepts(u, v)' /\ Accepts(v, u)'
  BY <1>1, <1>2, AcceptsGrows
<1> QED
  BY <1>2, <1>3

(* A client's step that takes and sends datagrams.                         *)
LEMMA SendtoKeeps ==
  ASSUME WinTypeOK, AllHonest, NEW u \in Users, NEW in, NEW out,
         \A d \in out : Sendable(u, d), sendto(u, in, out)
  PROVE  /\ net' \subseteq stCommMsg /\ opened' \in [Users -> SUBSET Users]
         /\ Grows /\ AllHonest'
<1> DEFINE new == {d.dst : d \in out} \ {Server}
<1>1. net \subseteq stCommMsg /\ opened \in [Users -> SUBSET Users]
  BY DEF WinTypeOK
<1>2. new \subseteq Users
  BY DEF Sendable, stCommMsg
<1>3. opened' \in [Users -> SUBSET Users] /\ Grows /\ new \subseteq opened'[u]
  <2>1. opened' = [opened EXCEPT ![u] = @ \cup new]
    BY DEF sendto
  <2> HIDE DEF new
  <2> QED
    BY <1>1, <1>2, <2>1 DEF Grows
<1>4. net' \subseteq stCommMsg
  BY <1>1 DEF sendto, Sendable
<1>5. ASSUME NEW d \in out PROVE Honest(d)'
  <2>1. d.id \in {"P2PPUNCH2", "P2PPUNCHOK"} => d.dst \in opened'[u]
    <3> SUFFICES ASSUME d.id \in {"P2PPUNCH2", "P2PPUNCHOK"} PROVE d.dst \in new
      BY <1>3
    <3> QED
      BY <1>5, WinNetAssumption DEF Sendable, WinNetAssumption
  <2>2. d.id = "P2PPUNCHOK" => u \in opened'[d.dst] /\ Accepts(u, d.dst)'
    BY <1>1, <1>3, <1>5, AcceptsGrows DEF Sendable, Grows
  <2> QED
    BY <1>5, <2>1, <2>2 DEF Sendable, Honest
<1>6. ASSUME NEW d \in net PROVE Honest(d)'
  BY <1>1, <1>3, HonestGrows DEF AllHonest
<1> QED
  BY <1>3, <1>4, <1>5, <1>6 DEF AllHonest, sendto

(* The answers of the server, which opens no hole.                         *)
LEMMA AnswerKeeps ==
  ASSUME WinTypeOK, AllHonest, NEW in, NEW out,
         \A d \in out : /\ d \in stCommMsg /\ d.dst # Server
                        /\ d.id = "P2PSOMEONEWANTTOCALLYOU" => d.name \in Users
                        /\ d.id \notin {"P2PPUNCH2", "P2PPUNCHOK"},
         Answer(in, out)
  PROVE  WinTypeOK' /\ AllHonest'
<1>1. net' \subseteq stCommMsg
  BY DEF WinTypeOK, Answer
<1>2. WinTypeOK'
  BY <1>1 DEF WinTypeOK, Answer
<1>3. ASSUME NEW d \in out PROVE Honest(d)'
  BY <1>3 DEF Honest, Answer, Accepts
<1>4. ASSUME NEW d \in net PROVE Honest(d)'
  BY <1>4 DEF Honest, Answer, Accepts, AllHonest
<1> QED
  BY <1>2, <1>3, <1>4 DEF AllHonest, Answer

(* A server's step keeps the invariant.                                    *)
LEMMA ServerStep ==
  ASSUME WinInv, NEW d \in net, SrvStep(d)
  PROVE  WinInv'
<1> USE DEF WinInv
<1>1. d \in stCommMsg /\ d.dst = Server /\ d.src \in Users /\ d.name \in Users \cup {None}
  BY DEF WinTypeOK, stCommMsg, AllHonest, Honest, SrvStep, SrvList, SrvHole, SrvHaveConnect,
         SrvRelay, SrvIgnore, Served
<1>2. UNCHANGED <<opened, dlg, sent, shown>>
  BY DEF SrvStep, SrvList, SrvHole, SrvHaveConnect, SrvRelay, SrvIgnore, Answer
<1>3. WinTypeOK' /\ AllHonest'
  <2> DEFINE Fits(m) == /\ m \in stCommMsg /\ m.dst # Server
                        /\ m.id = "P2PSOMEONEWANTTOCALLYOU" => m.name \in Users
                        /\ m.id \notin {"P2PPUNCH2", "P2PPUNCHOK"}
  <2>0. Server \notin Users
    BY WinNetAssumption DEF WinNetAssumption
  <2>1. ASSUME NEW v \in Users, NEW n \in Users \cup {None}, NEW i \in Ids,
               i \notin {"P2PSOMEONEWANTTOCALLYOU", "P2PPUNCH2", "P2PPUNCHOK"}
        PROVE  Fits(Msg(Server, v, i, n))
    BY <2>0, <2>1, MsgType
  <2>2. CASE SrvList(d)
    <3>1. /\ Fits(Msg(Server, d.src, "MSG_R_HEART_BEAT", None))
          /\ Fits(Msg(Server, d.src, "MSG_R_GET_PEERS", None))
      BY <1>1, <2>1 DEF Ids
    <3> HIDE DEF Fits
    <3>2. PICK m : Fits(m) /\ Answer({d}, {m})
      BY <2>2, <3>1 DEF SrvList
    <3> QED
      BY <3>2, AnswerKeeps DEF Fits
  <2>3. CASE SrvHole(d)
    <3>1. Fits(Msg(Server, d.src, "MSG_R_HOLE", None))
      BY <1>1, <2>1 DEF Ids
    <3>2. Fits(Refusal(d.src))
      BY <1>1, <2>0 DEF Refusal, stCommMsg, Ids
    <3>3. ASSUME d.name # None
          PROVE  Fits(Msg(Server, d.name, "P2PSOMEONEWANTTOCALLYOU", d.src))
      <4>1. d.name \in Users /\ "P2PSOMEONEWANTTOCALLYOU" \in Ids
        BY <1>1, <3>3 DEF Ids
      <4> QED
        BY <1>1, <2>0, <4>1, MsgType
    <3> HIDE DEF Fits
    <3>4. PICK out : (\A m \in out : Fits(m)) /\ Answer({d}, out)
      BY <2>3, <3>1, <3>2, <3>3 DEF SrvHole
    <3> QED
      BY <3>4, AnswerKeeps DEF Fits
  <2>4. CASE SrvHaveConnect(d)
    <3>1. d.name # None => Fits(Msg(Server, d.name, "P2PCANSTART", d.src))
      BY <1>1, <2>1 DEF Ids
    <3> HIDE DEF Fits
    <3>2. PICK out : (\A m \in out : Fits(m)) /\ Answer({d}, out)
      BY <2>4, <3>1 DEF SrvHaveConnect
    <3> QED
      BY <3>2, AnswerKeeps DEF Fits
  <2>5. CASE SrvRelay(d)
    <3>1. PICK b \in net :
            Answer({d, b}, IF d.name = None THEN {}
                             ELSE {Msg(Server, d.name, "RELAYMESSAGE2", d.src),
                                   Text(Server, d.name, b.text)})
      BY <2>5 DEF SrvRelay
    <3>2. d.name # None => Fits(Msg(Server, d.name, "RELAYMESSAGE2", d.src))
      BY <1>1, <2>1 DEF Ids
    <3>3. b.text \in Texts \cup {None}
      BY DEF WinTypeOK, stCommMsg
    <3>4. d.name # None => Fits(Text(Server, d.name, b.text))
      BY <1>1, <2>0, <3>3, TextType
    <3> HIDE DEF Fits
    <3>5. PICK out : (\A m \in out : Fits(m)) /\ Answer({d, b}, out)
      BY <3>1, <3>2, <3>4
    <3> QED
      BY <3>5, AnswerKeeps DEF Fits
  <2>6. CASE SrvIgnore(d)
    BY <2>6, AnswerKeeps DEF SrvIgnore
  <2> QED
    BY <2>2, <2>3, <2>4, <2>5, <2>6 DEF SrvStep
<1> QED
  BY <1>2, <1>3 DEF AckLoop, ConnectMeansReachable, Accepts

-----------------------------------------------------------------------------
(* The dialogs stay well formed.                                           *)
DialogsOK ==
  /\ dlg \in [Users -> CclientDlg]
  /\ \A u \in Users : dlg[u].clicks <= MaxClicks[u] /\ dlg[u].beats <= MaxBeats[u]
  /\ AckLoop

(* The fields a dialog may have.                                           *)
WellFormed(u, e) ==
  /\ e \in CclientDlg /\ e.clicks <= MaxClicks[u] /\ e.beats <= MaxBeats[u]
  /\ e.gui = "ack" => e.tries < ACK_TRIES

(* A step that changes one dialog.                                         *)
LEMMA DialogKept ==
  ASSUME DialogsOK, NEW u \in Users, NEW e, WellFormed(u, e), dlg' = [dlg EXCEPT ![u] = e]
  PROVE  DialogsOK' /\ \A v \in Users : dlg'[v] = IF v = u THEN e ELSE dlg[v]
<1>1. dlg \in [Users -> CclientDlg] /\ e \in CclientDlg
  BY DEF DialogsOK, WellFormed
<1>2. \A v \in Users : dlg'[v] = IF v = u THEN e ELSE dlg[v]
  BY <1>1
<1>3. dlg' \in [Users -> CclientDlg]
  BY <1>1
<1> QED
  BY <1>2, <1>3 DEF DialogsOK, AckLoop, WellFormed

(* The same, when it does not connect.                                     *)
LEMMA DialogUnconnected ==
  ASSUME DialogsOK, NEW u \in Users, NEW e, WellFormed(u, e), dlg' = [dlg EXCEPT ![u] = e],
         e.bConnect = dlg[u].bConnect
  PROVE  DialogsOK' /\ \A v \in Users : dlg'[v].bConnect => dlg[v].bConnect
<1>1. DialogsOK' /\ \A v \in Users : dlg'[v] = IF v = u THEN e ELSE dlg[v]
  BY DialogKept
<1>2. ASSUME NEW v \in Users PROVE dlg'[v].bConnect = dlg[v].bConnect
  BY <1>1
<1> QED
  BY <1>1, <1>2

(* Before a step the dialog of u is well formed.                           *)
LEMMA DialogBefore ==
  ASSUME DialogsOK, NEW u \in Users
  PROVE  /\ WellFormed(u, dlg[u])
         /\ MaxClicks[u] \in Nat /\ MaxBeats[u] \in Nat /\ ACK_TRIES \in Nat \ {0}
         /\ Targets[u] \subseteq Users \cup {None}
BY WinClientAssumption DEF WinClientAssumption, DialogsOK, AckLoop, WellFormed

(* What a click or a turn of the loop leaves in a dialog is well formed.   *)
LEMMA ClickFields ==
  ASSUME NEW r \in CclientDlg, NEW t \in Users \cup {None}, NEW k \in Nat,
         NEW f \in BOOLEAN, NEW n \in 0..ACK_TRIES, NEW g \in {"idle", "ack"}
  PROVE  /\ [r EXCEPT !.m_strToID = t, !.asked = @ \cup {t}, !.clicks = k] \in CclientDlg
         /\ [r EXCEPT !.m_strToID = t, !.clicks = k] \in CclientDlg
         /\ [r EXCEPT !.m_strToID = t, !.clicks = k, !.RecvedACK = f, !.gui = g, !.tries = n]
              \in CclientDlg
         /\ [r EXCEPT !.tries = n, !.gui = g] \in CclientDlg
BY DEF CclientDlg

(* What the dialog's thread does keeps the dialogs well formed.            *)
LEMMA DialogThread ==
  ASSUME DialogsOK, NEW u \in Users,
         OnClick(u) \/ WaitAck(u) \/ OnTimer(u) \/ thread_heart_proc(u)
  PROVE  DialogsOK' /\ \A v \in Users : dlg'[v].bConnect => dlg[v].bConnect
<1>1. /\ WellFormed(u, dlg[u])
      /\ MaxClicks[u] \in Nat /\ MaxBeats[u] \in Nat /\ ACK_TRIES \in Nat \ {0}
      /\ Targets[u] \subseteq Users \cup {None}
  BY DialogBefore
<1>0. /\ dlg[u] \in CclientDlg /\ dlg[u].clicks + 1 \in Nat /\ 0 \in 0..ACK_TRIES
      /\ FALSE \in BOOLEAN /\ "ack" \in {"idle", "ack"}
      /\ \A t \in Targets[u] : t \in Users \cup {None}
  BY <1>1 DEF WellFormed, CclientDlg
<1>2. CASE OnBnClickedBtnGetUsers(u)
  <2> DEFINE e == [dlg[u] EXCEPT !.clicks = @ + 1]
  <2>1. dlg' = [dlg EXCEPT ![u] = e] /\ dlg[u].clicks < MaxClicks[u]
    BY <1>2 DEF OnBnClickedBtnGetUsers, Clicks
  <2>2. e \in CclientDlg
    BY <1>1, <2>1 DEF WellFormed, CclientDlg
  <2>3. WellFormed(u, e) /\ e.bConnect = dlg[u].bConnect
    BY <1>1, <2>1, <2>2 DEF WellFormed, CclientDlg
  <2> HIDE DEF e
  <2> QED
    BY <2>1, <2>3, DialogUnconnected
<1>3. ASSUME NEW t \in Targets[u], OnBnClickedBtnConnet(u, t)
      PROVE  DialogsOK' /\ \A v \in Users : dlg'[v].bConnect => dlg[v].bConnect
  <2> DEFINE e == [dlg[u] EXCEPT !.m_strToID = t, !.asked = @ \cup {t}, !.clicks = @ + 1]
  <2>1. dlg' = [dlg EXCEPT ![u] = e] /\ dlg[u].clicks < MaxClicks[u]
    BY <1>3 DEF OnBnClickedBtnConnet, Clicks
  <2>2. e \in CclientDlg
    BY <1>0, ClickFields
  <2>3. WellFormed(u, e) /\ e.bConnect = dlg[u].bConnect
    BY <1>1, <2>1, <2>2 DEF WellFormed, CclientDlg
  <2> HIDE DEF e
  <2> QED
    BY <2>1, <2>3, DialogUnconnected
<1>4. ASSUME NEW t \in Targets[u], SendNothing(u, t)
      PROVE  DialogsOK' /\ \A v \in Users : dlg'[v].bConnect => dlg[v].bConnect
  <2> DEFINE e == [dlg[u] EXCEPT !.m_strToID = t, !.clicks = @ + 1]
  <2>1. dlg' = [dlg EXCEPT ![u] = e] /\ dlg[u].clicks < MaxClicks[u]
    BY <1>4 DEF SendNothing, Clicks
  <2>2. e \in CclientDlg
    BY <1>0, ClickFields
  <2>3. WellFormed(u, e) /\ e.bConnect = dlg[u].bConnect
    BY <1>1, <2>1, <2>2 DEF WellFormed, CclientDlg
  <2> HIDE DEF e
  <2> QED
    BY <2>1, <2>3, DialogUnconnected
<1>5. ASSUME NEW t \in Targets[u], NEW x \in Texts, OnBnClickedBtnSend(u, t, x)
      PROVE  DialogsOK' /\ \A v \in Users : dlg'[v].bConnect => dlg[v].bConnect
  <2>1. dlg[u].clicks < MaxClicks[u]
    BY <1>5 DEF OnBnClickedBtnSend, Clicks
  <2>2. CASE dlg' = [dlg EXCEPT ![u].m_strToID = t, ![u].clicks = @ + 1]
    <3> DEFINE e == [dlg[u] EXCEPT !.m_strToID = t, !.clicks = @ + 1]
    <3>1. dlg' = [dlg EXCEPT ![u] = e]
      BY <2>2
    <3>2. e \in CclientDlg
      BY <1>0, ClickFields
    <3>3. WellFormed(u, e) /\ e.bConnect = dlg[u].bConnect
      BY <1>1, <2>1, <3>2 DEF WellFormed, CclientDlg
    <3> HIDE DEF e
    <3> QED
      BY <3>1, <3>3, DialogUnconnected
  <2>3. CASE dlg' = [dlg EXCEPT ![u].m_strToID = t, ![u].clicks = @ + 1,
                       ![u].RecvedACK = FALSE, ![u].gui = "ack", ![u].tries = 0]
    <3> DEFINE e == [dlg[u] EXCEPT !.m_strToID = t, !.clicks = @ + 1,
                        !.RecvedACK = FALSE, !.gui = "ack", !.tries = 0]
    <3>1. dlg' = [dlg EXCEPT ![u] = e]
      BY <2>3
    <3>2. e \in CclientDlg
      BY <1>0, ClickFields
    <3>3. WellFormed(u, e) /\ e.bConnect = dlg[u].bConnect
      BY <1>1, <2>1, <3>2 DEF WellFormed, CclientDlg
    <3> HIDE DEF e
    <3> QED
      BY <3>1, <3>3, DialogUnconnected
  <2>4. CASE dlg' = [dlg EXCEPT ![u].up = FALSE]
    <3> DEFINE e == [dlg[u] EXCEPT !.up = FALSE]
    <3>1. dlg' = [dlg EXCEPT ![u] = e]
      BY <2>4
    <3>2. e \in CclientDlg
      BY <1>1, <2>1 DEF WellFormed, CclientDlg
    <3>3. WellFormed(u, e) /\ e.bConnect = dlg[u].bConnect
      BY <1>1, <2>1, <3>2 DEF WellFormed, CclientDlg
    <3> HIDE DEF e
    <3> QED
      BY <3>1, <3>3, DialogUnconnected
  <2> QED
    BY <1>5, <2>2, <2>3, <2>4 DEF OnBnClickedBtnSend
<1>6. CASE WaitAck(u)
  <2> DEFINE e == [dlg[u] EXCEPT !.tries = IF dlg[u].RecvedACK THEN @ ELSE @ + 1,
        !.gui = IF dlg[u].RecvedACK \/ dlg[u].tries + 1 = ACK_TRIES THEN "idle" ELSE @]
  <2>1. dlg' = [dlg EXCEPT ![u] = e] /\ dlg[u].gui = "ack"
    BY <1>6 DEF WaitAck
  <2>2. e \in CclientDlg
    <3> DEFINE n == IF dlg[u].RecvedACK THEN dlg[u].tries ELSE dlg[u].tries + 1
               g == IF dlg[u].RecvedACK \/ dlg[u].tries + 1 = ACK_TRIES
                      THEN "idle" ELSE dlg[u].gui
    <3>1. n \in 0..ACK_TRIES /\ g \in {"idle", "ack"}
      BY <1>1, <2>1 DEF WellFormed, CclientDlg
    <3> HIDE DEF n, g
    <3>2. [dlg[u] EXCEPT !.tries = n, !.gui = g] \in CclientDlg
      BY <1>0, <3>1, ClickFields
    <3> QED
      BY <3>2 DEF n, g
  <2>3. WellFormed(u, e) /\ e.bConnect = dlg[u].bConnect
    BY <1>1, <2>1, <2>2 DEF WellFormed, CclientDlg
  <2> HIDE DEF e
  <2> QED
    BY <2>1, <2>3, DialogUnconnected
<1>7. CASE OnTimer(u)
  <2> DEFINE e == [dlg[u] EXCEPT !.bRelay = TRUE, !.timer = FALSE]
  <2>1. dlg' = [dlg EXCEPT ![u] = e]
    BY <1>7 DEF OnTimer
  <2>2. e \in CclientDlg
    BY <1>1 DEF WellFormed, CclientDlg
  <2>3. WellFormed(u, e) /\ e.bConnect = dlg[u].bConnect
    BY <1>1, <2>2 DEF WellFormed, CclientDlg
  <2> HIDE DEF e
  <2> QED
    BY <2>1, <2>3, DialogUnconnected
<1>8. CASE thread_heart_proc(u)
  <2> DEFINE e == [dlg[u] EXCEPT !.beats = @ + 1]
  <2>1. dlg' = [dlg EXCEPT ![u] = e] /\ dlg[u].beats < MaxBeats[u]
    BY <1>8 DEF thread_heart_proc
  <2>2. e \in CclientDlg
    BY <1>1, <2>1 DEF WellFormed, CclientDlg
  <2>3. WellFormed(u, e) /\ e.bConnect = dlg[u].bConnect
    BY <1>1, <2>1, <2>2 DEF WellFormed, CclientDlg
  <2> HIDE DEF e
  <2> QED
    BY <2>1, <2>3, DialogUnconnected
<1> QED
  BY <1>2, <1>3, <1>4, <1>5, <1>6, <1>7, <1>8 DEF OnClick

(* What the receive thread does keeps the dialogs well formed, and only    *)
(* P2PPUNCHOK connects.                                                    *)
LEMMA ReceiveThread ==
  ASSUME DialogsOK, net \subseteq stCommMsg, NEW u \in Users,
         \/ FillList(u) \/ HaveConnect(u) \/ RecvTextError(u)
         \/ \E d \in net : thread_recv_proc(u, d)
  PROVE  /\ DialogsOK'
         /\ \A v \in Users : dlg'[v].bConnect =>
              dlg[v].bConnect \/ (v = u /\ \E d \in net : RecvPunchOk(u, d))
<1>1. WellFormed(u, dlg[u])
  BY DialogBefore
<1>2. CASE FillList(u)
  <2> DEFINE e == [dlg[u] EXCEPT !.ClientList = Users, !.recv = "loop"]
  <2>1. dlg' = [dlg EXCEPT ![u] = e]
    BY <1>2 DEF FillList
  <2>2. e \in CclientDlg
    BY <1>1 DEF WellFormed, CclientDlg
  <2>3. WellFormed(u, e) /\ e.bConnect = dlg[u].bConnect
    BY <1>1, <2>2 DEF WellFormed, CclientDlg
  <2> HIDE DEF e
  <2> QED
    BY <2>1, <2>3, DialogUnconnected
<1>3. CASE HaveConnect(u)
  <2> DEFINE e == [dlg[u] EXCEPT !.recv = "loop"]
  <2>1. dlg' = [dlg EXCEPT ![u] = e]
    BY <1>3 DEF HaveConnect
  <2>2. e \in CclientDlg
    BY <1>1 DEF WellFormed, CclientDlg
  <2>3. WellFormed(u, e) /\ e.bConnect = dlg[u].bConnect
    BY <1>1, <2>2 DEF WellFormed, CclientDlg
  <2> HIDE DEF e
  <2> QED
    BY <2>1, <2>3, DialogUnconnected
<1>4. ASSUME NEW d \in net, thread_recv_proc(u, d)
      PROVE  /\ DialogsOK'
             /\ \A v \in Users : dlg'[v].bConnect =>
                  dlg[v].bConnect \/ (v = u /\ RecvPunchOk(u, d))
  <2>1. d.name \in Users \cup {None}
    BY DEF stCommMsg
  <2>2. CASE RecvList(u, d)
    <3> DEFINE e == [dlg[u] EXCEPT !.ClientList = {}, !.recv = "fill"]
    <3>1. dlg' = [dlg EXCEPT ![u] = e]
      BY <2>2 DEF RecvList
    <3>2. e \in CclientDlg
      BY <1>1 DEF WellFormed, CclientDlg
    <3>3. WellFormed(u, e) /\ e.bConnect = dlg[u].bConnect
      BY <1>1, <3>2 DEF WellFormed, CclientDlg
    <3> HIDE DEF e
    <3> QED
      BY <3>1, <3>3, DialogUnconnected
  <2>3. CASE RecvHole(u, d)
    <3> DEFINE e == [dlg[u] EXCEPT !.btnConnect = (d.result = 1)]
    <3>1. dlg' = [dlg EXCEPT ![u] = e]
      BY <2>3 DEF RecvHole
    <3>2. e \in CclientDlg
      BY <1>1 DEF WellFormed, CclientDlg
    <3>3. WellFormed(u, e) /\ e.bConnect = dlg[u].bConnect
      BY <1>1, <3>2 DEF WellFormed, CclientDlg
    <3> HIDE DEF e
    <3> QED
      BY <3>1, <3>3, DialogUnconnected
  <2>4. CASE RecvWantToCall(u, d)
    <3> DEFINE e == [dlg[u] EXCEPT !.recv = "punched"]
    <3>1. dlg' = [dlg EXCEPT ![u] = e]
      BY <2>4 DEF RecvWantToCall
    <3>2. e \in CclientDlg
      BY <1>1 DEF WellFormed, CclientDlg
    <3>3. WellFormed(u, e) /\ e.bConnect = dlg[u].bConnect
      BY <1>1, <3>2 DEF WellFormed, CclientDlg
    <3> HIDE DEF e
    <3> QED
      BY <3>1, <3>3, DialogUnconnected
  <2>5. CASE RecvPunchOk(u, d)
    <3> DEFINE e == [dlg[u] EXCEPT !.bConnect = TRUE]
    <3>1. dlg' = [dlg EXCEPT ![u] = e]
      BY <2>5 DEF RecvPunchOk
    <3>2. e \in CclientDlg
      BY <1>1 DEF WellFormed, CclientDlg
    <3>3. WellFormed(u, e)
      BY <1>1, <3>2 DEF WellFormed, CclientDlg
    <3> HIDE DEF e
    <3>4. DialogsOK' /\ \A v \in Users : dlg'[v] = IF v = u THEN e ELSE dlg[v]
      BY <3>1, <3>3, DialogKept
    <3> QED
      BY <2>5, <3>4
  <2>6. CASE RecvHead(u, d)
    <3> DEFINE e == [dlg[u] EXCEPT !.recv = IF d.id = "P2PMESSAGE" THEN "p2p" ELSE "relay", !.head = d.name]
    <3>1. dlg' = [dlg EXCEPT ![u] = e]
      BY <2>6 DEF RecvHead
    <3>2. e \in CclientDlg
      BY <1>1, <2>1 DEF WellFormed, CclientDlg
    <3>3. WellFormed(u, e) /\ e.bConnect = dlg[u].bConnect
      BY <1>1, <2>1, <3>2 DEF WellFormed, CclientDlg
    <3> HIDE DEF e
    <3> QED
      BY <3>1, <3>3, DialogUnconnected
  <2>7. CASE RecvText(u, d)
    <3> DEFINE e == [dlg[u] EXCEPT !.recv = "loop", !.head = None]
    <3>1. dlg' = [dlg EXCEPT ![u] = e]
      BY <2>7 DEF RecvText
    <3>2. e \in CclientDlg
      BY <1>1 DEF WellFormed, CclientDlg
    <3>3. WellFormed(u, e) /\ e.bConnect = dlg[u].bConnect
      BY <1>1, <3>2 DEF WellFormed, CclientDlg
    <3> HIDE DEF e
    <3> QED
      BY <3>1, <3>3, DialogUnconnected
  <2>8. CASE RecvTextCrash(u, d)
    <3> DEFINE e == [dlg[u] EXCEPT !.up = FALSE]
    <3>1. dlg' = [dlg EXCEPT ![u] = e]
      BY <2>8 DEF RecvTextCrash
    <3>2. e \in CclientDlg
      BY <1>1 DEF WellFormed, CclientDlg
    <3>3. WellFormed(u, e) /\ e.bConnect = dlg[u].bConnect
      BY <1>1, <3>2 DEF WellFormed, CclientDlg
    <3> HIDE DEF e
    <3> QED
      BY <3>1, <3>3, DialogUnconnected
  <2>9. CASE RecvAck(u, d)
    <3> DEFINE e == [dlg[u] EXCEPT !.RecvedACK = TRUE]
    <3>1. dlg' = [dlg EXCEPT ![u] = e]
      BY <2>9 DEF RecvAck
    <3>2. e \in CclientDlg
      BY <1>1 DEF WellFormed, CclientDlg
    <3>3. WellFormed(u, e) /\ e.bConnect = dlg[u].bConnect
      BY <1>1, <3>2 DEF WellFormed, CclientDlg
    <3> HIDE DEF e
    <3> QED
      BY <3>1, <3>3, DialogUnconnected
  <2>10. CASE RecvCanStart(u, d)
    <3>1. CASE dlg' = [dlg EXCEPT ![u].timer = TRUE]
      <4> DEFINE e == [dlg[u] EXCEPT !.timer = TRUE]
      <4>1. dlg' = [dlg EXCEPT ![u] = e]
        BY <3>1
      <4>2. e \in CclientDlg
        BY <1>1 DEF WellFormed, CclientDlg
      <4>3. WellFormed(u, e) /\ e.bConnect = dlg[u].bConnect
        BY <1>1, <4>2 DEF WellFormed, CclientDlg
      <4> HIDE DEF e
      <4> QED
        BY <4>1, <4>3, DialogUnconnected
    <3>2. CASE dlg' = [dlg EXCEPT ![u].up = FALSE]
      <4> DEFINE e == [dlg[u] EXCEPT !.up = FALSE]
      <4>1. dlg' = [dlg EXCEPT ![u] = e]
        BY <3>2
      <4>2. e \in CclientDlg
        BY <1>1 DEF WellFormed, CclientDlg
      <4>3. WellFormed(u, e) /\ e.bConnect = dlg[u].bConnect
        BY <1>1, <4>2 DEF WellFormed, CclientDlg
      <4> HIDE DEF e
      <4> QED
        BY <4>1, <4>3, DialogUnconnected
    <3> QED
      BY <2>10, <3>1, <3>2 DEF RecvCanStart
  <2>11. CASE RecvPunch(u, d) \/ RecvPunch2(u, d) \/ RecvStray(u, d)
    BY <2>11 DEF RecvPunch, RecvPunch2, RecvStray, DialogsOK, AckLoop
  <2> QED
    BY <1>4, <2>2, <2>3, <2>4, <2>5, <2>6, <2>7, <2>8, <2>9, <2>10, <2>11
       DEF thread_recv_proc
<1>5. CASE RecvTextError(u)
  <2>1. CASE dlg' = [dlg EXCEPT ![u].recv = "loop", ![u].head = None]
    <3> DEFINE e == [dlg[u] EXCEPT !.recv = "loop", !.head = None]
    <3>1. dlg' = [dlg EXCEPT ![u] = e]
      BY <2>1
    <3>2. e \in CclientDlg
      BY <1>1 DEF WellFormed, CclientDlg
    <3>3. WellFormed(u, e) /\ e.bConnect = dlg[u].bConnect
      BY <1>1, <3>2 DEF WellFormed, CclientDlg
    <3> HIDE DEF e
    <3> QED
      BY <3>1, <3>3, DialogUnconnected
  <2>2. CASE dlg' = [dlg EXCEPT ![u].up = FALSE]
    <3> DEFINE e == [dlg[u] EXCEPT !.up = FALSE]
    <3>1. dlg' = [dlg EXCEPT ![u] = e]
      BY <2>2
    <3>2. e \in CclientDlg
      BY <1>1 DEF WellFormed, CclientDlg
    <3>3. WellFormed(u, e) /\ e.bConnect = dlg[u].bConnect
      BY <1>1, <3>2 DEF WellFormed, CclientDlg
    <3> HIDE DEF e
    <3> QED
      BY <3>1, <3>3, DialogUnconnected
  <2> QED
    BY <1>5, <2>1, <2>2 DEF RecvTextError
<1> QED
  BY <1>2, <1>3, <1>4, <1>5

-----------------------------------------------------------------------------
(* A client sends only what it may send, whatever button, timer or message *)
(* makes it send.                                                          *)
LEMMA ClientSends ==
  ASSUME WinInv, NEW u \in Users, WinClientNext(u)
  PROVE  /\ net' \subseteq stCommMsg /\ opened' \in [Users -> SUBSET Users]
         /\ Grows /\ AllHonest'
<1> DEFINE Kept == /\ net' \subseteq stCommMsg /\ opened' \in [Users -> SUBSET Users]
                   /\ Grows /\ AllHonest'
<1>0. /\ WinTypeOK /\ AllHonest /\ Server \notin Users
      /\ dlg[u].m_strToID \in Users \cup {None} /\ dlg[u].ClientList \subseteq Users
      /\ Targets[u] \subseteq Users \cup {None}
  BY WinNetAssumption, WinClientAssumption
     DEF WinNetAssumption, WinClientAssumption, WinInv, WinTypeOK, CclientDlg
<1>1. ASSUME NEW in, NEW out, \A d \in out : Sendable(u, d), sendto(u, in, out) PROVE Kept
  BY <1>0, <1>1, SendtoKeeps
<1>2. ASSUME UNCHANGED <<net, opened>> PROVE Kept
  BY <1>0, <1>2 DEF WinTypeOK, Grows, AllHonest, Honest, Accepts
<1>3. ASSUME NEW t \in Users \cup {Server}, NEW i \in Ids, NEW n \in Users \cup {None},
             i \notin {"P2PSOMEONEWANTTOCALLYOU", "P2PPUNCHOK"},
             i = "P2PPUNCH2" => t \in Users
      PROVE  Sendable(u, Msg(u, t, i, n))
  BY <1>3, MsgType DEF Sendable
<1>4. ASSUME NEW t \in Users \cup {Server}, NEW x \in Texts
      PROVE  Sendable(u, Text(u, t, x))
  BY TextType DEF Sendable
<1> HIDE DEF Kept
<1> SUFFICES Kept
  BY DEF Kept
<1>5. CASE OnBnClickedBtnGetUsers(u)
  <2>1. Sendable(u, Msg(u, Server, "MSG_C_GET_PEERS", None))
    BY <1>3 DEF Ids
  <2> QED
    BY <1>1, <1>5, <2>1 DEF OnBnClickedBtnGetUsers
<1>6. ASSUME NEW t \in Targets[u], OnBnClickedBtnConnet(u, t) PROVE Kept
  <2>1. Sendable(u, Msg(u, Server, "MSG_C_HOLE", t))
    BY <1>0, <1>3 DEF Ids
  <2> QED
    BY <1>1, <1>6, <2>1 DEF OnBnClickedBtnConnet
<1>7. ASSUME NEW t \in Targets[u], NEW x \in Texts, OnBnClickedBtnSend(u, t, x) PROVE Kept
  <2>1. /\ Sendable(u, Msg(u, Server, "RELAYMESSAGE", t)) /\ Sendable(u, Text(u, Server, x))
    BY <1>0, <1>3, <1>4 DEF Ids
  <2>2. t \in dlg[u].ClientList =>
          Sendable(u, Msg(u, t, "P2PMESSAGE", u)) /\ Sendable(u, Text(u, t, x))
    BY <1>0, <1>3, <1>4 DEF Ids
  <2>3. CASE sendto(u, {}, {Msg(u, Server, "RELAYMESSAGE", t), Text(u, Server, x)})
    BY <1>1, <2>1, <2>3
  <2>4. CASE sendto(u, {}, IF t \in dlg[u].ClientList
                            THEN {Msg(u, t, "P2PMESSAGE", u), Text(u, t, x)} ELSE {})
    BY <1>1, <2>2, <2>4
  <2> QED
    BY <1>2, <1>7, <2>3, <2>4 DEF OnBnClickedBtnSend
<1>8. CASE thread_heart_proc(u)
  <2>1. Sendable(u, Msg(u, Server, "MSG_C_HEART_BEAT", None))
    BY <1>3 DEF Ids
  <2> QED
    BY <1>1, <1>8, <2>1 DEF thread_heart_proc
<1>9. CASE HaveConnect(u)
  <2>1. Sendable(u, Msg(u, Server, "P2PHAVECONNECT1", dlg[u].m_strToID))
    BY <1>0, <1>3 DEF Ids
  <2> QED
    BY <1>1, <1>9, <2>1 DEF HaveConnect
<1>10. CASE \/ (\E t \in Targets[u] : SendNothing(u, t)) \/ WaitAck(u) \/ OnTimer(u)
            \/ FillList(u) \/ RecvTextError(u)
  BY <1>2, <1>10 DEF SendNothing, WaitAck, OnTimer, FillList, RecvTextError
<1>11. ASSUME NEW d \in net, thread_recv_proc(u, d) PROVE Kept
  <2>1. d \in stCommMsg /\ Honest(d) /\ d.src \in Users \cup {Server}
    BY <1>0 DEF WinTypeOK, AllHonest, stCommMsg
  <2>2. CASE RecvWantToCall(u, d)
    <3>1. Sendable(u, Msg(u, d.name, "P2PPUNCH", None))
      BY <1>3, <2>1, <2>2 DEF RecvWantToCall, Gets, Honest, Ids
    <3> QED
      BY <1>1, <2>2, <3>1 DEF RecvWantToCall
  <2>3. CASE RecvCanStart(u, d)
    <3>1. dlg[u].m_strToID \in dlg[u].ClientList =>
            Sendable(u, Msg(u, dlg[u].m_strToID, "P2PPUNCH2", None))
      BY <1>0, <1>3 DEF Ids
    <3>2. CASE sendto(u, {d}, IF dlg[u].m_strToID \in dlg[u].ClientList
                                THEN {Msg(u, dlg[u].m_strToID, "P2PPUNCH2", None)} ELSE {})
      BY <1>1, <3>1, <3>2
    <3>3. CASE sendto(u, {d}, {})
      BY <1>1, <3>3
    <3> QED
      BY <2>3, <3>2, <3>3 DEF RecvCanStart
  <2>4. CASE RecvPunch2(u, d)
    <3>1. d.dst = u /\ d.src \in Users /\ u \in opened[d.src] /\ Accepts(u, d.src)
      BY <2>1, <2>4 DEF RecvPunch2, Gets, Arrives, Honest
    <3>2. "P2PPUNCHOK" \in Ids
      BY DEF Ids
    <3>3. Sendable(u, Msg(u, d.src, "P2PPUNCHOK", None))
      BY <3>1, <3>2, MsgType DEF Sendable
    <3> QED
      BY <1>1, <2>4, <3>3 DEF RecvPunch2
  <2>5. CASE RecvText(u, d)
    <3>1. Sendable(u, Msg(u, d.src, "P2PMESSAGEACK", None))
      BY <1>3, <2>1 DEF Ids
    <3>2. sendto(u, {d}, IF dlg[u].recv = "p2p"
                           THEN {Msg(u, d.src, "P2PMESSAGEACK", None)} ELSE {})
      BY <2>5 DEF RecvText
    <3> QED
      BY <1>1, <3>1, <3>2
  <2>6. CASE \/ RecvList(u, d) \/ RecvHole(u, d) \/ RecvPunch(u, d) \/ RecvPunchOk(u, d)
             \/ RecvHead(u, d) \/ RecvTextCrash(u, d) \/ RecvAck(u, d) \/ RecvStray(u, d)
    <3>1. sendto(u, {d}, {})
      BY <2>6 DEF RecvList, RecvHole, RecvPunch, RecvPunchOk, RecvHead, RecvTextCrash,
                  RecvAck, RecvStray
    <3> QED
      BY <1>1, <3>1
  <2> QED
    BY <1>11, <2>2, <2>3, <2>4, <2>5, <2>6 DEF thread_recv_proc
<1> QED
  BY <1>5, <1>6, <1>7, <1>8, <1>9, <1>10, <1>11 DEF WinClientNext, OnClick

(* What is said and displayed stays well formed.                           *)
LEMMA ClientHistory ==
  ASSUME WinTypeOK, NEW u \in Users, WinClientNext(u)
  PROVE  sent' \subseteq Said /\ shown' \subseteq Said
<1>1. /\ sent \subseteq Said /\ shown \subseteq Said /\ dlg[u].head \in Users \cup {None}
      /\ Targets[u] \subseteq Users \cup {None}
  BY WinClientAssumption DEF WinClientAssumption, WinTypeOK, CclientDlg
<1>2. CASE UNCHANGED <<sent, shown>>
  BY <1>1, <1>2
<1>3. ASSUME NEW t \in Targets[u], NEW x \in Texts, OnBnClickedBtnSend(u, t, x)
      PROVE  sent' \subseteq Said /\ shown' \subseteq Said
  <2>1. [from |-> u, to |-> t, text |-> x] \in Said
    BY <1>1 DEF Said
  <2> QED
    BY <1>1, <1>3, <2>1 DEF OnBnClickedBtnSend
<1>4. ASSUME NEW d \in net, RecvText(u, d)
      PROVE  sent' \subseteq Said /\ shown' \subseteq Said
  <2>1. [from |-> dlg[u].head, to |-> u, text |-> d.text] \in Said
    BY <1>1 DEF Said, WinTypeOK, stCommMsg
  <2> QED
    BY <1>1, <1>4, <2>1 DEF RecvText
<1> QED
  BY <1>2, <1>3, <1>4
     DEF WinClientNext, OnClick, OnBnClickedBtnGetUsers, OnBnClickedBtnConnet, SendNothing,
         WaitAck, OnTimer, thread_heart_proc, FillList, HaveConnect, thread_recv_proc,
         RecvList, RecvHole, RecvWantToCall, RecvPunch, RecvCanStart, RecvPunch2,
         RecvPunchOk, RecvHead, RecvTextCrash, RecvTextError, RecvAck, RecvStray

(* A client's step keeps the invariant: a P2PPUNCHOK that passes the NAT   *)
(* of u names the peer whose NAT is open for u.                            *)
LEMMA ClientStep ==
  ASSUME WinInv, NEW u \in Users, WinClientNext(u)
  PROVE  WinInv'
<1>1. WinTypeOK /\ AllHonest /\ ConnectMeansReachable /\ DialogsOK
  BY DEF WinInv, DialogsOK, WinTypeOK
<1>2. /\ net' \subseteq stCommMsg /\ opened' \in [Users -> SUBSET Users]
      /\ Grows /\ AllHonest'
  BY ClientSends
<1>3. net \subseteq stCommMsg /\ opened \in [Users -> SUBSET Users]
  BY <1>1 DEF WinTypeOK
<1>4. /\ DialogsOK'
      /\ \A v \in Users : dlg'[v].bConnect =>
           dlg[v].bConnect \/ (v = u /\ \E d \in net : RecvPunchOk(u, d))
  <2>1. CASE OnClick(u) \/ WaitAck(u) \/ OnTimer(u) \/ thread_heart_proc(u)
    BY <1>1, <2>1, DialogThread
  <2>2. CASE \/ FillList(u) \/ HaveConnect(u) \/ RecvTextError(u)
             \/ \E d \in net : thread_recv_proc(u, d)
    BY <1>1, <1>3, <2>2, ReceiveThread
  <2> QED
    BY <2>1, <2>2 DEF WinClientNext
<1>5. WinTypeOK' /\ AckLoop'
  BY <1>1, <1>2, <1>4, ClientHistory DEF WinTypeOK, DialogsOK
<1>6. ConnectMeansReachable'
  <2>1. CASE \A v \in Users : dlg'[v].bConnect => dlg[v].bConnect
    BY <1>1, <1>2, <1>3, <2>1, ReachableGrows
  <2>2. CASE \E d \in net : RecvPunchOk(u, d)
    <3>1. PICK d \in net : RecvPunchOk(u, d)
      BY <2>2
    <3>2. Honest(d) /\ d.id = "P2PPUNCHOK" /\ d.dst = u /\ Accepts(u, d.src)
      BY <1>1, <3>1 DEF AllHonest, RecvPunchOk, Gets, Arrives
    <3>3. d.src \in Users /\ d.src \in opened[u] /\ Accepts(d.src, u)
      BY <3>2 DEF Honest
    <3>4. d.src \in opened'[u] /\ Accepts(u, d.src)' /\ Accepts(d.src, u)'
      BY <1>2, <1>3, <3>2, <3>3, AcceptsGrows DEF Grows
    <3>5. ASSUME NEW v \in Users, dlg'[v].bConnect
          PROVE  \E w \in opened'[v] : Accepts(v, w)' /\ Accepts(w, v)'
      <4>1. CASE v = u
        BY <3>4, <4>1
      <4>2. CASE dlg[v].bConnect
        <5>1. PICK w \in opened[v] : Accepts(v, w) /\ Accepts(w, v)
          BY <1>1, <4>2 DEF ConnectMeansReachable
        <5>2. w \in Users /\ w \in opened'[v]
          BY <1>2, <1>3, <5>1 DEF Grows
        <5> QED
          BY <1>2, <1>3, <5>1, <5>2, AcceptsGrows
      <4> QED
        BY <1>4, <3>5, <4>1, <4>2
    <3> QED
      BY <3>5 DEF ConnectMeansReachable
  <2> QED
    BY <1>4, <2>1, <2>2
<1> QED
  BY <1>2, <1>5, <1>6 DEF WinInv

(* The invariant holds of every behaviour.                                 *)
THEOREM WinInvariant == WinSpec => []WinInv
<1>1. WinInit => WinInv
  <2> SUFFICES ASSUME WinInit PROVE WinInv
    OBVIOUS
  <2>1. PICK list \in [Users -> Lists], to \in [Users -> Users \cup {None}] :
          dlg = [u \in Users |->
            [ up |-> TRUE, gui |-> "idle", tries |-> 0, recv |-> "loop", head |-> None,
              ClientList |-> list[u], m_strToID |-> to[u], btnConnect |-> TRUE,
              bConnect |-> FALSE, bRelay |-> FALSE, timer |-> FALSE, RecvedACK |-> FALSE,
              asked |-> {}, clicks |-> 0, beats |-> 0 ]]
    BY DEF WinInit
  <2>2. dlg \in [Users -> CclientDlg]
    BY <2>1, WinClientAssumption DEF WinClientAssumption, CclientDlg
  <2>3. WinTypeOK
    BY <2>1, <2>2, WinClientAssumption DEF WinClientAssumption, WinInit, WinTypeOK
  <2>4. AckLoop /\ AllHonest /\ ConnectMeansReachable
    BY <2>1 DEF WinInit, AckLoop, AllHonest, ConnectMeansReachable
  <2> QED
    BY <2>3, <2>4 DEF WinInv
<1>2. WinInv /\ [WinNext]_wvars => WinInv'
  <2> SUFFICES ASSUME WinInv, [WinNext]_wvars PROVE WinInv'
    OBVIOUS
  <2>1. CASE \E u \in Users : WinClientNext(u)
    BY <2>1, ClientStep
  <2>2. CASE \E d \in net : SrvStep(d)
    BY <2>2, ServerStep
  <2>3. CASE (NatDrop \/ (Lossy /\ NetLose)) /\ UNCHANGED <<dlg, sent, shown>>
    <3>1. net' \subseteq net /\ UNCHANGED <<opened, dlg, sent, shown>>
      BY <2>3 DEF NatDrop, NetLose
    <3> QED
      BY <3>1 DEF WinInv, WinTypeOK, AckLoop, AllHonest, Honest, ConnectMeansReachable, Accepts
  <2>4. CASE UNCHANGED wvars
    BY <2>4 DEF wvars, WinInv, WinTypeOK, AckLoop, AllHonest, Honest, ConnectMeansReachable,
                Accepts
  <2> QED
    BY <2>1, <2>2, <2>3, <2>4 DEF WinNext
<1> QED
  BY <1>1, <1>2, PTL DEF WinSpec

(* The state of the Windows clients and of what they have under way stays  *)
(* well formed: the acknowledgement loop polls at most ACK_TRIES times.    *)
THEOREM WinTypeCorrect == WinSpec => []WinTypeOK
BY WinInvariant, PTL DEF WinInv

(* A client that reports a P2P connection (bConnect) has a peer it reaches *)
(* and that reaches it, for any users, NATs, losses and crossing calls.    *)
THEOREM ConnectReachable == WinSpec => []ConnectMeansReachable
BY WinInvariant, PTL DEF WinInv

-----------------------------------------------------------------------------
(* Calls and texts: what a step of a client or of the server adds to the   *)
(* network, and what it does to the dialog.                                *)

(* A client calls for itself, reports the name in its field, and sends a   *)
(* head and a text to the user it is for, or to the server.                *)
Sends(u, e) ==
  /\ e.src = u
  /\ e.id \notin {"P2PSOMEONEWANTTOCALLYOU", "P2PCANSTART", "RELAYMESSAGE2"}
  /\ e.id = "MSG_C_HOLE" => e.name \in dlg'[u].asked
  /\ e.id = "P2PHAVECONNECT1" => dlg[u].recv = "punched" /\ e.name = dlg[u].m_strToID
  /\ e.id = "P2PMESSAGE" => e.name = u /\ WroteTo(u, e.dst)'
  /\ e.id = "RELAYMESSAGE" => WroteTo(u, e.name)'
  /\ e.text # None =>
       \E m \in sent' : m.from = u /\ m.text = e.text /\ e.dst \in {m.to, Server}

(* The fields of what is sent.                                             *)
LEMMA Fields ==
  ASSUME NEW s, NEW t, NEW i, NEW n, NEW x
  PROVE  /\ Msg(s, t, i, n).src = s /\ Msg(s, t, i, n).dst = t /\ Msg(s, t, i, n).id = i
         /\ Msg(s, t, i, n).name = n /\ Msg(s, t, i, n).text = None
         /\ Text(s, t, x).src = s /\ Text(s, t, x).dst = t /\ Text(s, t, x).id = "text"
         /\ Text(s, t, x).text = x
BY DEF Msg, Text

(* Every client's step sends only that.                                    *)
LEMMA ClientAdds ==
  ASSUME WinTypeOK, NEW u \in Users, WinClientNext(u), NEW e \in net' \ net
  PROVE  Sends(u, e)
<1> USE DEF Sends
<1>0. dlg \in [Users -> CclientDlg] /\ dlg[u] \in CclientDlg
  BY DEF WinTypeOK
<1>1. CASE OnBnClickedBtnGetUsers(u)
  <2>1. e = Msg(u, Server, "MSG_C_GET_PEERS", None)
    BY <1>1 DEF OnBnClickedBtnGetUsers, sendto
  <2> QED
    BY <2>1, Fields
<1>2. ASSUME NEW t \in Targets[u], OnBnClickedBtnConnet(u, t) PROVE Sends(u, e)
  <2>1. e = Msg(u, Server, "MSG_C_HOLE", t)
    BY <1>2 DEF OnBnClickedBtnConnet, sendto
  <2>2. dlg' = [dlg EXCEPT ![u] = [dlg[u] EXCEPT !.m_strToID = t, !.asked = dlg[u].asked \cup {t},
                                                 !.clicks = dlg[u].clicks + 1]]
    BY <1>2 DEF OnBnClickedBtnConnet
  <2>3. t \in dlg'[u].asked
    BY <1>0, <2>2 DEF CclientDlg
  <2> QED
    BY <2>1, <2>3, Fields
<1>3. ASSUME NEW t \in Targets[u], NEW x \in Texts, OnBnClickedBtnSend(u, t, x)
      PROVE  Sends(u, e)
  <2>1. \/ e = Msg(u, Server, "RELAYMESSAGE", t) \/ e = Text(u, Server, x)
        \/ e = Msg(u, t, "P2PMESSAGE", u) \/ e = Text(u, t, x)
    BY <1>3 DEF OnBnClickedBtnSend, sendto
  <2>2. \E m \in sent' : m.from = u /\ m.to = t /\ m.text = x
    <3>1. [from |-> u, to |-> t, text |-> x] \in sent'
      BY <1>3 DEF OnBnClickedBtnSend
    <3> QED
      BY <3>1
  <2>3. CASE e = Msg(u, Server, "RELAYMESSAGE", t) \/ e = Msg(u, t, "P2PMESSAGE", u)
    <3>1. WroteTo(u, t)'
      BY <2>2 DEF WroteTo
    <3> QED
      BY <2>3, <3>1, Fields
  <2>4. CASE e = Text(u, Server, x) \/ e = Text(u, t, x)
    BY <2>2, <2>4, Fields
  <2> QED
    BY <2>1, <2>3, <2>4
<1>4. CASE thread_heart_proc(u)
  <2>1. e = Msg(u, Server, "MSG_C_HEART_BEAT", None)
    BY <1>4 DEF thread_heart_proc, sendto
  <2> QED
    BY <2>1, Fields
<1>5. CASE HaveConnect(u)
  <2>1. e = Msg(u, Server, "P2PHAVECONNECT1", dlg[u].m_strToID) /\ dlg[u].recv = "punched"
    BY <1>5 DEF HaveConnect, sendto
  <2> QED
    BY <2>1, Fields
<1>6. CASE \/ (\E t \in Targets[u] : SendNothing(u, t)) \/ WaitAck(u) \/ OnTimer(u)
           \/ FillList(u) \/ RecvTextError(u)
  BY <1>6 DEF SendNothing, WaitAck, OnTimer, FillList, RecvTextError
<1>7. ASSUME NEW d \in net, thread_recv_proc(u, d) PROVE Sends(u, e)
  <2>1. CASE RecvWantToCall(u, d)
    <3>1. e = Msg(u, d.name, "P2PPUNCH", None)
      BY <2>1 DEF RecvWantToCall, sendto
    <3> QED
      BY <3>1, Fields
  <2>2. CASE RecvCanStart(u, d)
    <3>1. e = Msg(u, dlg[u].m_strToID, "P2PPUNCH2", None)
      BY <2>2 DEF RecvCanStart, sendto
    <3> QED
      BY <3>1, Fields
  <2>3. CASE RecvPunch2(u, d)
    <3>1. e = Msg(u, d.src, "P2PPUNCHOK", None)
      BY <2>3 DEF RecvPunch2, sendto
    <3> QED
      BY <3>1, Fields
  <2>4. CASE RecvText(u, d)
    <3>1. e = Msg(u, d.src, "P2PMESSAGEACK", None)
      BY <2>4 DEF RecvText, sendto
    <3> QED
      BY <3>1, Fields
  <2>5. CASE \/ RecvList(u, d) \/ RecvHole(u, d) \/ RecvPunch(u, d) \/ RecvPunchOk(u, d)
             \/ RecvHead(u, d) \/ RecvTextCrash(u, d) \/ RecvAck(u, d) \/ RecvStray(u, d)
    BY <2>5 DEF RecvList, RecvHole, RecvPunch, RecvPunchOk, RecvHead, RecvTextCrash,
                RecvAck, RecvStray, sendto
  <2> QED
    BY <1>7, <2>1, <2>2, <2>3, <2>4, <2>5 DEF thread_recv_proc
<1> QED
  BY <1>1, <1>2, <1>3, <1>4, <1>5, <1>6, <1>7 DEF WinClientNext, OnClick

(* The answers of the server to d.                                         *)
Answers(d, e) ==
  /\ e.src = Server /\ d.dst = Server
  /\ e.id \notin {"MSG_C_HOLE", "P2PHAVECONNECT1", "P2PMESSAGE", "RELAYMESSAGE"}
  /\ e.id = "P2PSOMEONEWANTTOCALLYOU" =>
       d.id = "MSG_C_HOLE" /\ d.name # None /\ e.name = d.src /\ e.dst = d.name
  /\ e.id = "P2PCANSTART" =>
       d.id = "P2PHAVECONNECT1" /\ d.name # None /\ e.name = d.src /\ e.dst = d.name
  /\ e.id = "RELAYMESSAGE2" =>
       d.id = "RELAYMESSAGE" /\ d.name # None /\ e.name = d.src /\ e.dst = d.name
  /\ e.text # None =>
       /\ d.id = "RELAYMESSAGE" /\ d.name # None /\ e.dst = d.name
       /\ \E b \in net : b.dst = Server /\ b.src = d.src /\ b.text = e.text

(* Every server's step sends only that.                                    *)
LEMMA ServerSends ==
  ASSUME NEW d \in net, SrvStep(d), NEW e \in net' \ net
  PROVE  Answers(d, e)
<1> USE DEF Answers
<1>1. CASE SrvList(d)
  <2>1. /\ d.dst = Server
        /\ \/ e = Msg(Server, d.src, "MSG_R_HEART_BEAT", None)
           \/ e = Msg(Server, d.src, "MSG_R_GET_PEERS", None)
    BY <1>1 DEF SrvList, Answer, Served
  <2> QED
    BY <2>1, Fields
<1>2. CASE SrvHole(d)
  <2>1. /\ d.dst = Server /\ d.id = "MSG_C_HOLE"
        /\ \/ e = Refusal(d.src)
           \/ e = Msg(Server, d.src, "MSG_R_HOLE", None)
           \/ d.name # None /\ e = Msg(Server, d.name, "P2PSOMEONEWANTTOCALLYOU", d.src)
    BY <1>2 DEF SrvHole, Answer, Served
  <2>2. CASE e = Refusal(d.src)
    BY <2>1, <2>2 DEF Refusal
  <2> QED
    BY <2>1, <2>2, Fields
<1>3. CASE SrvHaveConnect(d)
  <2>1. /\ d.dst = Server /\ d.id = "P2PHAVECONNECT1" /\ d.name # None
        /\ e = Msg(Server, d.name, "P2PCANSTART", d.src)
    BY <1>3 DEF SrvHaveConnect, Answer, Served
  <2> QED
    BY <2>1, Fields
<1>4. CASE SrvRelay(d)
  <2>1. PICK b \in net :
          /\ b.dst = Server /\ b.src = d.src /\ d.name # None
          /\ \/ e = Msg(Server, d.name, "RELAYMESSAGE2", d.src)
             \/ e = Text(Server, d.name, b.text)
    BY <1>4 DEF SrvRelay, Answer, Served
  <2>2. d.dst = Server /\ d.id = "RELAYMESSAGE"
    BY <1>4 DEF SrvRelay, Served
  <2>3. CASE e = Msg(Server, d.name, "RELAYMESSAGE2", d.src)
    BY <2>1, <2>2, <2>3, Fields
  <2>4. CASE e = Text(Server, d.name, b.text)
    BY <2>1, <2>2, <2>4, Fields
  <2> QED
    BY <2>1, <2>3, <2>4
<1>5. CASE SrvIgnore(d)
  BY <1>5 DEF SrvIgnore, Answer
<1> QED
  BY <1>1, <1>2, <1>3, <1>4, <1>5 DEF SrvStep

(* The fields change only as the buttons and the messages say.             *)
LEMMA ClientTurns ==
  ASSUME WinTypeOK, NEW u \in Users, WinClientNext(u)
  PROVE  /\ \A v \in Users : v # u => dlg'[v] = dlg[v]
         /\ dlg[u].asked \subseteq dlg'[u].asked
         /\ dlg'[u].recv = "punched" =>
              \/ dlg[u].recv = "punched"
              \/ \E d \in net : d.id = "P2PSOMEONEWANTTOCALLYOU" /\ RecvWantToCall(u, d)
         /\ dlg'[u].recv \in {"p2p", "relay"} =>
              \/ dlg[u].recv = dlg'[u].recv /\ dlg'[u].head = dlg[u].head
              \/ \E d \in net : /\ d.id \in {"P2PMESSAGE", "RELAYMESSAGE2"} /\ d.dst = u
                                /\ dlg'[u].head = d.name
<1> DEFINE Old == dlg[u]
           Goal == /\ \A v \in Users : v # u => dlg'[v] = dlg[v]
                   /\ Old.asked \subseteq dlg'[u].asked
                   /\ dlg'[u].recv = "punched" =>
                        \/ Old.recv = "punched"
                        \/ \E d \in net :
                             d.id = "P2PSOMEONEWANTTOCALLYOU" /\ RecvWantToCall(u, d)
                   /\ dlg'[u].recv \in {"p2p", "relay"} =>
                        \/ Old.recv = dlg'[u].recv /\ dlg'[u].head = Old.head
                        \/ \E d \in net :
                             /\ d.id \in {"P2PMESSAGE", "RELAYMESSAGE2"} /\ d.dst = u
                             /\ dlg'[u].head = d.name
<1> SUFFICES Goal
  OBVIOUS
<1>0. dlg \in [Users -> CclientDlg] /\ dlg[u] \in CclientDlg
  BY DEF WinTypeOK
<1>1. ASSUME NEW t \in Targets[u], OnBnClickedBtnConnet(u, t) PROVE Goal
  BY <1>0, <1>1 DEF OnBnClickedBtnConnet, CclientDlg
<1>2. CASE OnBnClickedBtnGetUsers(u)
  BY <1>0, <1>2 DEF OnBnClickedBtnGetUsers, CclientDlg
<1>3. ASSUME NEW t \in Targets[u], SendNothing(u, t) PROVE Goal
  BY <1>0, <1>3 DEF SendNothing, CclientDlg
<1>4. ASSUME NEW t \in Targets[u], NEW x \in Texts, OnBnClickedBtnSend(u, t, x) PROVE Goal
  <2>1. CASE dlg' = [dlg EXCEPT ![u].m_strToID = t, ![u].clicks = @ + 1]
    BY <1>0, <2>1 DEF CclientDlg
  <2>2. CASE dlg' = [dlg EXCEPT ![u].m_strToID = t, ![u].clicks = @ + 1,
                                ![u].RecvedACK = FALSE, ![u].gui = "ack", ![u].tries = 0]
    BY <1>0, <2>2 DEF CclientDlg
  <2>3. CASE dlg' = [dlg EXCEPT ![u].up = FALSE]
    BY <1>0, <2>3 DEF CclientDlg
  <2> HIDE DEF Goal
  <2> QED
    BY <1>4, <2>1, <2>2, <2>3 DEF OnBnClickedBtnSend
<1>5. CASE WaitAck(u)
  BY <1>0, <1>5 DEF WaitAck, CclientDlg
<1>6. CASE OnTimer(u) \/ thread_heart_proc(u) \/ FillList(u) \/ HaveConnect(u)
  BY <1>0, <1>6 DEF OnTimer, thread_heart_proc, FillList, HaveConnect, CclientDlg
<1>8. CASE RecvTextError(u)
  BY <1>0, <1>8 DEF RecvTextError, CclientDlg
<1>7. ASSUME NEW d \in net, thread_recv_proc(u, d) PROVE Goal
  <2>1. CASE RecvWantToCall(u, d)
    BY <1>0, <2>1 DEF RecvWantToCall, Gets, Arrives, CclientDlg
  <2>2. CASE RecvHead(u, d)
    BY <1>0, <2>2 DEF RecvHead, Gets, Arrives, CclientDlg
  <2>3. CASE RecvList(u, d) \/ RecvHole(u, d) \/ RecvCanStart(u, d)
    BY <1>0, <2>3 DEF RecvList, RecvHole, RecvCanStart, CclientDlg
  <2>4. CASE RecvPunchOk(u, d) \/ RecvText(u, d) \/ RecvTextCrash(u, d) \/ RecvAck(u, d)
    BY <1>0, <2>4 DEF RecvPunchOk, RecvText, RecvTextCrash, RecvAck, CclientDlg
  <2>5. CASE RecvPunch(u, d) \/ RecvPunch2(u, d) \/ RecvStray(u, d)
    BY <1>0, <2>5 DEF RecvPunch, RecvPunch2, RecvStray
  <2> QED
    BY <1>7, <2>1, <2>2, <2>3, <2>4, <2>5 DEF thread_recv_proc
<1> HIDE DEF Goal
<1> QED
  BY <1>1, <1>2, <1>3, <1>4, <1>5, <1>6, <1>7, <1>8 DEF WinClientNext, OnClick

-----------------------------------------------------------------------------
(* Somebody asked for u, and u has opened its NAT for him.                 *)
Punched(u) == \E w \in opened[u] : u \in dlg[w].asked

(* What the messages of a call say: who calls has asked, who reports has   *)
(* punched.                                                                *)
Asks(d) ==
  /\ d.id = "MSG_C_HOLE" => d.src \in Users /\ d.name \in dlg[d.src].asked
  /\ d.id = "P2PSOMEONEWANTTOCALLYOU" => d.name \in Users /\ d.dst \in dlg[d.name].asked
  /\ d.id = "P2PHAVECONNECT1" => d.src \in Users /\ Punched(d.src)
  /\ d.id = "P2PCANSTART" => d.name \in Users /\ Punched(d.name)

AllAsk == \A d \in net : Asks(d)

(* A client between punch and report has punched.                          *)
Punchers == \A u \in Users : dlg[u].recv = "punched" => Punched(u)

CallInv == AllAsk /\ Punchers

(* Nobody takes back what it asked for or closes a hole.                   *)
LEMMA PunchedGrows ==
  ASSUME opened \in [Users -> SUBSET Users], Grows,
         \A v \in Users : dlg[v].asked \subseteq dlg'[v].asked,
         NEW u \in Users, Punched(u)
  PROVE  Punched(u)'
BY DEF Punched, Grows

LEMMA AsksGrows ==
  ASSUME opened \in [Users -> SUBSET Users], Grows,
         \A v \in Users : dlg[v].asked \subseteq dlg'[v].asked, NEW d, Asks(d)
  PROVE  Asks(d)'
<1>1. d.id = "P2PHAVECONNECT1" => d.src \in Users /\ Punched(d.src)'
  BY PunchedGrows DEF Asks
<1>2. d.id = "P2PCANSTART" => d.name \in Users /\ Punched(d.name)'
  BY PunchedGrows DEF Asks
<1> QED
  BY <1>1, <1>2 DEF Asks

(* A client's step keeps CallInv: it sends the punch, which opens its NAT, *)
(* and only then the report.                                               *)
LEMMA CallClient ==
  ASSUME WinInv, CallInv, NEW u \in Users, WinClientNext(u)
  PROVE  CallInv'
<1>1. WinTypeOK /\ opened \in [Users -> SUBSET Users] /\ Grows
  BY ClientSends DEF WinInv, WinTypeOK
<1>2. /\ \A v \in Users : v # u => dlg'[v] = dlg[v]
      /\ dlg[u].asked \subseteq dlg'[u].asked
      /\ dlg'[u].recv = "punched" =>
           \/ dlg[u].recv = "punched"
           \/ \E d \in net : d.id = "P2PSOMEONEWANTTOCALLYOU" /\ RecvWantToCall(u, d)
  BY <1>1, ClientTurns
<1>3. \A v \in Users : dlg[v].asked \subseteq dlg'[v].asked
  BY <1>2
<1>4. ASSUME NEW e \in net' PROVE Asks(e)'
  <2>1. CASE e \in net
    BY <1>1, <1>3, <2>1, AsksGrows DEF CallInv, AllAsk
  <2>2. CASE e \notin net
    <3>1. Sends(u, e)
      BY <1>1, <2>2, ClientAdds
    <3>2. e.id = "P2PHAVECONNECT1" => Punched(u)'
      BY <1>1, <1>3, <3>1, PunchedGrows DEF Sends, CallInv, Punchers
    <3> QED
      BY <3>1, <3>2 DEF Sends, Asks
  <2> QED
    BY <2>1, <2>2
<1>5. ASSUME NEW v \in Users, dlg'[v].recv = "punched" PROVE Punched(v)'
  <2>1. CASE dlg[v].recv = "punched"
    BY <1>1, <1>3, <2>1, PunchedGrows DEF CallInv, Punchers
  <2>2. ASSUME v = u, NEW d \in net, d.id = "P2PSOMEONEWANTTOCALLYOU", RecvWantToCall(u, d)
        PROVE  Punched(v)'
    <3>1. d.dst = u /\ d.name \in Users /\ u \in dlg[d.name].asked
      BY <2>2 DEF RecvWantToCall, Gets, Arrives, CallInv, AllAsk, Asks
    <3>2. d.name \in opened'[u]
      <4>1. d.name # Server
        BY <3>1, WinNetAssumption DEF WinNetAssumption
      <4>2. d.name \in {e.dst : e \in {Msg(u, d.name, "P2PPUNCH", None)}} \ {Server}
        BY <4>1, Fields
      <4>3. sendto(u, {d}, {Msg(u, d.name, "P2PPUNCH", None)})
        BY <2>2 DEF RecvWantToCall
      <4> QED
        BY <1>1, <4>2, <4>3 DEF sendto
    <3>3. u \in dlg'[d.name].asked
      BY <1>3, <3>1
    <3> QED
      BY <2>2, <3>2, <3>3 DEF Punched
  <2> QED
    BY <1>2, <1>5, <2>1, <2>2
<1> QED
  BY <1>4, <1>5 DEF CallInv, AllAsk, Punchers

(* CallInv is inductive.                                                   *)
LEMMA CallStep ==
  ASSUME WinInv, CallInv, [WinNext]_wvars
  PROVE  CallInv'
<1>1. CASE \E u \in Users : WinClientNext(u)
  BY <1>1, CallClient
<1>2. ASSUME NEW d \in net, SrvStep(d) PROVE CallInv'
  <2>1. UNCHANGED <<dlg, opened>>
    BY <1>2 DEF SrvStep, SrvList, SrvHole, SrvHaveConnect, SrvRelay, SrvIgnore, Answer
  <2>2. d.name \in Users \cup {None}
    BY DEF WinInv, WinTypeOK, stCommMsg
  <2>3. ASSUME NEW e \in net' \ net PROVE Asks(e)'
    <3>1. Answers(d, e) /\ Asks(d)
      BY <1>2, ServerSends DEF CallInv, AllAsk
    <3> QED
      BY <2>1, <2>2, <3>1 DEF Answers, Asks, Punched
  <2> QED
    BY <2>1, <2>3 DEF CallInv, AllAsk, Asks, Punchers, Punched
<1>3. CASE net' \subseteq net /\ UNCHANGED <<dlg, opened>>
  BY <1>3 DEF CallInv, AllAsk, Asks, Punchers, Punched
<1> QED
  BY <1>1, <1>2, <1>3 DEF WinNext, NatDrop, NetLose, wvars

(* StartAfterPunch: for any users, whatever names they enter and however   *)
(* their calls cross, P2PCANSTART names a user who has opened its NAT for  *)
(* somebody who asked for it (line 507 comes after the punch).             *)
THEOREM StartFollowsPunch == WinSpec => []StartAfterPunch
<1>1. WinInit => CallInv
  <2> SUFFICES ASSUME WinInit PROVE CallInv
    OBVIOUS
  <2>1. AllAsk
    BY DEF WinInit, AllAsk
  <2>2. PICK list \in [Users -> Lists], to \in [Users -> Users \cup {None}] :
          dlg = [u \in Users |->
               [ up |-> TRUE, gui |-> "idle", tries |-> 0, recv |-> "loop", head |-> None,
                 ClientList |-> list[u], m_strToID |-> to[u], btnConnect |-> TRUE,
                 bConnect |-> FALSE, bRelay |-> FALSE, timer |-> FALSE, RecvedACK |-> FALSE,
                 asked |-> {}, clicks |-> 0, beats |-> 0 ]]
    BY DEF WinInit
  <2>3. Punchers
    BY <2>2 DEF Punchers
  <2> QED
    BY <2>1, <2>3 DEF CallInv
<1>2. WinInv /\ CallInv /\ [WinNext]_wvars => CallInv'
  BY CallStep
<1>3. CallInv => StartAfterPunch
  BY DEF CallInv, AllAsk, Asks, Punched, StartAfterPunch
<1> QED
  BY <1>1, <1>2, <1>3, WinInvariant, PTL DEF WinSpec

-----------------------------------------------------------------------------
(* Somebody who wrote to v said x.                                         *)
ToldTo(v, x) == \E m \in sent : m.text = x /\ WroteTo(m.from, v)

(* What a datagram says of the text it carries or announces: a head names  *)
(* one who wrote to the user it is for, and a text is by such a one.       *)
Speaks(d) ==
  /\ d.text # None =>
       /\ d.dst # Server => ToldTo(d.dst, d.text)
       /\ d.dst = Server => \E m \in sent : m.from = d.src /\ m.text = d.text
  /\ d.id \in {"P2PMESSAGE", "RELAYMESSAGE2"} => WroteTo(d.name, d.dst)
  /\ d.id = "RELAYMESSAGE" => WroteTo(d.src, d.name)

AllSpeak == \A d \in net : Speaks(d)

Heads == \A u \in Users : dlg[u].recv \in {"p2p", "relay"} => WroteTo(dlg[u].head, u)

ChatInv == AllSpeak /\ Heads /\ ShownWasWritten

(* Nothing that was said is forgotten.                                     *)
LEMMA WroteGrows ==
  ASSUME sent \subseteq sent'
  PROVE  /\ \A u, v : WroteTo(u, v) => WroteTo(u, v)'
         /\ \A v, x : ToldTo(v, x) => ToldTo(v, x)'
<1>1. \A u, v : WroteTo(u, v) => WroteTo(u, v)'
  BY DEF WroteTo
<1>2. ASSUME NEW v, NEW x, ToldTo(v, x) PROVE ToldTo(v, x)'
  <2>1. PICK m \in sent : m.text = x /\ WroteTo(m.from, v)
    BY <1>2 DEF ToldTo
  <2>2. m \in sent' /\ WroteTo(m.from, v)'
    BY <1>1, <2>1
  <2> QED
    BY <2>1, <2>2 DEF ToldTo
<1> QED
  BY <1>1, <1>2

LEMMA SpeaksGrows ==
  ASSUME sent \subseteq sent', NEW d, Speaks(d)
  PROVE  Speaks(d)'
BY WroteGrows DEF Speaks

(* Only OnBnClickedBtnSend says something, only RecvText displays.         *)
LEMMA OnlySendSays ==
  ASSUME NEW u \in Users, WinClientNext(u)
  PROVE  /\ sent \subseteq sent'
         /\ shown' # shown => \E d \in net : RecvText(u, d)
BY DEF WinClientNext, OnClick, OnBnClickedBtnGetUsers, OnBnClickedBtnConnet, SendNothing,
       OnBnClickedBtnSend, WaitAck, OnTimer, thread_heart_proc, FillList, HaveConnect,
       RecvTextError, thread_recv_proc, RecvList, RecvHole, RecvWantToCall, RecvPunch,
       RecvCanStart, RecvPunch2, RecvPunchOk, RecvHead, RecvText, RecvTextCrash, RecvAck,
       RecvStray

(* A client's step keeps ChatInv: whatever datagram is taken for a text,   *)
(* its author and the one the head names wrote to the user it is for.      *)
LEMMA ChatClient ==
  ASSUME WinInv, ChatInv, NEW u \in Users, WinClientNext(u)
  PROVE  ChatInv'
<1>1. WinTypeOK /\ sent \subseteq sent' /\ Server \notin Users
  BY OnlySendSays, WinNetAssumption DEF WinInv, WinNetAssumption
<1>2. /\ \A v, w : WroteTo(v, w) => WroteTo(v, w)'
      /\ \A v, x : ToldTo(v, x) => ToldTo(v, x)'
  BY <1>1, WroteGrows
<1>3. ASSUME NEW e \in net' PROVE Speaks(e)'
  <2>1. CASE e \in net
    BY <1>1, <2>1, SpeaksGrows DEF ChatInv, AllSpeak
  <2>2. CASE e \notin net
    <3>1. Sends(u, e)
      BY <1>1, <2>2, ClientAdds
    <3>2. ASSUME e.text # None
          PROVE  /\ e.dst # Server => ToldTo(e.dst, e.text)'
                 /\ e.dst = Server => \E m \in sent' : m.from = e.src /\ m.text = e.text
      <4>1. PICK m \in sent' : m.from = u /\ m.text = e.text /\ e.dst \in {m.to, Server}
        BY <3>1, <3>2 DEF Sends
      <4>2. WroteTo(u, m.to)'
        BY <4>1 DEF WroteTo
      <4> QED
        BY <3>1, <4>1, <4>2 DEF Sends, ToldTo
    <3> QED
      BY <3>1, <3>2 DEF Sends, Speaks
  <2> QED
    BY <2>1, <2>2
<1>4. ASSUME NEW v \in Users, dlg'[v].recv \in {"p2p", "relay"}
      PROVE  WroteTo(dlg[v].head, v)'
  <2>1. CASE v # u
    <3>1. dlg'[v] = dlg[v]
      BY <1>1, <2>1, ClientTurns
    <3> QED
      BY <1>2, <1>4, <3>1 DEF ChatInv, Heads
  <2>2. CASE v = u
    <3>1. \/ dlg[u].recv = dlg'[u].recv /\ dlg'[u].head = dlg[u].head
          \/ \E d \in net : /\ d.id \in {"P2PMESSAGE", "RELAYMESSAGE2"} /\ d.dst = u
                            /\ dlg'[u].head = d.name
      BY <1>1, <1>4, <2>2, ClientTurns
    <3> QED
      BY <1>2, <1>4, <2>2, <3>1 DEF ChatInv, Heads, AllSpeak, Speaks
  <2> QED
    BY <2>1, <2>2
<1>5. ASSUME NEW s \in shown'
      PROVE  WroteTo(s.from, s.to)' /\ (s.text # None => ToldTo(s.to, s.text)')
  <2>1. CASE s \in shown
    BY <1>2, <2>1 DEF ChatInv, ShownWasWritten, ToldTo
  <2>2. CASE s \notin shown
    <3>1. PICK d \in net : RecvText(u, d)
      BY <1>5, <2>2, OnlySendSays
    <3>2. s = [from |-> dlg[u].head, to |-> u, text |-> d.text]
      BY <1>5, <2>2, <3>1 DEF RecvText
    <3>3. s.from = dlg[u].head /\ s.to = u /\ s.text = d.text
      BY <3>2
    <3>4. d.dst = u /\ u # Server /\ WroteTo(dlg[u].head, u)
      BY <1>1, <3>1 DEF RecvText, Arrives, ChatInv, Heads
    <3>5. d.text # None => ToldTo(u, d.text)
      BY <3>4 DEF ChatInv, AllSpeak, Speaks
    <3> QED
      BY <1>2, <3>3, <3>4, <3>5
  <2> QED
    BY <2>1, <2>2
<1> QED
  BY <1>3, <1>4, <1>5 DEF ChatInv, AllSpeak, Heads, ShownWasWritten, ToldTo

(* ChatInv is inductive.                                                   *)
LEMMA ChatStep ==
  ASSUME WinInv, ChatInv, [WinNext]_wvars
  PROVE  ChatInv'
<1>1. CASE \E u \in Users : WinClientNext(u)
  BY <1>1, ChatClient
<1>2. ASSUME NEW d \in net, SrvStep(d) PROVE ChatInv'
  <2>1. UNCHANGED <<dlg, sent, shown>>
    BY <1>2 DEF SrvStep, SrvList, SrvHole, SrvHaveConnect, SrvRelay, SrvIgnore, Answer
  <2>2. d.name \in Users \cup {None} /\ Server \notin Users
    BY WinNetAssumption DEF WinInv, WinTypeOK, stCommMsg, WinNetAssumption
  <2>3. ASSUME NEW e \in net' \ net PROVE Speaks(e)
    <3>1. Answers(d, e) /\ Speaks(d)
      BY <1>2, ServerSends DEF ChatInv, AllSpeak
    <3>2. ASSUME e.text # None
          PROVE  e.dst # Server /\ ToldTo(e.dst, e.text)
      <4>1. e.dst = d.name /\ d.name \in Users /\ WroteTo(d.src, d.name)
        BY <2>2, <3>1, <3>2 DEF Answers, Speaks
      <4>2. PICK b \in net : b.dst = Server /\ b.src = d.src /\ b.text = e.text
        BY <3>1, <3>2 DEF Answers
      <4>3. PICK m \in sent : m.from = d.src /\ m.text = e.text
        BY <3>2, <4>2 DEF ChatInv, AllSpeak, Speaks
      <4> QED
        BY <2>2, <4>1, <4>3 DEF ToldTo
    <3> QED
      BY <3>1, <3>2 DEF Answers, Speaks
  <2> QED
    BY <2>1, <2>3 DEF ChatInv, AllSpeak, Speaks, ToldTo, WroteTo, Heads, ShownWasWritten
<1>3. CASE net' \subseteq net /\ UNCHANGED <<dlg, sent, shown>>
  BY <1>3 DEF ChatInv, AllSpeak, Speaks, ToldTo, WroteTo, Heads, ShownWasWritten
<1> QED
  BY <1>1, <1>2, <1>3 DEF WinNext, NatDrop, NetLose, wvars

(* ShownWasWritten: for any number of users, of senders and of texts,      *)
(* directly or by the server, whatever is lost, overtakes or is taken for  *)
(* a text, a text is displayed under the name of one who wrote to its      *)
(* reader, and it was said by one who did.                                 *)
THEOREM TextsWereWritten == WinSpec => []ShownWasWritten
<1>1. WinInit => ChatInv
  <2> SUFFICES ASSUME WinInit PROVE ChatInv
    OBVIOUS
  <2>1. PICK list \in [Users -> Lists], to \in [Users -> Users \cup {None}] :
          dlg = [u \in Users |->
               [ up |-> TRUE, gui |-> "idle", tries |-> 0, recv |-> "loop", head |-> None,
                 ClientList |-> list[u], m_strToID |-> to[u], btnConnect |-> TRUE,
                 bConnect |-> FALSE, bRelay |-> FALSE, timer |-> FALSE, RecvedACK |-> FALSE,
                 asked |-> {}, clicks |-> 0, beats |-> 0 ]]
    BY DEF WinInit
  <2>2. \A u \in Users : dlg[u].recv = "loop"
    BY <2>1
  <2> QED
    BY <2>2 DEF WinInit, ChatInv, AllSpeak, Heads, ShownWasWritten
<1>2. WinInv /\ ChatInv /\ [WinNext]_wvars => ChatInv'
  BY ChatStep
<1>3. ChatInv => ShownWasWritten
  BY DEF ChatInv
<1> QED
  BY <1>1, <1>2, <1>3, WinInvariant, PTL DEF WinSpec

=============================================================================
