----------------------------- MODULE WinClient ------------------------------
(***************************************************************************)
(* The Windows client (clientDlg.cpp) while it is logged in: the dialog's  *)
(* thread runs the buttons and the timer, thread_recv_proc handles what    *)
(* arrives, thread_heart_proc asks for the list of users.  They share the  *)
(* fields of the dialog without a lock.                                    *)
(*                                                                         *)
(* A handler of the receive thread that touches a control sends a message  *)
(* to the dialog's thread and waits for it: it completes only while that   *)
(* thread is idle.  GetLocalUser of a name that is not in ClientList runs  *)
(* off its end: the client crashes or uses a garbage address.              *)
(***************************************************************************)
EXTENDS WinNet

CONSTANTS Buttons,      \* the buttons users press
          Targets,      \* the names each user may enter as peer
          Lists,        \* the lists of users that a login may have been answered with
          ACK_TRIES,    \* polls of RecvedACK, 10 in the code
          MaxClicks,    \* bound on the clicks of each user
          MaxBeats      \* bound on the heartbeats of each user

ASSUME WinClientAssumption ==
  /\ Buttons \subseteq {"connect", "get", "send"}
  /\ Targets \in [Users -> SUBSET (Users \cup {None})] /\ Lists \subseteq SUBSET Users
  /\ ACK_TRIES \in Nat \ {0} /\ MaxClicks \in [Users -> Nat] /\ MaxBeats \in [Users -> Nat]

VARIABLES
  dlg,      \* the dialog of each user
  sent,     \* history: the texts users said, and to whom
  shown     \* history: the texts clients displayed, and under whose name

wvars == <<net, opened, dlg, sent, shown>>

CclientDlg ==
  [ up : BOOLEAN,                       \* the process has not crashed
    gui : {"idle", "ack"},              \* is the dialog's thread in the ACK loop
    tries : 0..ACK_TRIES,
    recv : {"loop", "fill", "punched",  \* within a handler (fill, punched), or
            "p2p", "relay"},            \* waiting for the text of a head
    head : Users \cup {None},           \* the name in that head
    ClientList : SUBSET Users,
    m_strToID : Users \cup {None},
    btnConnect : BOOLEAN,               \* is IDC_BTN_CONNET enabled
    bConnect : BOOLEAN, bRelay : BOOLEAN,
    timer : BOOLEAN, RecvedACK : BOOLEAN,
    asked : SUBSET (Users \cup {None}), \* history: whom it asked to be connected to
    clicks : Nat, beats : Nat ]

Said == [from : Users \cup {None}, to : Users \cup {None}, text : Texts \cup {None}]

(* Every user has logged in, with some peer in the edit field, and has got *)
(* some list of users, itself among them, with the answer.                 *)
WinInit ==
  /\ net = {} /\ opened = [u \in Users |-> {}] /\ sent = {} /\ shown = {}
  /\ \E list \in [Users -> Lists], to \in [Users -> Users \cup {None}] :
       /\ \A u \in Users : u \in list[u] /\ to[u] \in Targets[u]
       /\ dlg = [u \in Users |->
         [ up |-> TRUE, gui |-> "idle", tries |-> 0, recv |-> "loop", head |-> None,
           ClientList |-> list[u], m_strToID |-> to[u], btnConnect |-> TRUE,
           bConnect |-> FALSE, bRelay |-> FALSE, timer |-> FALSE, RecvedACK |-> FALSE,
           asked |-> {}, clicks |-> 0, beats |-> 0 ]]

-----------------------------------------------------------------------------
(* The dialog's thread.                                                    *)

Clicks(u, b) ==
  /\ b \in Buttons /\ dlg[u].up /\ dlg[u].gui = "idle" /\ dlg[u].clicks < MaxClicks[u]

(* t is what UpdateData reads from the edit field.                         *)
OnBnClickedBtnConnet(u, t) ==
  /\ Clicks(u, "connect") /\ dlg[u].btnConnect
  /\ dlg' = [dlg EXCEPT ![u].m_strToID = t, ![u].asked = @ \cup {t}, ![u].clicks = @ + 1]
  /\ sendto(u, {}, {Msg(u, Server, "MSG_C_HOLE", t)})
  /\ UNCHANGED <<sent, shown>>

OnBnClickedBtnGetUsers(u) ==
  /\ Clicks(u, "get")
  /\ dlg' = [dlg EXCEPT ![u].clicks = @ + 1]
  /\ sendto(u, {}, {Msg(u, Server, "MSG_C_GET_PEERS", None)})
  /\ UNCHANGED <<sent, shown>>

(* Nothing is sent when the name or the text is empty.                     *)
SendNothing(u, t) ==
  /\ Clicks(u, "send")
  /\ dlg' = [dlg EXCEPT ![u].m_strToID = t, ![u].clicks = @ + 1]
  /\ UNCHANGED <<net, opened, sent, shown>>

(* Head and text go to the peer, or to the server in relay mode, without a *)
(* wait for an answer then.                                                *)
OnBnClickedBtnSend(u, t, x) ==
  /\ Clicks(u, "send")
  /\ sent' = sent \cup {[from |-> u, to |-> t, text |-> x]}
  /\ \/ /\ dlg[u].bRelay
        /\ dlg' = [dlg EXCEPT ![u].m_strToID = t, ![u].clicks = @ + 1]
        /\ sendto(u, {}, {Msg(u, Server, "RELAYMESSAGE", t), Text(u, Server, x)})
     \/ /\ ~dlg[u].bRelay
        /\ dlg' = [dlg EXCEPT ![u].m_strToID = t, ![u].clicks = @ + 1,
                              ![u].RecvedACK = FALSE, ![u].gui = "ack", ![u].tries = 0]
        /\ sendto(u, {}, IF t \in dlg[u].ClientList
                           THEN {Msg(u, t, "P2PMESSAGE", u), Text(u, t, x)} ELSE {})
     \/ /\ ~dlg[u].bRelay /\ t \notin dlg[u].ClientList
        /\ dlg' = [dlg EXCEPT ![u].up = FALSE]
        /\ UNCHANGED <<net, opened>>
  /\ UNCHANGED shown

(* Mutant: one poll too many.                                              *)
WaitAckPast(u) ==
  /\ dlg[u].up /\ dlg[u].gui = "ack"
  /\ dlg' = [dlg EXCEPT
       ![u].tries = IF dlg[u].RecvedACK THEN @ ELSE @ + 1,
       ![u].gui = IF dlg[u].RecvedACK \/ dlg[u].tries = ACK_TRIES THEN "idle" ELSE @]
  /\ UNCHANGED <<net, opened, sent, shown>>

(* One turn of the loop that waits for RecvedACK.                          *)
WaitAck(u) ==
  /\ dlg[u].up /\ dlg[u].gui = "ack"
  /\ dlg' = [dlg EXCEPT
       ![u].tries = IF dlg[u].RecvedACK THEN @ ELSE @ + 1,
       ![u].gui = IF dlg[u].RecvedACK \/ dlg[u].tries + 1 = ACK_TRIES THEN "idle" ELSE @]
  /\ UNCHANGED <<net, opened, sent, shown>>

(* Mutant: the timer is killed without a fallback.                         *)
OnTimerQuiet(u) ==
  /\ dlg[u].up /\ dlg[u].gui = "idle" /\ dlg[u].timer /\ ~dlg[u].bConnect
  /\ dlg' = [dlg EXCEPT ![u].timer = FALSE]
  /\ UNCHANGED <<net, opened, sent, shown>>

(* The timer goes on, without effect, once bConnect is set.                *)
OnTimer(u) ==
  /\ dlg[u].up /\ dlg[u].gui = "idle" /\ dlg[u].timer /\ ~dlg[u].bConnect
  /\ dlg' = [dlg EXCEPT ![u].bRelay = TRUE, ![u].timer = FALSE]
  /\ UNCHANGED <<net, opened, sent, shown>>

(* GetUserList, every 30 s while bLogin.                                   *)
thread_heart_proc(u) ==
  /\ dlg[u].up /\ dlg[u].beats < MaxBeats[u]
  /\ dlg' = [dlg EXCEPT ![u].beats = @ + 1]
  /\ sendto(u, {}, {Msg(u, Server, "MSG_C_HEART_BEAT", None)})
  /\ UNCHANGED <<sent, shown>>

-----------------------------------------------------------------------------
(* thread_recv_proc                                                        *)

Arrives(u, d) == dlg[u].up /\ d \in net /\ d.dst = u /\ Accepts(u, d.src)
Gets(u, d, i) == Arrives(u, d) /\ dlg[u].recv = "loop" /\ d.id = i
UiFree(u) == dlg[u].gui = "idle"

(* The list is emptied and filled again, and the dialog's thread may look  *)
(* a peer up in between; only MSG_R_GET_PEERS is displayed.                *)
RecvList(u, d) ==
  /\ Gets(u, d, "MSG_R_HEART_BEAT") \/ (Gets(u, d, "MSG_R_GET_PEERS") /\ UiFree(u))
  /\ dlg' = [dlg EXCEPT ![u].ClientList = {}, ![u].recv = "fill"]
  /\ sendto(u, {d}, {})
  /\ UNCHANGED <<sent, shown>>

FillList(u) ==
  /\ dlg[u].up /\ dlg[u].recv = "fill"
  /\ dlg' = [dlg EXCEPT ![u].ClientList = Users, ![u].recv = "loop"]
  /\ UNCHANGED <<net, opened, sent, shown>>

RecvHole(u, d) ==
  /\ Gets(u, d, "MSG_R_HOLE") /\ UiFree(u)
  /\ dlg' = [dlg EXCEPT ![u].btnConnect = (d.result = 1)]
  /\ sendto(u, {d}, {})
  /\ UNCHANGED <<sent, shown>>

(* Mutant: the server is told, but the caller is not punched.              *)
RecvWantToCallQuiet(u, d) ==
  /\ Gets(u, d, "P2PSOMEONEWANTTOCALLYOU") /\ UiFree(u)
  /\ dlg' = [dlg EXCEPT ![u].recv = "punched"]
  /\ sendto(u, {d}, {})
  /\ UNCHANGED <<sent, shown>>

(* The caller is punched and, after a Sleep, the server told; with the     *)
(* name that is in the edit field then.                                    *)
RecvWantToCall(u, d) ==
  /\ Gets(u, d, "P2PSOMEONEWANTTOCALLYOU") /\ UiFree(u)
  /\ dlg' = [dlg EXCEPT ![u].recv = "punched"]
  /\ sendto(u, {d}, {Msg(u, d.name, "P2PPUNCH", None)})
  /\ UNCHANGED <<sent, shown>>

HaveConnect(u) ==
  /\ dlg[u].up /\ dlg[u].recv = "punched"
  /\ dlg' = [dlg EXCEPT ![u].recv = "loop"]
  /\ sendto(u, {}, {Msg(u, Server, "P2PHAVECONNECT1", dlg[u].m_strToID)})
  /\ UNCHANGED <<sent, shown>>

(* P2PPUNCH is only displayed.                                             *)
RecvPunch(u, d) ==
  /\ Gets(u, d, "P2PPUNCH") /\ UiFree(u)
  /\ sendto(u, {d}, {})
  /\ UNCHANGED <<dlg, sent, shown>>

(* Mutant: the connection counts as made before the peer has answered.     *)
RecvCanStartEarly(u, d) ==
  /\ Gets(u, d, "P2PCANSTART")
  /\ dlg' = [dlg EXCEPT ![u].timer = TRUE, ![u].bConnect = TRUE]
  /\ sendto(u, {d}, IF dlg[u].m_strToID \in dlg[u].ClientList
                      THEN {Msg(u, dlg[u].m_strToID, "P2PPUNCH2", None)} ELSE {})
  /\ UNCHANGED <<sent, shown>>

(* The peer in the edit field is sent P2PPUNCH2, and the timer is started. *)
RecvCanStart(u, d) ==
  /\ Gets(u, d, "P2PCANSTART")
  /\ \/ /\ dlg' = [dlg EXCEPT ![u].timer = TRUE]
        /\ sendto(u, {d}, IF dlg[u].m_strToID \in dlg[u].ClientList
                            THEN {Msg(u, dlg[u].m_strToID, "P2PPUNCH2", None)} ELSE {})
     \/ /\ dlg[u].m_strToID \notin dlg[u].ClientList
        /\ dlg' = [dlg EXCEPT ![u].up = FALSE]
        /\ sendto(u, {d}, {})
  /\ UNCHANGED <<sent, shown>>

RecvPunch2(u, d) ==
  /\ Gets(u, d, "P2PPUNCH2")
  /\ sendto(u, {d}, {Msg(u, d.src, "P2PPUNCHOK", None)})
  /\ UNCHANGED <<dlg, sent, shown>>

RecvPunchOk(u, d) ==
  /\ Gets(u, d, "P2PPUNCHOK") /\ UiFree(u)
  /\ dlg' = [dlg EXCEPT ![u].bConnect = TRUE]
  /\ sendto(u, {d}, {})
  /\ UNCHANGED <<sent, shown>>

(* Mutant: the text is displayed under the name in the edit field.         *)
RecvHeadField(u, d) ==
  /\ Gets(u, d, "P2PMESSAGE") \/ Gets(u, d, "RELAYMESSAGE2")
  /\ dlg' = [dlg EXCEPT ![u].recv = IF d.id = "P2PMESSAGE" THEN "p2p" ELSE "relay",
                        ![u].head = dlg[u].m_strToID]
  /\ sendto(u, {d}, {})
  /\ UNCHANGED <<sent, shown>>

(* A head makes the thread wait for one more datagram.                     *)
RecvHead(u, d) ==
  /\ Gets(u, d, "P2PMESSAGE") \/ Gets(u, d, "RELAYMESSAGE2")
  /\ dlg' = [dlg EXCEPT ![u].recv = IF d.id = "P2PMESSAGE" THEN "p2p" ELSE "relay",
                        ![u].head = d.name]
  /\ sendto(u, {d}, {})
  /\ UNCHANGED <<sent, shown>>

(* The next datagram is taken for the text, whatever it is and whoever     *)
(* sent it.  Behind a relayed head its length must be the announced one,   *)
(* which a text has (all are of one length) and another message has not.   *)
RecvText(u, d) ==
  /\ Arrives(u, d) /\ dlg[u].recv \in {"p2p", "relay"} /\ UiFree(u)
  /\ dlg' = [dlg EXCEPT ![u].recv = "loop", ![u].head = None]
  /\ sendto(u, {d}, IF dlg[u].recv = "p2p" THEN {Msg(u, d.src, "P2PMESSAGEACK", None)}
                                           ELSE {})
  /\ shown' = IF dlg[u].recv = "p2p" \/ d.id = "text"
                THEN shown \cup {[from |-> dlg[u].head, to |-> u, text |-> d.text]}
                ELSE shown
  /\ UNCHANGED sent

(* Another message than a text overruns the buffer of the announced        *)
(* length, and a relayed text looks its sender up in ClientList: either    *)
(* may crash the client.                                                   *)
RecvTextCrash(u, d) ==
  /\ Arrives(u, d) /\ dlg[u].recv \in {"p2p", "relay"}
  /\ d.id # "text" \/ (dlg[u].recv = "relay" /\ dlg[u].head \notin dlg[u].ClientList)
  /\ dlg' = [dlg EXCEPT ![u].up = FALSE]
  /\ sendto(u, {d}, {})
  /\ UNCHANGED <<sent, shown>>

(* recvfrom fails (Windows reports an earlier datagram that nobody took),  *)
(* or the text has no bytes: a message box instead of the text, and no     *)
(* answer; the byte written in front of the buffer may crash the client.   *)
RecvTextError(u) ==
  /\ dlg[u].up /\ dlg[u].recv \in {"p2p", "relay"}
  /\ \/ dlg' = [dlg EXCEPT ![u].recv = "loop", ![u].head = None]
     \/ dlg' = [dlg EXCEPT ![u].up = FALSE]
  /\ UNCHANGED <<net, opened, sent, shown>>

RecvAck(u, d) ==
  /\ Gets(u, d, "P2PMESSAGEACK")
  /\ dlg' = [dlg EXCEPT ![u].RecvedACK = TRUE]
  /\ sendto(u, {d}, {})
  /\ UNCHANGED <<sent, shown>>

(* A text without a head matches no case of the switch.                    *)
RecvStray(u, d) ==
  /\ Gets(u, d, "text")
  /\ sendto(u, {d}, {})
  /\ UNCHANGED <<dlg, sent, shown>>

thread_recv_proc(u, d) ==
  \/ RecvList(u, d) \/ RecvHole(u, d) \/ RecvWantToCall(u, d) \/ RecvPunch(u, d)
  \/ RecvCanStart(u, d) \/ RecvPunch2(u, d) \/ RecvPunchOk(u, d) \/ RecvHead(u, d)
  \/ RecvText(u, d) \/ RecvTextCrash(u, d) \/ RecvAck(u, d) \/ RecvStray(u, d)

OnClick(u) ==
  \/ OnBnClickedBtnGetUsers(u)
  \/ \E t \in Targets[u] :
       \/ OnBnClickedBtnConnet(u, t) \/ SendNothing(u, t)
       \/ \E x \in Texts : OnBnClickedBtnSend(u, t, x)

WinClientNext(u) ==
  \/ OnClick(u) \/ WaitAck(u) \/ OnTimer(u) \/ thread_heart_proc(u)
  \/ FillList(u) \/ HaveConnect(u) \/ RecvTextError(u)
  \/ \E d \in net : thread_recv_proc(u, d)

=============================================================================
