----------------------------- MODULE WinSession -----------------------------
(***************************************************************************)
(* Login, logout and end of the Windows client (clientDlg.cpp), which      *)
(* WinClient leaves out: the dialog's thread, the receive threads and the  *)
(* heartbeat threads share bLogin and h_recv without a lock.  Every        *)
(* MSG_R_LOGIN starts a heartbeat thread; one that finds bLogin FALSE      *)
(* terminates the receive thread and resets h_recv, in two steps.          *)
(*                                                                         *)
(* The login server is external.  Heartbeats and the lists that answer     *)
(* them change nothing here.  The network counts the datagrams of each     *)
(* kind: they arrive in any order, or not at all.                          *)
(***************************************************************************)
EXTENDS Naturals, FiniteSets

CONSTANTS
  Receivers,     \* slots for receive threads
  Hearts,        \* slots for heartbeat threads
  NoThread,      \* the NULL handle
  MaxClicks      \* bound on the clicks

ASSUME SessAssumption == NoThread \notin Receivers /\ MaxClicks \in Nat

VARIABLES
  gui,           \* where the dialog's thread is
  btnLogin, btnDisconnect,                  \* which of the two buttons is enabled
  bLogin, h_recv,
  recv,          \* what each receive thread does
  heart,         \* what each heartbeat thread does
  net,           \* datagrams under way, by kind
  registered,    \* external server: the user is logged in
  clicks,
  lost,          \* history: a datagram was lost
  hurried,       \* history: the user clicked while something was under way
  mishaps        \* history: the races of the threads that happened

dialog == <<gui, btnLogin, btnDisconnect>>
history == <<lost, hurried, mishaps>>
sessvars == <<dialog, bLogin, h_recv, recv, heart, net, registered, clicks, history>>

GuiStates == {"idle", "login", "logout", "leave", "quit", "end"}
RecvStates == {"none", "wait", "off", "on", "list", "box"}
HeartStates == {"none", "test", "sleep", "kill", "null"}
NetKinds == {"MSG_C_LOGIN", "MSG_C_LOGOUT", "MSG_R_LOGIN_0", "MSG_R_LOGIN_1",
             "MSG_R_LOGOUT_0", "MSG_R_LOGOUT_1"}

(* crossed: a receive thread is created between a heartbeat's              *)
(*          TerminateThread and its reset of h_recv;                       *)
(* raced:   a login is answered while a heartbeat, which has read bLogin   *)
(*          before, is about to terminate the receive thread;              *)
(* revived: OnBnClickedBtnDisconnect sets bLogin after it was reset.       *)
Mishaps == {"crossed", "raced", "revived"}
Mishap(m, happens) == mishaps' = mishaps \cup (IF happens THEN {m} ELSE {})

(* OnInitDialog and the dialog's resource: login is enabled, logout is not.*)
SessInit ==
  /\ gui = "idle" /\ btnLogin = TRUE /\ btnDisconnect = FALSE
  /\ bLogin = FALSE /\ h_recv = NoThread
  /\ recv = [r \in Receivers |-> "none"] /\ heart = [h \in Hearts |-> "none"]
  /\ net = [k \in NetKinds |-> 0] /\ registered = FALSE
  /\ clicks = 0 /\ lost = FALSE /\ hurried = FALSE /\ mishaps = {}

Sent(k) == [net EXCEPT ![k] = @ + 1]
Took(k) == net[k] > 0 /\ net' = [net EXCEPT ![k] = @ - 1]
Alive(r) == recv[r] # "none"

Settled ==
  /\ \A k \in NetKinds : net[k] = 0
  /\ \A r \in Receivers : recv[r] \in {"none", "wait"}

-----------------------------------------------------------------------------
(* The dialog's thread                                                     *)

Hurries == hurried' = (hurried \/ ~Settled)
Clicks == gui = "idle" /\ clicks < MaxClicks /\ clicks' = clicks + 1 /\ Hurries

(* OnBnClickedBtnLogin, up to the sendto.                                  *)
OnBnClickedBtnLogin ==
  /\ Clicks /\ btnLogin
  /\ net' = Sent("MSG_C_LOGIN") /\ gui' = "login"
  /\ UNCHANGED <<btnLogin, btnDisconnect, bLogin, h_recv, recv, heart, registered,
                 lost, mishaps>>

(* A slot no thread has and no handle names.                               *)
Free(r) == recv[r] = "none" /\ h_recv # r

(* Mutant: a receive thread is created whatever h_recv says.               *)
CreateRecvAlways ==
  /\ gui = "login" /\ gui' = "idle"
  /\ \E r \in Receivers :
       Free(r) /\ h_recv' = r /\ recv' = [recv EXCEPT ![r] = "wait"]
  /\ Mishap("crossed", \E h \in Hearts : heart[h] = "null")
  /\ UNCHANGED <<btnLogin, btnDisconnect, bLogin, heart, net, registered, clicks,
                 lost, hurried>>

CreateRecv ==
  /\ gui = "login" /\ gui' = "idle"
  /\ IF h_recv = NoThread
       THEN \E r \in Receivers :
              /\ Free(r) /\ h_recv' = r /\ recv' = [recv EXCEPT ![r] = "wait"]
              /\ Mishap("crossed", \E h \in Hearts : heart[h] = "null")
       ELSE UNCHANGED <<h_recv, recv, mishaps>>
  /\ UNCHANGED <<btnLogin, btnDisconnect, bLogin, heart, net, registered, clicks,
                 lost, hurried>>

(* Mutant: the login button stays as it is.                                *)
SendLogoutOnly(next) ==
  /\ net' = Sent("MSG_C_LOGOUT") /\ btnDisconnect' = FALSE /\ gui' = next
  /\ UNCHANGED <<btnLogin, bLogin, h_recv, recv, heart, registered, lost, mishaps>>

(* OnBnClickedBtnDisconnect, up to its last assignment.                    *)
SendLogout(next) ==
  /\ net' = Sent("MSG_C_LOGOUT") /\ gui' = next
  /\ btnLogin' = TRUE /\ btnDisconnect' = FALSE
  /\ UNCHANGED <<bLogin, h_recv, recv, heart, registered, lost, mishaps>>

OnBnClickedBtnDisconnect == Clicks /\ btnDisconnect /\ SendLogout("logout")

(* Its last assignment sets bLogin to TRUE.                                *)
EndDisconnect ==
  /\ \/ gui = "logout" /\ gui' = "idle"
     \/ gui = "leave" /\ gui' = "quit"
  /\ bLogin' = TRUE /\ Mishap("revived", ~bLogin)
  /\ UNCHANGED <<btnLogin, btnDisconnect, h_recv, recv, heart, net, registered,
                 clicks, lost, hurried>>

(* The quit button logs out first, in any case.                            *)
OnBnClickedButton2 ==
  /\ gui = "idle" /\ SendLogout("leave") /\ Hurries
  /\ UNCHANGED clicks

(* Mutant: closing the window does not log out.                            *)
OnDestroyQuiet ==
  /\ gui = "idle" /\ Hurries /\ gui' = "quit"
  /\ UNCHANGED <<btnLogin, btnDisconnect, bLogin, h_recv, recv, heart, net, registered,
                 clicks, lost, mishaps>>

(* Closing the window logs out if bLogin.                                  *)
OnDestroy ==
  /\ gui = "idle" /\ Hurries /\ UNCHANGED clicks
  /\ \/ bLogin /\ SendLogout("leave")
     \/ /\ ~bLogin /\ gui' = "quit"
        /\ UNCHANGED <<btnLogin, btnDisconnect, bLogin, h_recv, recv, heart, net,
                       registered, lost, mishaps>>

(* The rest of both: the receive thread and the socket, then the process.  *)
Quit ==
  /\ gui = "quit" /\ gui' = "end" /\ h_recv' = NoThread
  /\ recv' = [r \in Receivers |-> "none"] /\ heart' = [h \in Hearts |-> "none"]
  /\ UNCHANGED <<btnLogin, btnDisconnect, bLogin, net, registered, clicks, history>>

-----------------------------------------------------------------------------
(* A receive thread.  What touches a control needs the dialog's thread.    *)

UiFree == gui = "idle"
Becomes(r, s) == recv' = [recv EXCEPT ![r] = s]

RecvLoginOk(r) ==
  /\ recv[r] = "wait" /\ Took("MSG_R_LOGIN_0")
  /\ bLogin' = TRUE /\ Becomes(r, "off")
  /\ Mishap("raced", \E h \in Hearts : heart[h] = "kill")
  /\ UNCHANGED <<dialog, h_recv, heart, registered, clicks, lost, hurried>>

RecvLoginFailed(r) ==
  /\ recv[r] = "wait" /\ Took("MSG_R_LOGIN_1") /\ Becomes(r, "list")
  /\ UNCHANGED <<dialog, bLogin, h_recv, heart, registered, clicks, history>>

(* UpdateCtrlStates: one control after the other.                          *)
LoginOff(r) ==
  /\ recv[r] = "off" /\ UiFree /\ btnLogin' = FALSE /\ Becomes(r, "on")
  /\ UNCHANGED <<gui, btnDisconnect, bLogin, h_recv, heart, net, registered, clicks,
                 history>>

DisconnectOn(r) ==
  /\ recv[r] = "on" /\ UiFree /\ btnDisconnect' = TRUE /\ Becomes(r, "list")
  /\ UNCHANGED <<gui, btnLogin, bLogin, h_recv, heart, net, registered, clicks,
                 history>>

(* Mutant: the heartbeat's handle is stored as that of the receive thread. *)
CreateHeartHandle(r) ==
  /\ recv[r] = "list" /\ UiFree /\ Becomes(r, "wait")
  /\ \E h \in Hearts :
       heart[h] = "none" /\ heart' = [heart EXCEPT ![h] = "test"] /\ h_recv' = h
  /\ UNCHANGED <<dialog, bLogin, net, registered, clicks, history>>

(* The list of users, then a heartbeat thread: after a failed login too.   *)
CreateHeart(r) ==
  /\ recv[r] = "list" /\ UiFree /\ Becomes(r, "wait")
  /\ \E h \in Hearts : heart[h] = "none" /\ heart' = [heart EXCEPT ![h] = "test"]
  /\ UNCHANGED <<dialog, bLogin, h_recv, net, registered, clicks, history>>

RecvLogoutOk(r) ==
  /\ recv[r] = "wait" /\ Took("MSG_R_LOGOUT_0") /\ bLogin' = FALSE
  /\ UNCHANGED <<dialog, h_recv, recv, heart, registered, clicks, history>>

(* AfxMessageBox holds the receive thread until the user closes it.        *)
RecvLogoutFailed(r) ==
  /\ recv[r] = "wait" /\ Took("MSG_R_LOGOUT_1") /\ Becomes(r, "box")
  /\ UNCHANGED <<dialog, bLogin, h_recv, heart, registered, clicks, history>>

BoxClosed(r) ==
  /\ recv[r] = "box" /\ Becomes(r, "wait")
  /\ UNCHANGED <<dialog, bLogin, h_recv, heart, net, registered, clicks, history>>

thread_recv_proc(r) ==
  \/ RecvLoginOk(r) \/ RecvLoginFailed(r) \/ LoginOff(r) \/ DisconnectOn(r)
  \/ CreateHeart(r) \/ RecvLogoutOk(r) \/ RecvLogoutFailed(r) \/ BoxClosed(r)

-----------------------------------------------------------------------------
(* A heartbeat thread                                                      *)

(* Mutant: the test is the wrong way round.                                *)
HeartTestNot(h) ==
  /\ heart[h] = "test"
  /\ heart' = [heart EXCEPT ![h] = IF bLogin THEN "kill" ELSE "sleep"]
  /\ UNCHANGED <<dialog, bLogin, h_recv, recv, net, registered, clicks, history>>

HeartTest(h) ==
  /\ heart[h] = "test"
  /\ heart' = [heart EXCEPT ![h] = IF bLogin THEN "sleep" ELSE "kill"]
  /\ UNCHANGED <<dialog, bLogin, h_recv, recv, net, registered, clicks, history>>

HeartWakes(h) ==
  /\ heart[h] = "sleep" /\ heart' = [heart EXCEPT ![h] = "test"]
  /\ UNCHANGED <<dialog, bLogin, h_recv, recv, net, registered, clicks, history>>

(* TerminateThread of the handle as it is now; NULL is refused.            *)
HeartKill(h) ==
  /\ heart[h] = "kill" /\ heart' = [heart EXCEPT ![h] = "null"]
  /\ recv' = [r \in Receivers |-> IF r = h_recv THEN "none" ELSE recv[r]]
  /\ UNCHANGED <<dialog, bLogin, h_recv, net, registered, clicks, history>>

(* Mutant: the loop is not left.                                           *)
HeartNullStays(h) ==
  /\ heart[h] = "null" /\ heart' = [heart EXCEPT ![h] = "test"] /\ h_recv' = NoThread
  /\ UNCHANGED <<dialog, bLogin, recv, net, registered, clicks, history>>

HeartNull(h) ==
  /\ heart[h] = "null" /\ heart' = [heart EXCEPT ![h] = "none"] /\ h_recv' = NoThread
  /\ UNCHANGED <<dialog, bLogin, recv, net, registered, clicks, history>>

thread_heart_proc(h) == HeartTest(h) \/ HeartWakes(h) \/ HeartKill(h) \/ HeartNull(h)

-----------------------------------------------------------------------------
(* The external server and the network                                     *)

Answers(q, a) ==
  /\ net[q] > 0
  /\ net' = [net EXCEPT ![q] = @ - 1, ![a] = @ + 1]
  /\ UNCHANGED <<dialog, bLogin, h_recv, recv, heart, clicks, history>>

(* A name that is logged in is refused.                                    *)
SrvLogin ==
  /\ registered' = TRUE
  /\ Answers("MSG_C_LOGIN", IF registered THEN "MSG_R_LOGIN_1" ELSE "MSG_R_LOGIN_0")

SrvLogout ==
  /\ registered' = FALSE
  /\ Answers("MSG_C_LOGOUT", IF registered THEN "MSG_R_LOGOUT_0" ELSE "MSG_R_LOGOUT_1")

NetLose(k) ==
  /\ Took(k) /\ lost' = TRUE
  /\ UNCHANGED <<dialog, bLogin, h_recv, recv, heart, registered, clicks, hurried, mishaps>>

-----------------------------------------------------------------------------
DialogStep == CreateRecv \/ EndDisconnect \/ Quit

SessNext ==
  \/ OnBnClickedBtnLogin \/ OnBnClickedBtnDisconnect \/ OnBnClickedButton2 \/ OnDestroy
  \/ DialogStep
  \/ \E r \in Receivers : thread_recv_proc(r)
  \/ \E h \in Hearts : thread_heart_proc(h)
  \/ SrvLogin \/ SrvLogout
  \/ \E k \in NetKinds : NetLose(k)

SessSpec == SessInit /\ [][SessNext]_sessvars

(* The threads run, a message box is closed, the server answers.  Nothing  *)
(* is assumed of clicks.                                                   *)
SessFairSpec ==
  /\ SessSpec
  /\ WF_sessvars(DialogStep) /\ WF_sessvars(SrvLogin) /\ WF_sessvars(SrvLogout)
  /\ \A r \in Receivers : WF_sessvars(thread_recv_proc(r))
  /\ \A h \in Hearts : WF_sessvars(thread_heart_proc(h))

-----------------------------------------------------------------------------
(* Properties                                                              *)

SessTypeOK ==
  /\ gui \in GuiStates
  /\ btnLogin \in BOOLEAN /\ btnDisconnect \in BOOLEAN /\ bLogin \in BOOLEAN
  /\ h_recv \in Receivers \cup {NoThread}
  /\ recv \in [Receivers -> RecvStates] /\ heart \in [Hearts -> HeartStates]
  /\ net \in [NetKinds -> Nat] /\ registered \in BOOLEAN
  /\ clicks \in 0..MaxClicks /\ lost \in BOOLEAN /\ hurried \in BOOLEAN
  /\ mishaps \subseteq Mishaps

Running == gui \in {"idle", "login", "logout"}

(* Two receive threads would share the socket and the list of users: each  *)
(* login starts one only if there is none, although heartbeat threads end  *)
(* it and reset its handle behind the dialog's back.  The one way to two   *)
(* is a login between those two steps of a heartbeat of an earlier session.*)
OneReceiver ==
  "crossed" \notin mishaps => \A r, s \in Receivers : Alive(r) /\ Alive(s) => r = s

(* A client that believes it is logged in has a receive thread, and h_recv *)
(* names it.  A heartbeat of an earlier session ends it in two races only, *)
(* and OnBnClickedBtnDisconnect makes the client believe so without one    *)
(* only when the answer to the logout was handled before its line 633, or  *)
(* the client was logged out already.                                      *)
LoggedInListens ==
  Running /\ bLogin /\ mishaps = {} => \E r \in Receivers : Alive(r) /\ h_recv = r

(* The user can always log in or out, or the receive thread is about to    *)
(* enable logout: UpdateCtrlStates leaves both buttons disabled only when  *)
(* a heartbeat that decided before the login ends the thread inside it.    *)
NeverStuck ==
  gui = "idle" /\ mishaps \cap {"crossed", "raced"} = {} =>
    btnLogin \/ btnDisconnect \/ \E r \in Receivers : recv[r] = "on"

(* A heartbeat thread of a client that is logged out, or whose login was   *)
(* refused, ends, unless the client is logged in again before.             *)
HeartbeatsEnd ==
  \A h \in Hearts : heart[h] # "none" /\ ~bLogin ~> heart[h] = "none" \/ bLogin

(* Whoever closes the dialog, and never clicked while something was under  *)
(* way, is logged out at the server in the end, unless a datagram was lost.*)
QuitLogsOut == gui = "end" /\ ~hurried ~> ~registered \/ lost

=============================================================================
