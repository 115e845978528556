-------------------------- MODULE WinSessionProofs --------------------------
(***************************************************************************)
(* Proofs about WinSession for any number of threads and clicks, whenever  *)
(* the user clicks and whenever answers come.                              *)
(***************************************************************************)
EXTENDS WinSession, TLAPS

(* Unless a login fell between the two steps of a heartbeat's end, a       *)
(* receive thread that runs is the one h_recv names, and a heartbeat       *)
(* resets h_recv only after the receive thread's end.                      *)
HandleNames ==
  "crossed" \notin mishaps => \A r \in Receivers : Alive(r) => h_recv = r

NullAfterKill ==
  "crossed" \notin mishaps =>
    \A h \in Hearts : heart[h] = "null" => \A r \in Receivers : ~Alive(r)

(* While the client is logged in, no heartbeat thread is about to end.     *)
Listening ==
  Running /\ bLogin /\ mishaps = {} =>
    /\ \E r \in Receivers : Alive(r) /\ h_recv = r
    /\ \A h \in Hearts : heart[h] \notin {"kill", "null"}

NoRace == "crossed" \notin mishaps /\ "raced" \notin mishaps

(* While it changes the buttons the receive thread cannot be ended.        *)
Switching ==
  NoRace => \A r \in Receivers : recv[r] \in {"off", "on"} =>
              bLogin /\ \A h \in Hearts : heart[h] # "kill"

(* NeverStuck while a handler of the dialog runs, too.                     *)
SomeButton ==
  Running /\ NoRace => btnLogin \/ btnDisconnect \/ \E r \in Receivers : recv[r] = "on"

SessInv ==
  SessTypeOK /\ HandleNames /\ NullAfterKill /\ Listening /\ Switching /\ SomeButton

-----------------------------------------------------------------------------
(* Every step keeps the counts of the network natural numbers.             *)
LEMMA SentType ==
  ASSUME net \in [NetKinds -> Nat], NEW k \in NetKinds, net' = Sent(k)
  PROVE  net' \in [NetKinds -> Nat]
BY DEF Sent

LEMMA TookType ==
  ASSUME net \in [NetKinds -> Nat], NEW k \in NetKinds, Took(k)
  PROVE  net' \in [NetKinds -> Nat]
<1>1. net[k] - 1 \in Nat /\ net' = [net EXCEPT ![k] = net[k] - 1]
  BY DEF Took
<1> QED
  BY <1>1

LEMMA AnswerType ==
  ASSUME net \in [NetKinds -> Nat], NEW q \in NetKinds, NEW a \in NetKinds, Answers(q, a)
  PROVE  net' \in [NetKinds -> Nat]
<1>1. net[q] \in Nat /\ net[a] \in Nat /\ net[q] > 0
  BY DEF Answers
<1>2. net[q] - 1 \in Nat /\ net[q] - 1 + 1 \in Nat /\ net[a] + 1 \in Nat
  BY <1>1
<1>3. q = a => net' = [net EXCEPT ![q] = net[q] - 1 + 1]
  BY DEF Answers
<1>4. q # a => net' = [net EXCEPT ![q] = net[q] - 1, ![a] = net[a] + 1]
  BY DEF Answers
<1> QED
  BY <1>2, <1>3, <1>4

-----------------------------------------------------------------------------
(* The dialog starts with its types.                                       *)
LEMMA SessInitType == SessInit => SessTypeOK
<1> SUFFICES ASSUME SessInit PROVE SessTypeOK
  OBVIOUS
<1>1. /\ btnLogin \in BOOLEAN /\ btnDisconnect \in BOOLEAN /\ bLogin \in BOOLEAN
      /\ registered \in BOOLEAN /\ lost \in BOOLEAN /\ hurried \in BOOLEAN
  BY Zenon DEF SessInit
<1> QED
  BY <1>1, SessAssumption
     DEF SessAssumption, SessInit, SessTypeOK, GuiStates, RecvStates, HeartStates

(* Every step keeps the types.                                             *)
LEMMA SessTypeStep ==
  ASSUME SessTypeOK, [SessNext]_sessvars
  PROVE  SessTypeOK'
<1> USE SessAssumption
    DEF SessAssumption, SessTypeOK, GuiStates, RecvStates, HeartStates, dialog, history,
        Becomes
<1>t. net \in [NetKinds -> Nat] /\ mishaps \subseteq Mishaps
  OBVIOUS
<1>k. /\ {"MSG_C_LOGIN", "MSG_C_LOGOUT", "MSG_R_LOGIN_0", "MSG_R_LOGIN_1"} \subseteq NetKinds
      /\ {"MSG_R_LOGOUT_0", "MSG_R_LOGOUT_1"} \subseteq NetKinds
      /\ {"crossed", "raced", "revived"} \subseteq Mishaps
  BY DEF NetKinds, Mishaps
<1>1. CASE \/ OnBnClickedBtnLogin \/ OnBnClickedBtnDisconnect
           \/ OnBnClickedButton2 \/ OnDestroy
  <2>1. net' \in [NetKinds -> Nat]
    BY <1>1, <1>t, <1>k, SentType
       DEF OnBnClickedBtnLogin, OnBnClickedBtnDisconnect, OnBnClickedButton2, OnDestroy,
           SendLogout
  <2>2. clicks' \in 0..MaxClicks /\ gui' \in GuiStates
    BY <1>1 DEF OnBnClickedBtnLogin, OnBnClickedBtnDisconnect, OnBnClickedButton2, OnDestroy,
                SendLogout, Clicks
  <2>3. /\ btnLogin' \in BOOLEAN /\ btnDisconnect' \in BOOLEAN /\ bLogin' \in BOOLEAN
        /\ registered' \in BOOLEAN /\ lost' \in BOOLEAN /\ hurried' \in BOOLEAN
        /\ UNCHANGED <<h_recv, recv, heart, mishaps>>
    BY <1>1, Zenon
       DEF OnBnClickedBtnLogin, OnBnClickedBtnDisconnect, OnBnClickedButton2, OnDestroy,
           SendLogout, Clicks, Hurries
  <2> QED
    BY <2>1, <2>2, <2>3
<1>2. CASE CreateRecv \/ EndDisconnect
  <2>1. mishaps' \subseteq Mishaps
    BY <1>2, <1>t, <1>k DEF CreateRecv, EndDisconnect, Mishap
  <2> QED
    BY <1>2, <2>1 DEF CreateRecv, EndDisconnect, Free
<1>3. CASE Quit
  BY <1>3 DEF Quit
<1>4. ASSUME NEW r \in Receivers, thread_recv_proc(r) PROVE SessTypeOK'
  <2>1. net' \in [NetKinds -> Nat]
    <3>1. UNCHANGED net \/ \E k \in NetKinds : Took(k)
      BY <1>4, <1>k DEF thread_recv_proc, RecvLoginOk, RecvLoginFailed, LoginOff, DisconnectOn,
                  CreateHeart, RecvLogoutOk, RecvLogoutFailed, BoxClosed
    <3> QED
      BY <3>1, <1>t, TookType
  <2>2. recv' \in [Receivers -> RecvStates] /\ heart' \in [Hearts -> HeartStates]
    BY <1>4 DEF thread_recv_proc, RecvLoginOk, RecvLoginFailed, LoginOff, DisconnectOn,
                CreateHeart, RecvLogoutOk, RecvLogoutFailed, BoxClosed
  <2>3. /\ btnLogin' \in BOOLEAN /\ btnDisconnect' \in BOOLEAN /\ bLogin' \in BOOLEAN
        /\ UNCHANGED <<gui, h_recv, registered, clicks, lost, hurried>>
    BY <1>4, Zenon DEF thread_recv_proc, RecvLoginOk, RecvLoginFailed, LoginOff, DisconnectOn,
                CreateHeart, RecvLogoutOk, RecvLogoutFailed, BoxClosed
  <2>4. mishaps' \subseteq Mishaps
    BY <1>4, <1>t, <1>k DEF thread_recv_proc, RecvLoginOk, RecvLoginFailed, LoginOff,
         DisconnectOn, CreateHeart, RecvLogoutOk, RecvLogoutFailed, BoxClosed, Mishap
  <2> QED
    BY <2>1, <2>2, <2>3, <2>4
<1>5. ASSUME NEW h \in Hearts, thread_heart_proc(h) PROVE SessTypeOK'
  BY <1>5 DEF thread_heart_proc, HeartTest, HeartWakes, HeartKill, HeartNull
<1>6. CASE SrvLogin \/ SrvLogout
  <2>1. \E q, a \in NetKinds : Answers(q, a)
    BY <1>6, <1>k DEF SrvLogin, SrvLogout
  <2>2. registered' \in BOOLEAN
    BY <1>6, Zenon DEF SrvLogin, SrvLogout
  <2> QED
    BY <2>1, <2>2, <1>t, AnswerType DEF Answers
<1>7. ASSUME NEW k \in NetKinds, NetLose(k) PROVE SessTypeOK'
  BY <1>7, <1>t, TookType DEF NetLose
<1>8. CASE UNCHANGED sessvars
  BY <1>8 DEF sessvars
<1> QED
  BY <1>1, <1>2, <1>3, <1>4, <1>5, <1>6, <1>7, <1>8 DEF SessNext, DialogStep

(* Every step keeps the invariant: one step per action of the three kinds  *)
(* of threads, the server and the network.                                 *)
LEMMA SessInvStep ==
  ASSUME SessInv, [SessNext]_sessvars
  PROVE  SessInv'
<1> USE DEF HandleNames, NullAfterKill, Listening, Switching, SomeButton, NoRace, Running,
            Alive, dialog, history
<1>t. /\ recv \in [Receivers -> RecvStates] /\ heart \in [Hearts -> HeartStates]
      /\ mishaps \subseteq Mishaps /\ h_recv \in Receivers \cup {NoThread}
      /\ NoThread \notin Receivers
  BY SessAssumption DEF SessAssumption, SessInv, SessTypeOK
<1>i. HandleNames /\ NullAfterKill /\ Listening /\ Switching /\ SomeButton
  BY DEF SessInv
<1>T. SessTypeOK'
  BY ONLY SessInv, SessTypeStep, [SessNext]_sessvars DEF SessInv
<1>1. CASE OnBnClickedBtnLogin \/ OnBnClickedBtnDisconnect \/ OnBnClickedButton2 \/ OnDestroy
  <2>1. HandleNames'
    BY <1>1, <1>t, <1>i
       DEF OnBnClickedBtnLogin, OnBnClickedBtnDisconnect, OnBnClickedButton2, OnDestroy,
           SendLogout, Clicks
  <2>2. NullAfterKill'
    BY <1>1, <1>t, <1>i
       DEF OnBnClickedBtnLogin, OnBnClickedBtnDisconnect, OnBnClickedButton2, OnDestroy,
           SendLogout, Clicks
  <2>3. Listening'
    BY <1>1, <1>t, <1>i
       DEF OnBnClickedBtnLogin, OnBnClickedBtnDisconnect, OnBnClickedButton2, OnDestroy,
           SendLogout, Clicks
  <2>4. Switching'
    BY <1>1, <1>t, <1>i
       DEF OnBnClickedBtnLogin, OnBnClickedBtnDisconnect, OnBnClickedButton2, OnDestroy,
           SendLogout, Clicks
  <2>5. SomeButton'
    BY <1>1, <1>t, <1>i
       DEF OnBnClickedBtnLogin, OnBnClickedBtnDisconnect, OnBnClickedButton2, OnDestroy,
           SendLogout, Clicks
  <2> QED
    BY <1>T, <2>1, <2>2, <2>3, <2>4, <2>5 DEF SessInv
<1>2. CASE CreateRecv
  <2>1. HandleNames'
    BY <1>2, <1>t, <1>i
       DEF CreateRecv, Free, Mishap
  <2>2. NullAfterKill'
    BY <1>2, <1>t, <1>i
       DEF CreateRecv, Free, Mishap
  <2>3. Listening'
    BY <1>2, <1>t, <1>i
       DEF CreateRecv, Free, Mishap
  <2>4. Switching'
    BY <1>2, <1>t, <1>i
       DEF CreateRecv, Free, Mishap
  <2>5. SomeButton'
    BY <1>2, <1>t, <1>i
       DEF CreateRecv, Free, Mishap
  <2> QED
    BY <1>T, <2>1, <2>2, <2>3, <2>4, <2>5 DEF SessInv
<1>3. CASE EndDisconnect
  <2>1. HandleNames'
    BY <1>3, <1>t, <1>i
       DEF EndDisconnect, Mishap
  <2>2. NullAfterKill'
    BY <1>3, <1>t, <1>i
       DEF EndDisconnect, Mishap
  <2>3. Listening'
    BY <1>3, <1>t, <1>i
       DEF EndDisconnect, Mishap
  <2>4. Switching'
    BY <1>3, <1>t, <1>i
       DEF EndDisconnect, Mishap
  <2>5. SomeButton'
    BY <1>3, <1>t, <1>i
       DEF EndDisconnect, Mishap
  <2> QED
    BY <1>T, <2>1, <2>2, <2>3, <2>4, <2>5 DEF SessInv
<1>4. CASE Quit
  <2>1. HandleNames'
    BY <1>4, <1>t, <1>i
       DEF Quit
  <2>2. NullAfterKill'
    BY <1>4, <1>t, <1>i
       DEF Quit
  <2>3. Listening'
    BY <1>4, <1>t, <1>i
       DEF Quit
  <2>4. Switching'
    BY <1>4, <1>t, <1>i
       DEF Quit
  <2>5. SomeButton'
    BY <1>4, <1>t, <1>i
       DEF Quit
  <2> QED
    BY <1>T, <2>1, <2>2, <2>3, <2>4, <2>5 DEF SessInv
<1>5. ASSUME NEW r \in Receivers, RecvLoginOk(r) PROVE SessInv'
  <2>1. HandleNames'
    BY <1>5, <1>t, <1>i
       DEF RecvLoginOk, Becomes, Mishap
  <2>2. NullAfterKill'
    BY <1>5, <1>t, <1>i
       DEF RecvLoginOk, Becomes, Mishap
  <2>3. Listening'
    BY <1>5, <1>t, <1>i
       DEF RecvLoginOk, Becomes, Mishap
  <2>4. Switching'
    BY <1>5, <1>t, <1>i
       DEF RecvLoginOk, Becomes, Mishap
  <2>5. SomeButton'
    BY <1>5, <1>t, <1>i
       DEF RecvLoginOk, Becomes, Mishap
  <2> QED
    BY <1>T, <2>1, <2>2, <2>3, <2>4, <2>5 DEF SessInv
<1>6. ASSUME NEW r \in Receivers, RecvLoginFailed(r) \/ RecvLogoutFailed(r) \/ BoxClosed(r)
      PROVE  SessInv'
  <2>1. HandleNames'
    BY <1>6, <1>t, <1>i
       DEF RecvLoginFailed, RecvLogoutFailed, BoxClosed, Becomes
  <2>2. NullAfterKill'
    BY <1>6, <1>t, <1>i
       DEF RecvLoginFailed, RecvLogoutFailed, BoxClosed, Becomes
  <2>3. Listening'
    BY <1>6, <1>t, <1>i
       DEF RecvLoginFailed, RecvLogoutFailed, BoxClosed, Becomes
  <2>4. Switching'
    BY <1>6, <1>t, <1>i
       DEF RecvLoginFailed, RecvLogoutFailed, BoxClosed, Becomes
  <2>5. SomeButton'
    BY <1>6, <1>t, <1>i
       DEF RecvLoginFailed, RecvLogoutFailed, BoxClosed, Becomes
  <2> QED
    BY <1>T, <2>1, <2>2, <2>3, <2>4, <2>5 DEF SessInv
<1>7. ASSUME NEW r \in Receivers, LoginOff(r) \/ DisconnectOn(r) PROVE SessInv'
  <2>1. HandleNames'
    BY <1>7, <1>t, <1>i
       DEF LoginOff, DisconnectOn, Becomes
  <2>2. NullAfterKill'
    BY <1>7, <1>t, <1>i
       DEF LoginOff, DisconnectOn, Becomes
  <2>3. Listening'
    BY <1>7, <1>t, <1>i
       DEF LoginOff, DisconnectOn, Becomes
  <2>4. Switching'
    BY <1>7, <1>t, <1>i
       DEF LoginOff, DisconnectOn, Becomes
  <2>5. SomeButton'
    BY <1>7, <1>t, <1>i
       DEF LoginOff, DisconnectOn, Becomes
  <2> QED
    BY <1>T, <2>1, <2>2, <2>3, <2>4, <2>5 DEF SessInv
<1>8. ASSUME NEW r \in Receivers, CreateHeart(r) PROVE SessInv'
  <2>1. HandleNames'
    BY <1>8, <1>t, <1>i
       DEF CreateHeart, Becomes
  <2>2. NullAfterKill'
    BY <1>8, <1>t, <1>i
       DEF CreateHeart, Becomes
  <2>3. Listening'
    BY <1>8, <1>t, <1>i
       DEF CreateHeart, Becomes
  <2>4. Switching'
    BY <1>8, <1>t, <1>i
       DEF CreateHeart, Becomes
  <2>5. SomeButton'
    BY <1>8, <1>t, <1>i
       DEF CreateHeart, Becomes
  <2> QED
    BY <1>T, <2>1, <2>2, <2>3, <2>4, <2>5 DEF SessInv
<1>9. ASSUME NEW r \in Receivers, RecvLogoutOk(r) PROVE SessInv'
  <2>1. HandleNames'
    BY <1>9, <1>t, <1>i
       DEF RecvLogoutOk
  <2>2. NullAfterKill'
    BY <1>9, <1>t, <1>i
       DEF RecvLogoutOk
  <2>3. Listening'
    BY <1>9, <1>t, <1>i
       DEF RecvLogoutOk
  <2>4. Switching'
    BY <1>9, <1>t, <1>i
       DEF RecvLogoutOk
  <2>5. SomeButton'
    BY <1>9, <1>t, <1>i
       DEF RecvLogoutOk
  <2> QED
    BY <1>T, <2>1, <2>2, <2>3, <2>4, <2>5 DEF SessInv
<1>10. ASSUME NEW h \in Hearts, HeartTest(h) \/ HeartWakes(h) PROVE SessInv'
  <2>1. HandleNames'
    BY <1>10, <1>t, <1>i
       DEF HeartTest, HeartWakes
  <2>2. NullAfterKill'
    BY <1>10, <1>t, <1>i
       DEF HeartTest, HeartWakes
  <2>3. Listening'
    BY <1>10, <1>t, <1>i
       DEF HeartTest, HeartWakes
  <2>4. Switching'
    BY <1>10, <1>t, <1>i
       DEF HeartTest, HeartWakes
  <2>5. SomeButton'
    BY <1>10, <1>t, <1>i
       DEF HeartTest, HeartWakes
  <2> QED
    BY <1>T, <2>1, <2>2, <2>3, <2>4, <2>5 DEF SessInv
<1>11. ASSUME NEW h \in Hearts, HeartKill(h) PROVE SessInv'
  <2>1. HandleNames'
    BY <1>11, <1>t, <1>i
       DEF HeartKill
  <2>2. NullAfterKill'
    BY <1>11, <1>t, <1>i
       DEF HeartKill
  <2>3. Listening'
    BY <1>11, <1>t, <1>i
       DEF HeartKill
  <2>4. Switching'
    BY <1>11, <1>t, <1>i
       DEF HeartKill
  <2>5. SomeButton'
    BY <1>11, <1>t, <1>i
       DEF HeartKill
  <2> QED
    BY <1>T, <2>1, <2>2, <2>3, <2>4, <2>5 DEF SessInv
<1>12. ASSUME NEW h \in Hearts, HeartNull(h) PROVE SessInv'
  <2>1. HandleNames'
    BY <1>12, <1>t, <1>i
       DEF HeartNull
  <2>2. NullAfterKill'
    BY <1>12, <1>t, <1>i
       DEF HeartNull
  <2>3. Listening'
    BY <1>12, <1>t, <1>i
       DEF HeartNull
  <2>4. Switching'
    BY <1>12, <1>t, <1>i
       DEF HeartNull
  <2>5. SomeButton'
    BY <1>12, <1>t, <1>i
       DEF HeartNull
  <2> QED
    BY <1>T, <2>1, <2>2, <2>3, <2>4, <2>5 DEF SessInv
<1>13. CASE SrvLogin \/ SrvLogout \/ \E k \in NetKinds : NetLose(k)
  <2>1. HandleNames'
    BY <1>13, <1>t, <1>i
       DEF SrvLogin, SrvLogout, Answers, NetLose
  <2>2. NullAfterKill'
    BY <1>13, <1>t, <1>i
       DEF SrvLogin, SrvLogout, Answers, NetLose
  <2>3. Listening'
    BY <1>13, <1>t, <1>i
       DEF SrvLogin, SrvLogout, Answers, NetLose
  <2>4. Switching'
    BY <1>13, <1>t, <1>i
       DEF SrvLogin, SrvLogout, Answers, NetLose
  <2>5. SomeButton'
    BY <1>13, <1>t, <1>i
       DEF SrvLogin, SrvLogout, Answers, NetLose
  <2> QED
    BY <1>T, <2>1, <2>2, <2>3, <2>4, <2>5 DEF SessInv
<1>14. CASE UNCHANGED sessvars
  BY <1>14, <1>i, <1>T DEF sessvars, SessInv
<1> QED
  BY <1>1, <1>2, <1>3, <1>4, <1>5, <1>6, <1>7, <1>8, <1>9, <1>10, <1>11, <1>12, <1>13, <1>14
     DEF SessNext, DialogStep, thread_recv_proc, thread_heart_proc

(* SessInv holds in every reachable state.                                 *)
LEMMA SessInvariance == SessSpec => []SessInv
<1>1. SessInit => SessInv
  <2> SUFFICES ASSUME SessInit PROVE SessInv
    OBVIOUS
  <2>1. SessTypeOK
    BY SessInitType
  <2>2. HandleNames /\ NullAfterKill /\ Listening /\ Switching /\ SomeButton
    BY DEF SessInit, HandleNames, NullAfterKill, Listening, Switching, SomeButton, Alive
  <2> QED
    BY <2>1, <2>2 DEF SessInv
<1>2. SessInv /\ [SessNext]_sessvars => SessInv'
  BY SessInvStep
<1> QED
  BY <1>1, <1>2, PTL DEF SessSpec

-----------------------------------------------------------------------------
(* The session's state keeps its types, whatever the user does and however *)
(* the threads interleave.                                                 *)
THEOREM SessTypeCorrect == SessSpec => []SessTypeOK
BY SessInvariance, PTL DEF SessInv

(* Two receive threads run only after a login fell between a heartbeat's   *)
(* TerminateThread and its reset of h_recv (lines 226-227).                *)
THEOREM SessOneReceiver == SessSpec => []OneReceiver
<1>1. SessInv => OneReceiver
  BY DEF SessInv, HandleNames, OneReceiver
<1> QED
  BY <1>1, SessInvariance, PTL

(* A client with bLogin set has a receive thread, and h_recv names it,     *)
(* unless one of the three races has happened.                             *)
THEOREM SessLoggedInListens == SessSpec => []LoggedInListens
<1>1. SessInv => LoggedInListens
  BY DEF SessInv, Listening, LoggedInListens
<1> QED
  BY <1>1, SessInvariance, PTL

(* Both buttons are disabled only after a login was answered between a     *)
(* heartbeat's test of bLogin and its TerminateThread, or a crossing.      *)
THEOREM SessNeverStuck == SessSpec => []NeverStuck
<1>1. SessInv => NeverStuck
  BY DEF SessInv, SomeButton, NeverStuck, Running, NoRace
<1> QED
  BY <1>1, SessInvariance, PTL

=============================================================================
