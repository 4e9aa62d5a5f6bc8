-------------------------------- MODULE Eapol -------------------------------
(***************************************************************************)
(* The 4-way and the group key handshake (src/src/eapol.c) between a       *)
(* station and an access point, both run by iwd, and the installation of   *)
(* the station's keys in the kernel (src/src/netdev.c).                    *)
(*                                                                         *)
(* The authenticator sends messages 1 and 3, retried on a timer; every     *)
(* message it sends has a new replay counter, every message 1 a new        *)
(* ANonce.  The supplicant answers with 2 and 4 and hands the keys to      *)
(* netdev, which sends NEW_KEY commands and reports completion when the    *)
(* kernel has answered them all.  Access points other than iwd also start  *)
(* the handshake again (rekeying), send new group keys in a group          *)
(* handshake, and may keep the ANonce of a message 1 they repeat.          *)
(*                                                                         *)
(* A PTK is determined by the PMK and the two nonces; a frame's MIC can be *)
(* verified by whoever has the PTK it was made with.                       *)
(***************************************************************************)
EXTENDS Integers, Sequences, SequencesExt, FiniteSets

CONSTANTS
    FrameRetries,   \* EAPOL_PAIRWISE_UPDATE_COUNT, and the 3 of message 1
    MaxFaults,      \* bound: frames lost, duplicated or overtaken
    MaxRekeys,      \* bound: handshakes the access point starts again
    Envs            \* the environments explored, sets of EnvEvents

\* lossy: frames may be lost; faults: or duplicated, or overtaken; slow: timers
\* may expire while frames are on their way; early: a frame may come before
\* eapol_start(); psk: the two passphrases differ; wpa1: message 3 has no GTK, a
\* group handshake follows; rekey, group: the access point renews the PTK, the
\* GTK; no_rekey: the driver cannot; same_anonce: message 1 is repeated as it
\* was; mfp: management frame protection, an IGTK comes with every GTK;
\* key_errors: NEW_KEY may fail.
EnvEvents == {"lossy", "faults", "slow", "early", "psk", "wpa1", "rekey", "group",
              "no_rekey", "same_anonce", "mfp", "key_errors"}

ASSUME BoundsAssumption ==
    FrameRetries \in Nat \ {0} /\ MaxFaults \in Nat /\ MaxRekeys \in Nat
ASSUME EnvAssumption == Envs \subseteq SUBSET EnvEvents

VARIABLES
    sup,        \* the supplicant: struct eapol_sm and its handshake_state
    nhs,        \* the supplicant's netdev_handshake_state
    aut,        \* the authenticator: struct eapol_sm and its handshake_state
    toSta, toAp,\* frames on their way
    cmdq,       \* the station's key commands the kernel has not answered
    kernel,     \* the keys in the station's kernel
    nonces,     \* the last nonce that was made
    faults, rekeys, env,
    given,      \* history: PTKs handed to the kernel by the station, in order
    apGiven     \* history: and by the access point

histVars == <<given, apGiven>>
vars == <<sup, nhs, aut, toSta, toAp, cmdq, kernel, nonces, faults, rekeys, env,
          histVars>>

NoKey == <<>>

\* Messages 1 to 4 of the 4-way handshake, 5 and 6 of the group handshake; key
\* is the PTK the MIC is made with, and the key data are encrypted with.
Msg(n, ctr, nonce, key, gtk) ==
    [n |-> n, ctr |-> ctr, nonce |-> nonce, key |-> key, gtk |-> gtk]
NoMsg == Msg(0, 0, 0, NoKey, 0)

NoKeys == [ptk |-> NoKey, gtk |-> 0, igtk |-> 0, authorized |-> FALSE]

Init ==
    /\ sup = [alive |-> TRUE, started |-> FALSE, early |-> NoMsg, anonce |-> 0,
              snonce |-> 0, ptk |-> NoKey, ptk_complete |-> FALSE,
              replay_counter |-> 0, have_replay |-> FALSE, gtk |-> 0,
              timeout |-> TRUE, wait_for_gtk |-> FALSE]
    /\ nhs = [ptk_installed |-> FALSE, gtk_installed |-> TRUE,
              igtk_installed |-> TRUE, complete |-> FALSE, group_timeout |-> FALSE,
              completes |-> 0]
    /\ aut = [alive |-> TRUE, started |-> FALSE, replay_counter |-> 0, anonce |-> 0,
              ptk |-> NoKey, ptk_complete |-> FALSE, frame_retry |-> 0,
              timeout |-> "none", gtk |-> 1]
    /\ toSta = <<>> /\ toAp = <<>> /\ cmdq = <<>>
    /\ kernel = NoKeys
    /\ nonces = 0 /\ faults = 0 /\ rekeys = 0
    /\ env \in Envs
    /\ given = <<>> /\ apGiven = <<>>

Ptk(pmk, anonce, snonce) == <<pmk, anonce, snonce>>
SupPmk == "pmk"
AutPmk == IF "psk" \in env THEN "other pmk" ELSE "pmk"

-----------------------------------------------------------------------------
(* Key installation (netdev.c).  Commands are answered in order.            *)

\* A command: ptk, set_station and disconnect, and gtk and igtk for group key g.
Command(cmd, ptk, g) == [cmd |-> cmd, ptk |-> ptk, g |-> g]
GroupKey(cmd, g) == Command(cmd, NoKey, g)
Disconnect == Command("disconnect", NoKey, 0)

SameGroupKey(g) == g = sup.gtk

\* eapol_install_gtk(), eapol_install_igtk(), netdev_set_gtk(),
\* netdev_set_igtk(): the commands for group key g, none if it is installed.
GroupCmds(g) ==
    IF SameGroupKey(g) THEN <<>>
    ELSE IF "mfp" \in env THEN <<GroupKey("gtk", g), GroupKey("igtk", g)>>
    ELSE <<GroupKey("gtk", g)>>

\* What netdev_set_gtk() and netdev_set_igtk() do to the handshake state h.
GroupPending(h, g) ==
    IF SameGroupKey(g) THEN h
    ELSE [h EXCEPT !.gtk_installed = FALSE, !.igtk_installed = "mfp" \notin env,
                   !.group_timeout = IF sup.wait_for_gtk THEN FALSE ELSE @]

AllInstalled(h) ==
    h.ptk_installed /\ h.gtk_installed /\ h.igtk_installed /\ ~h.complete

\* try_handshake_complete(), with HANDSHAKE_EVENT_COMPLETE
TryComplete(h) ==
    IF AllInstalled(h) THEN [h EXCEPT !.complete = TRUE, !.completes = @ + 1] ELSE h

\* netdev_new_pairwise_key_cb(), netdev_new_group_key_cb(),
\* netdev_new_group_management_key_cb(), netdev_set_station_cb(), and
\* netdev_disconnect_cb(), with netdev_connect_free()
KeyAnswer ==
    /\ cmdq # <<>>
    /\ LET c == Head(cmdq)
       IN  CASE c.cmd = "ptk" ->
                  /\ kernel' = [kernel EXCEPT !.ptk = c.ptk]
                  /\ cmdq' = Append(Tail(cmdq), Command("set_station", NoKey, 0))
                  /\ UNCHANGED <<nhs, sup>>
             [] c.cmd = "gtk" ->
                  /\ kernel' = [kernel EXCEPT !.gtk = c.g]
                  /\ cmdq' = Tail(cmdq)
                  /\ nhs' = TryComplete([nhs EXCEPT !.gtk_installed = TRUE])
                  /\ UNCHANGED sup
             [] c.cmd = "igtk" ->
                  /\ kernel' = [kernel EXCEPT !.igtk = c.g]
                  /\ cmdq' = Tail(cmdq)
                  /\ nhs' = TryComplete([nhs EXCEPT !.igtk_installed = TRUE])
                  /\ UNCHANGED sup
             [] c.cmd = "set_station" ->
                  /\ kernel' = [kernel EXCEPT !.authorized = TRUE]
                  /\ cmdq' = Tail(cmdq)
                  /\ nhs' = TryComplete([nhs EXCEPT !.ptk_installed = TRUE])
                  /\ UNCHANGED sup
             [] c.cmd = "disconnect" ->
                  /\ kernel' = NoKeys
                  /\ cmdq' = <<>>
                  /\ nhs' = [nhs EXCEPT !.group_timeout = FALSE]
                  /\ sup' = [sup EXCEPT !.alive = FALSE]
    /\ UNCHANGED <<aut, toSta, toAp, nonces, faults, rekeys, env, histVars>>

\* netdev_setting_keys_failed(): pending commands are cancelled and the station
\* disconnects, unless the interface went down: then it is disconnected.
KeyError ==
    /\ "key_errors" \in env
    /\ cmdq # <<>> /\ Head(cmdq).cmd # "disconnect"
    /\ nhs' = [nhs EXCEPT !.ptk_installed = @ \/ Head(cmdq).cmd = "set_station",
                          !.group_timeout = FALSE]
    /\ \/ cmdq' = <<Disconnect>> /\ UNCHANGED <<sup, kernel>>
       \/ /\ cmdq' = <<>> /\ kernel' = NoKeys
          /\ sup' = [sup EXCEPT !.alive = FALSE]
    /\ UNCHANGED <<aut, toSta, toAp, nonces, faults, rekeys, env, histVars>>

-----------------------------------------------------------------------------
(* The supplicant. *)

Reply(m) == toAp' = Append(toAp, m)

\* Mutated form: a message may carry a replay counter that was seen.
AnyReplay(m) == TRUE

ReplayOk(m) == sup.have_replay => m.ctr > sup.replay_counter

\* eapol_verify_mic(), once message 1 was received
MicOk(m) == sup.snonce # 0 /\ m.key = sup.ptk

\* Mutated form: the nonce and the PTK of an earlier handshake are kept.
FirstHandshake(m) == sup.snonce = 0

NewHandshake(m) ==
    sup.snonce = 0 \/ sup.anonce # m.nonce \/ sup.ptk_complete

\* Mutated form: the flag of an earlier handshake survives.
DeriveOnly(s, p) == [s EXCEPT !.ptk = p]

\* handshake_state_derive_ptk()
DerivePtk(s, p) == [s EXCEPT !.ptk = p, !.ptk_complete = FALSE]

\* sm->handshake->ptk_complete && sm->handshake->no_rekey
CannotRekey == sup.ptk_complete /\ "no_rekey" \in env

\* eapol_handle_ptk_1_of_4(), a new handshake
HandlePtk1(m) ==
    /\ NewHandshake(m) /\ ~CannotRekey
    /\ nonces' = nonces + 1
    /\ LET p == Ptk(SupPmk, m.nonce, nonces + 1)
       IN  /\ sup' = DerivePtk([sup EXCEPT !.started = TRUE, !.early = NoMsg,
                                   !.snonce = nonces + 1, !.anonce = m.nonce], p)
           /\ Reply(Msg(2, m.ctr, nonces + 1, p, 0))

\* eapol_handle_ptk_1_of_4(), message 1 is repeated
HandlePtk1Again(m) ==
    /\ ~NewHandshake(m)
    /\ Reply(Msg(2, m.ctr, sup.snonce, sup.ptk, 0))
    /\ UNCHANGED <<sup, nonces>>

\* HANDSHAKE_EVENT_REKEY_FAILED: station_reconnect() disconnects, which frees
\* the state machine and cancels its commands.
RekeyFailed ==
    /\ sup' = [sup EXCEPT !.alive = FALSE]
    /\ nhs' = [nhs EXCEPT !.group_timeout = FALSE]
    /\ cmdq' = <<>> /\ kernel' = NoKeys

\* Mutated form: a repeated message 3 is treated like the first.
NeverRepeated == FALSE

\* sm->handshake->ptk_complete
Message3Repeated == sup.ptk_complete

\* eapol_handle_ptk_3_of_4(): message 4 is sent; unless this is a
\* retransmission the keys are handed over, the group key first.
HandlePtk3(m) ==
    /\ Reply(Msg(4, m.ctr, 0, sup.ptk, 0))
    /\ \/ /\ Message3Repeated
          /\ sup' = [sup EXCEPT !.replay_counter = m.ctr, !.have_replay = TRUE]
          /\ UNCHANGED <<nhs, cmdq, given>>
       \/ /\ ~Message3Repeated
          /\ sup' = [sup EXCEPT !.replay_counter = m.ctr, !.have_replay = TRUE,
                        !.ptk_complete = TRUE, !.timeout = FALSE,
                        !.wait_for_gtk = @ \/ m.gtk = 0,
                        !.gtk = IF m.gtk = 0 THEN @ ELSE m.gtk]
          /\ IF m.gtk = 0
               THEN /\ nhs' = [nhs EXCEPT !.gtk_installed = FALSE, !.group_timeout = TRUE]
                    /\ cmdq' = Append(cmdq, Command("ptk", sup.ptk, 0))
               ELSE /\ nhs' = GroupPending(nhs, m.gtk)
                    /\ cmdq' = Append(cmdq \o GroupCmds(m.gtk), Command("ptk", sup.ptk, 0))
          /\ given' = Append(given, sup.ptk)

\* eapol_handle_gtk_1_of_2()
HandleGtk1(m) ==
    /\ Reply(Msg(6, m.ctr, 0, sup.ptk, 0))
    /\ sup' = [sup EXCEPT !.replay_counter = m.ctr, !.have_replay = TRUE,
                          !.gtk = m.gtk]
    /\ nhs' = GroupPending(nhs, m.gtk)
    /\ cmdq' = cmdq \o GroupCmds(m.gtk)

\* eapol_key_handle()
KeyHandle(m) ==
    \/ /\ m.n = 1 /\ ReplayOk(m)
       /\ HandlePtk1(m) \/ HandlePtk1Again(m)
       /\ UNCHANGED <<nhs, cmdq, kernel, given>>
    \/ /\ m.n = 1 /\ ReplayOk(m) /\ NewHandshake(m) /\ CannotRekey
       /\ RekeyFailed
       /\ UNCHANGED <<nonces, toAp, given>>
    \/ /\ m.n = 3 /\ ReplayOk(m) /\ MicOk(m) /\ sup.anonce = m.nonce
       /\ HandlePtk3(m)
       /\ UNCHANGED <<nonces, kernel>>
    \/ /\ m.n = 5 /\ ReplayOk(m) /\ MicOk(m) /\ sup.ptk_complete
       /\ HandleGtk1(m)
       /\ UNCHANGED <<nonces, kernel, given>>
    \/ /\ \/ ~ReplayOk(m)
          \/ m.n # 1 /\ ~MicOk(m)
          \/ m.n = 3 /\ sup.anonce # m.nonce
          \/ m.n = 5 /\ ~sup.ptk_complete
       /\ UNCHANGED <<sup, nhs, toAp, cmdq, kernel, nonces, given>>

\* eapol_rx_packet(): the first frame that comes before eapol_start() is kept.
SupRx ==
    /\ toSta # <<>>
    /\ sup.started \/ "early" \in env
    /\ toSta' = Tail(toSta)
    /\ \/ sup.alive /\ sup.started /\ KeyHandle(Head(toSta))
       \/ /\ ~sup.started
          /\ sup' = [sup EXCEPT !.early = IF @ = NoMsg THEN Head(toSta) ELSE @]
          /\ UNCHANGED <<nhs, toAp, cmdq, kernel, nonces, given>>
       \/ ~sup.alive /\ UNCHANGED <<sup, nhs, toAp, cmdq, kernel, nonces, given>>
    /\ UNCHANGED <<aut, faults, rekeys, env, apGiven>>

\* eapol_start(): the frame that was kept, which can only be a message 1, is
\* handled.
SupStart ==
    /\ ~sup.started
    /\ \/ /\ sup.early = NoMsg
          /\ sup' = [sup EXCEPT !.started = TRUE]
          /\ UNCHANGED <<nonces, toAp>>
       \/ sup.early # NoMsg /\ HandlePtk1(sup.early)
    /\ UNCHANGED <<nhs, aut, toSta, cmdq, kernel, faults, rekeys, env, histVars>>

\* Timers expire while frames are on their way only if the environment is slow.
Quiet == toSta = <<>> /\ toAp = <<>> /\ sup.early = NoMsg

\* eapol_timeout(), handshake_failed(), netdev_handshake_failed(): the state
\* machine is freed and the station disconnects.
SupTimeout ==
    /\ sup.alive /\ sup.started /\ sup.timeout
    /\ "slow" \in env \/ (Quiet /\ aut.started /\ aut.timeout = "none")
    /\ sup' = [sup EXCEPT !.alive = FALSE, !.timeout = FALSE]
    /\ cmdq' = Append(cmdq, Disconnect)
    /\ UNCHANGED <<nhs, aut, toSta, toAp, kernel, nonces, faults, rekeys, env,
                   histVars>>

\* netdev_group_timeout_cb(): the connection is completed with no group key,
\* unless the PTK is missing, too.
GroupTimeout ==
    /\ nhs.group_timeout
    /\ "slow" \in env \/ (Quiet /\ cmdq = <<>>)
    /\ nhs' = IF nhs.ptk_installed
                THEN [nhs EXCEPT !.complete = TRUE, !.completes = @ + 1,
                                 !.group_timeout = FALSE]
                ELSE [nhs EXCEPT !.group_timeout = FALSE]
    /\ UNCHANGED <<sup, aut, toSta, toAp, cmdq, kernel, nonces, faults, rekeys, env,
                   histVars>>

-----------------------------------------------------------------------------
(* The authenticator. *)

\* eapol_set_key_timeout(): a timer is made at the first try, and later only
\* set again.
KeyTimeout(a, which) ==
    [a EXCEPT !.frame_retry = @ + 1,
              !.timeout = IF a.frame_retry = 0 THEN which ELSE @]

RetriesLeft(a) == a.frame_retry < FrameRetries

\* eapol_send_ptk_1_of_4(), with a new ANonce, and eapol_set_key_timeout()
SendPtk1(a) ==
    /\ nonces' = nonces + 1
    /\ aut' = KeyTimeout([a EXCEPT !.anonce = nonces + 1, !.ptk_complete = FALSE,
                                   !.replay_counter = @ + 1], "1_of_4")
    /\ toSta' = Append(toSta, Msg(1, aut'.replay_counter, nonces + 1, NoKey, 0))

\* eapol_send_ptk_3_of_4() and eapol_set_key_timeout()
SendPtk3(a) ==
    /\ aut' = KeyTimeout([a EXCEPT !.replay_counter = @ + 1], "3_of_4")
    /\ toSta' = Append(toSta, Msg(3, aut'.replay_counter, a.anonce, a.ptk,
                                  IF "wpa1" \in env THEN 0 ELSE a.gtk))

\* eapol_start()
AutStart ==
    /\ ~aut.started
    /\ SendPtk1([aut EXCEPT !.started = TRUE])
    /\ UNCHANGED <<sup, nhs, toAp, cmdq, kernel, faults, rekeys, env, histVars>>

\* eapol_ptk_1_of_4_retry(), eapol_ptk_3_of_4_retry()
AutTimeout ==
    /\ aut.alive /\ aut.timeout # "none"
    /\ "slow" \in env \/ Quiet
    /\ \/ /\ ~RetriesLeft(aut)
          /\ aut' = [aut EXCEPT !.alive = FALSE, !.timeout = "none"]
          /\ UNCHANGED <<toSta, nonces>>
       \/ RetriesLeft(aut) /\ aut.timeout = "1_of_4" /\ SendPtk1(aut)
       \/ RetriesLeft(aut) /\ aut.timeout = "3_of_4" /\ SendPtk3(aut) /\ UNCHANGED nonces
    /\ UNCHANGED <<sup, nhs, toAp, cmdq, kernel, faults, rekeys, env, histVars>>

\* ek->key_replay_counter == sm->replay_counter
CounterMatches(m) == m.ctr = aut.replay_counter

AutMicOk(m, p) == m.key = p

\* eapol_handle_ptk_2_of_4(): the PTK is replaced before the MIC is verified.
HandlePtk2(m) ==
    LET p == Ptk(AutPmk, aut.anonce, m.nonce)
    IN  \/ /\ CounterMatches(m) /\ AutMicOk(m, p)
           /\ SendPtk3([aut EXCEPT !.ptk = p, !.frame_retry = 0])
        \/ /\ CounterMatches(m) /\ ~AutMicOk(m, p)
           /\ aut' = [aut EXCEPT !.ptk = p]
           /\ UNCHANGED toSta
        \/ ~CounterMatches(m) /\ UNCHANGED <<aut, toSta>>

\* eapol_handle_ptk_4_of_4(): a repeated one installs nothing.
HandlePtk4(m) ==
    \/ /\ CounterMatches(m) /\ AutMicOk(m, aut.ptk)
       /\ aut' = [aut EXCEPT !.timeout = "none", !.ptk_complete = TRUE]
       /\ apGiven' = IF aut.ptk_complete THEN apGiven ELSE Append(apGiven, aut.ptk)
    \/ /\ ~(CounterMatches(m) /\ AutMicOk(m, aut.ptk))
       /\ UNCHANGED <<aut, apGiven>>

\* eapol_rx_auth_packet(), eapol_auth_key_handle(); message 6 is not expected
\* and fails eapol_verify_ptk_4_of_4().
AutRx ==
    /\ toAp # <<>>
    /\ toAp' = Tail(toAp)
    /\ \/ aut.alive /\ Head(toAp).n = 2 /\ HandlePtk2(Head(toAp)) /\ UNCHANGED apGiven
       \/ aut.alive /\ Head(toAp).n = 4 /\ HandlePtk4(Head(toAp)) /\ UNCHANGED toSta
       \/ (~aut.alive \/ Head(toAp).n = 6) /\ UNCHANGED <<aut, toSta, apGiven>>
    /\ UNCHANGED <<sup, nhs, cmdq, kernel, nonces, faults, rekeys, env, given>>

-----------------------------------------------------------------------------
(* Other access points, and the channel.  external                           *)

\* The handshake is started again.
ApRekey ==
    /\ "rekey" \in env /\ rekeys < MaxRekeys
    /\ aut.alive /\ aut.ptk_complete
    /\ rekeys' = rekeys + 1
    /\ SendPtk1([aut EXCEPT !.frame_retry = 0])
    /\ UNCHANGED <<sup, nhs, toAp, cmdq, kernel, faults, env, histVars>>

\* Message 1 is sent once more.
ApRepeat ==
    /\ "same_anonce" \in env
    /\ aut.alive /\ aut.timeout = "1_of_4" /\ RetriesLeft(aut)
    /\ aut' = KeyTimeout([aut EXCEPT !.replay_counter = @ + 1], "1_of_4")
    /\ toSta' = Append(toSta, Msg(1, aut'.replay_counter, aut.anonce, NoKey, 0))
    /\ UNCHANGED <<sup, nhs, toAp, cmdq, kernel, nonces, faults, rekeys, env, histVars>>

\* Message 1 of a group handshake, with a new group key, or the first one.
ApGroup ==
    /\ aut.alive /\ aut.ptk_complete
    /\ rekeys < MaxRekeys
    /\ rekeys' = rekeys + 1
    /\ \/ "group" \in env /\ aut' = [aut EXCEPT !.replay_counter = @ + 1, !.gtk = @ + 1]
       \/ "wpa1" \in env /\ aut' = [aut EXCEPT !.replay_counter = @ + 1]
    /\ toSta' = Append(toSta, Msg(5, aut'.replay_counter, 0, aut.ptk, aut'.gtk))
    /\ UNCHANGED <<sup, nhs, toAp, cmdq, kernel, nonces, faults, env, histVars>>

\* A frame is lost, or received twice, or overtaken by the others.
FaultyQueues(q) ==
    {Tail(q)} \cup IF "faults" \in env THEN {Append(q, Head(q)), Append(Tail(q), Head(q))}
                                       ELSE {}

Fault ==
    /\ faults < MaxFaults
    /\ "lossy" \in env \/ "faults" \in env
    /\ faults' = faults + 1
    /\ \/ toSta # <<>> /\ toSta' \in FaultyQueues(toSta) /\ UNCHANGED toAp
       \/ toAp # <<>> /\ toAp' \in FaultyQueues(toAp) /\ UNCHANGED toSta
    /\ UNCHANGED <<sup, nhs, aut, cmdq, kernel, nonces, rekeys, env, histVars>>

-----------------------------------------------------------------------------
Next ==
    \/ KeyAnswer
    \/ KeyError
    \/ SupRx
    \/ SupStart
    \/ SupTimeout
    \/ GroupTimeout
    \/ AutStart
    \/ AutTimeout
    \/ AutRx
    \/ ApRekey
    \/ ApRepeat
    \/ ApGroup
    \/ Fault

Spec == Init /\ [][Next]_vars

\* Frames and answers of the kernel are read and timers expire.
Fairness ==
    /\ WF_vars(KeyAnswer)
    /\ WF_vars(SupRx)
    /\ WF_vars(SupStart)
    /\ WF_vars(GroupTimeout)
    /\ WF_vars(AutStart)
    /\ WF_vars(AutTimeout)
    /\ WF_vars(AutRx)

FairSpec == Spec /\ Fairness

-----------------------------------------------------------------------------
Counters == 0 .. aut.replay_counter
Nonces == 0 .. nonces
Pmks == {"pmk", "other pmk"}
Keys == {NoKey} \cup (Pmks \X Nat \X Nat)
Messages == [n : 0 .. 6, ctr : Nat, nonce : Nat, key : Keys, gtk : Nat]
Commands == [cmd : {"ptk", "gtk", "igtk", "set_station", "disconnect"}, ptk : Keys,
             g : Nat]

Supplicants ==
    [alive : BOOLEAN, started : BOOLEAN, early : Messages, anonce : Nonces,
     snonce : Nonces, ptk : Keys, ptk_complete : BOOLEAN, replay_counter : Counters,
     have_replay : BOOLEAN, gtk : 0 .. MaxRekeys + 1, timeout : BOOLEAN,
     wait_for_gtk : BOOLEAN]
Authenticators ==
    [alive : BOOLEAN, started : BOOLEAN, replay_counter : Nat, anonce : Nonces,
     ptk : Keys, ptk_complete : BOOLEAN, frame_retry : 0 .. FrameRetries,
     timeout : {"none", "1_of_4", "3_of_4"}, gtk : 1 .. rekeys + 1]

Handshakes ==
    [ptk_installed : BOOLEAN, gtk_installed : BOOLEAN, igtk_installed : BOOLEAN,
     complete : BOOLEAN, group_timeout : BOOLEAN, completes : Nat]
KernelKeys == [ptk : Keys, gtk : Nat, igtk : Nat, authorized : BOOLEAN]

\* Every variable has its type, within the bounds.
TypeOK ==
    /\ sup \in Supplicants
    /\ aut \in Authenticators
    /\ nhs \in Handshakes
    /\ toSta \in Seq(Messages) /\ toAp \in Seq(Messages)
    /\ cmdq \in Seq(Commands)
    /\ kernel \in KernelKeys
    /\ nonces \in Nat /\ env \in Envs
    /\ faults \in 0 .. MaxFaults /\ rekeys \in 0 .. MaxRekeys
    /\ given \in Seq(Keys) /\ apGiven \in Seq(Keys)

\* The access point hands a PTK to its kernel only if the station has handed
\* the same PTK to its own, and while neither is in a later handshake they agree.
KeysAgree ==
    /\ ToSet(apGiven) \subseteq ToSet(given)
    /\ aut.ptk_complete /\ sup.ptk_complete => sup.ptk = aut.ptk

\* No PTK is handed to the kernel twice, however often messages 3 and 4 are
\* repeated: installing a key again would reset its packet numbers.
NoReinstallation == IsInjective(given) /\ IsInjective(apGiven)

\* Known exception: netdev_group_timeout_cb() does not look whether the handshake is
\* complete already, and netdev_set_pairwise_key_cb() starts its timer for every new
\* PTK of WPA1: after a rekey completion may be reported again, and too early.
Wpa1Rekey == {"wpa1", "rekey"} \subseteq env

\* The station reports completion only when its kernel has the PTK and has
\* authorized the port, and has the group keys, unless those are still missing
\* when the group handshake times out; it does so only once.
CompleteMeansKeys ==
    \/ Wpa1Rekey
    \/ /\ nhs.completes <= 1
       /\ nhs.complete /\ sup.alive =>
              /\ kernel.ptk # NoKey /\ kernel.authorized
              /\ \/ kernel.gtk # 0 /\ ("mfp" \in env => kernel.igtk # 0)
                 \/ sup.wait_for_gtk

\* Once nothing is under way the station's kernel uses the PTK of the access
\* point, and the last group key it was told.
KernelUpToDate ==
    Quiet /\ cmdq = <<>> /\ sup.alive /\ aut.ptk_complete
        => kernel.ptk = Last(apGiven) /\ kernel.gtk = sup.gtk

\* While the station is connected a group key is never replaced by an older one.
GroupKeysAdvance == [][kernel' # NoKeys => kernel'.gtk >= kernel.gtk]_kernel

\* The handshake completes on both sides even if frames are lost, as long as
\* there are fewer losses than retransmissions.
Completes ==
    env \cap {"slow", "faults", "psk", "key_errors", "rekey"} = {}
        => <>(nhs.complete /\ aut.ptk_complete)

\* The handshake gives both sides, and their kernels, the same keys, and
\* netdev_connect_ok() comes after all of them: in whatever order frames, timers and
\* the answers to the key commands arrive.
Inv ==
    /\ TypeOK
    /\ KeysAgree
    /\ CompleteMeansKeys
    /\ KernelUpToDate

-----------------------------------------------------------------------------
(* The inductive invariant.  First the protocol: the frames on their way and *)
(* the two state machines.                                                   *)

\* Frames go one way each, and none has a counter the authenticator has not used.
FramesSent ==
    /\ \A m \in ToSet(toSta) : m.n \in {1, 3, 5} /\ m.ctr \in Counters /\ m.nonce \in Nonces
    /\ \A m \in ToSet(toAp) : m.n \in {2, 4, 6} /\ m.ctr \in Counters /\ m.nonce \in Nonces
    /\ sup.early # NoMsg =>
           sup.early.n = 1 /\ sup.early.ctr \in Counters /\ sup.early.nonce \in Nonces

\* Before one side has started, the other is alone.
NotStarted ==
    /\ ~aut.started =>
           /\ toSta = <<>> /\ toAp = <<>> /\ sup.early = NoMsg /\ given = <<>>
           /\ aut.alive /\ aut.frame_retry = 0 /\ aut.timeout = "none"
           /\ ~aut.ptk_complete
    /\ ~sup.started =>
           /\ toAp = <<>> /\ given = <<>> /\ sup.snonce = 0 /\ ~sup.have_replay
           /\ aut.timeout # "3_of_4" /\ ~aut.ptk_complete
           /\ \A m \in ToSet(toSta) : m.n = 1

\* The timer tells what the authenticator sent last: only a message 1, or only a
\* message 3, can have its current counter while it waits for the answer.
TimerTellsPhase ==
    /\ aut.timeout # "none" => aut.alive /\ ~aut.ptk_complete
    /\ aut.ptk_complete => aut.alive
    /\ aut.timeout = "3_of_4" \/ aut.ptk_complete =>
           \E s \in Nonces : aut.ptk = Ptk(AutPmk, aut.anonce, s)
    /\ aut.alive =>
           /\ \A m \in ToSet(toSta) \cup {sup.early} \cup ToSet(toAp) :
                 m.n \in {1, 2} /\ m.ctr = aut.replay_counter => aut.timeout = "1_of_4"
           /\ \A m \in ToSet(toSta) \cup ToSet(toAp) :
                 m.n \in {3, 4} /\ m.ctr = aut.replay_counter =>
                     aut.timeout = "3_of_4" \/ aut.ptk_complete

\* The station's PTK is that of its nonces, and is in its kernel's hands if and only
\* if it is complete; a PTK with a later nonce cannot be.
StationPtk ==
    /\ sup.snonce # 0 => sup.ptk = Ptk(SupPmk, sup.anonce, sup.snonce)
    /\ sup.ptk_complete => sup.snonce # 0 /\ sup.have_replay
    /\ sup.snonce # 0 => (sup.ptk_complete <=> sup.ptk \in ToSet(given))
    /\ \A p \in ToSet(given) : p # NoKey /\ p[2] \in Nonces /\ p[3] \in Nonces

\* A message 4 is sent for a PTK that was handed to the kernel; one that answers the
\* last message 3 proves that the station has not gone on since.
Message4Proves ==
    \A m \in ToSet(toAp) : m.n = 4 =>
        /\ m.key \in ToSet(given)
        /\ m.ctr = aut.replay_counter =>
               /\ sup.have_replay /\ sup.replay_counter = m.ctr
               /\ sup.ptk_complete /\ sup.ptk = m.key

\* While the authenticator is complete the station has the same PTK, and nothing
\* but group handshakes can reach it.
BothComplete ==
    aut.ptk_complete =>
        /\ sup.ptk_complete /\ sup.have_replay /\ sup.ptk = aut.ptk
        /\ apGiven # <<>> /\ Last(apGiven) = aut.ptk
        /\ \A m \in ToSet(toSta) :
              m.ctr > sup.replay_counter => m.n = 5

\* A PTK of the current ANonce was not handed over before the handshake is complete.
FreshAnonce ==
    ~aut.ptk_complete => \A p \in ToSet(apGiven) : p[2] # aut.anonce

\* Group keys only get newer with the replay counter.
GroupKeysOrdered ==
    /\ sup.gtk <= aut.gtk
    /\ ~sup.have_replay => sup.gtk = 0
    /\ \A m \in ToSet(toSta) :
          /\ m.gtk <= aut.gtk
          /\ m.n = 3 => (m.gtk = 0 <=> "wpa1" \in env)
          /\ m.n = 5 => m.gtk # 0
          /\ m.gtk # 0 /\ m.ctr > sup.replay_counter => m.gtk >= sup.gtk
    /\ \A m1, m2 \in ToSet(toSta) :
          m1.gtk # 0 /\ m2.gtk # 0 /\ m1.ctr < m2.ctr => m1.gtk <= m2.gtk

\* Without rekeying the keys are handed over once.
NoRekeying ==
    "rekey" \notin env =>
        /\ given # <<>> =>
               /\ sup.ptk_complete /\ aut.timeout # "1_of_4"
               /\ \A m \in ToSet(toSta) : m.n = 1 => m.ctr <= sup.replay_counter
        /\ \A m \in ToSet(toSta) : m.n = 3 =>
               /\ aut.timeout # "1_of_4"
               /\ \A m1 \in ToSet(toSta) : m1.n = 1 => m1.ctr < m.ctr

Protocol ==
    /\ FramesSent /\ NotStarted /\ TimerTellsPhase /\ StationPtk /\ Message4Proves
    /\ BothComplete /\ FreshAnonce /\ GroupKeysOrdered /\ NoRekeying

(* Then the installation of the station's keys.                             *)

Pending(q, cmd) == {k \in DOMAIN q : q[k].cmd = cmd}
Leaving == Pending(cmdq, "disconnect") # {}

\* Commands carry keys.
Carry(q) ==
    \A k \in DOMAIN q :
       /\ q[k].cmd = "ptk" => q[k].ptk # NoKey
       /\ q[k].cmd \in {"gtk", "igtk"} => q[k].g # 0

\* There are no commands before the first message 3; a station that is alive and
\* leaves waits for the answer to its disconnect first.
CommandsOfKeys ==
    /\ Carry(cmdq)
    /\ given = <<>> =>
           /\ \A k \in DOMAIN cmdq : cmdq[k].cmd = "disconnect"
           /\ ~nhs.ptk_installed /\ ~nhs.complete /\ ~nhs.group_timeout
           /\ kernel = NoKeys /\ sup.gtk = 0
    /\ sup.alive /\ Leaving => given # <<>> /\ cmdq[1].cmd = "disconnect"

\* The flags of the netdev_handshake_state tell what the kernel has.
FlagsMeanKeys ==
    /\ nhs.completes = IF nhs.complete THEN 1 ELSE 0
    /\ nhs.group_timeout =>
           /\ ~nhs.complete /\ ~nhs.gtk_installed /\ sup.wait_for_gtk
           /\ Pending(cmdq, "gtk") = {} /\ (sup.alive => ~Leaving)
    /\ given # <<>> /\ "wpa1" \in env => sup.wait_for_gtk
    /\ sup.alive /\ ~Leaving /\ given # <<>> =>
           /\ Pending(cmdq, "set_station") # {} => kernel.ptk # NoKey
           /\ nhs.ptk_installed => kernel.ptk # NoKey /\ kernel.authorized
           /\ nhs.gtk_installed => kernel.gtk # 0 \/ sup.wait_for_gtk
           /\ nhs.igtk_installed /\ "mfp" \in env => kernel.igtk # 0 \/ sup.wait_for_gtk

\* When the commands q are answered the kernel, which has key now, has the key last.
LastPtk(q, key, last) ==
    \/ Pending(q, "ptk") = {} /\ key = last
    \/ \E k \in Pending(q, "ptk") :
          q[k].ptk = last /\ \A j \in Pending(q, "ptk") : j <= k
LastGtk(q, key, last) ==
    \/ Pending(q, "gtk") = {} /\ key = last
    \/ \E k \in Pending(q, "gtk") :
          q[k].g = last /\ \A j \in Pending(q, "gtk") : j <= k

\* The kernel has the last key the station made for it, or will have it.
LastKeys ==
    sup.alive /\ ~Leaving =>
        /\ sup.ptk_complete => LastPtk(cmdq, kernel.ptk, sup.ptk)
        /\ LastGtk(cmdq, kernel.gtk, sup.gtk)

\* Group keys only get newer, from the one the kernel has to the last one.
Ordered(q, key, last) ==
    /\ key <= last
    /\ \A k \in Pending(q, "gtk") : key <= q[k].g /\ q[k].g <= last
    /\ \A j, k \in Pending(q, "gtk") : j < k => q[j].g <= q[k].g
CommandsOrdered == Ordered(cmdq, kernel.gtk, sup.gtk)

Installation ==
    /\ CommandsOfKeys /\ LastKeys /\ CommandsOrdered
    /\ Wpa1Rekey \/ FlagsMeanKeys

\* What the code maintains from step to step, of which the properties above follow.
IInv == Inv /\ NoReinstallation /\ Protocol /\ Installation

=============================================================================
