---------------------------- MODULE EapolProofs ----------------------------
(***************************************************************************)
(* The key handshakes keep the invariants of module Eapol for any number   *)
(* of retries, losses and rekeys and in every environment.                 *)
(***************************************************************************)
EXTENDS Eapol, QueueTheorems

\* What the two sides know of each other, with the types it needs: inductive without
\* the keys of the kernel.
PInv == TypeOK /\ Protocol /\ KeysAgree

\* Before both sides are started nothing is known of a key or a frame.
LEMMA InitPInv == Init => PInv
  <1> SUFFICES ASSUME Init PROVE PInv
    OBVIOUS
  <1>1. TypeOK
    BY BoundsAssumption DEF Init, TypeOK, Supplicants, Authenticators, Counters, Nonces, Keys,
       Messages, Commands, Handshakes, KernelKeys,
       NoMsg, Msg, NoKey, NoKeys
  <1>2. Protocol
    BY SetOfEmpty DEF Init, Protocol, FramesSent, NotStarted, TimerTellsPhase, StationPtk,
       Message4Proves, BothComplete, FreshAnonce, GroupKeysOrdered, NoRekeying, NoMsg, Msg, NoKey
  <1>3. KeysAgree
    BY SetOfEmpty DEF Init, KeysAgree
  <1> QED
    BY <1>1, <1>2, <1>3 DEF PInv

-----------------------------------------------------------------------------
(* The protocol part.                                                       *)

\* A frame on its way to the station, or kept by it.
Received(m) ==
    /\ m \in Messages /\ m.ctr \in Counters /\ m.nonce \in Nonces
    /\ aut.alive /\ m.n = 1 /\ m.ctr = aut.replay_counter => aut.timeout = "1_of_4"

\* What the proofs need of the types of numbers.
LEMMA NumberTypes ==
    ASSUME TypeOK
    PROVE  /\ aut.replay_counter \in Nat /\ sup.replay_counter \in Nat
           /\ sup.replay_counter <= aut.replay_counter
           /\ sup.gtk \in Nat /\ aut.gtk \in Nat /\ rekeys \in Nat /\ nonces \in Nat
           /\ sup.snonce \in Nat /\ sup.anonce \in Nat /\ aut.anonce \in Nat
           /\ sup.snonce <= nonces /\ sup.anonce <= nonces /\ aut.anonce <= nonces
           /\ toSta \in Seq(Messages) /\ toAp \in Seq(Messages)
           /\ ToSet(toSta) \subseteq Messages /\ ToSet(toAp) \subseteq Messages
           /\ sup.early \in Messages
  <1>1. /\ toSta \in Seq(Messages) /\ toAp \in Seq(Messages)
        /\ ToSet(toSta) \subseteq Messages /\ ToSet(toAp) \subseteq Messages
    BY DEF TypeOK, ToSet
  <1>2. /\ aut.replay_counter \in Nat /\ rekeys \in Nat /\ nonces \in Nat
        /\ sup.early \in Messages /\ aut.gtk \in Nat
    BY BoundsAssumption DEF TypeOK, Supplicants, Authenticators
  <1>3. /\ sup.replay_counter \in Counters /\ sup.gtk \in Nat
        /\ sup.snonce \in Nonces /\ sup.anonce \in Nonces /\ aut.anonce \in Nonces
    BY BoundsAssumption DEF TypeOK, Supplicants, Authenticators
  <1> QED
    BY <1>1, <1>2, <1>3 DEF Counters, Nonces

\* The types of the fields of a frame.
LEMMA MessageTypes ==
    ASSUME NEW m \in Messages
    PROVE  m.n \in 0 .. 6 /\ m.ctr \in Nat /\ m.nonce \in Nat /\ m.gtk \in Nat /\ m.key \in Keys
  BY DEF Messages

\* The types of the frames on their way.
LEMMA FrameTypes ==
    ASSUME TypeOK
    PROVE  \A m \in ToSet(toSta) \cup ToSet(toAp) :
              m \in Messages /\ m.n \in 0 .. 6 /\ m.ctr \in Nat /\ m.nonce \in Nat /\ m.gtk \in Nat
  BY NumberTypes, MessageTypes

\* A frame that is put together has the fields it was given.
LEMMA MsgType ==
    ASSUME NEW n, NEW ctr, NEW nonce, NEW key, NEW gtk,
           n \in 0 .. 6, ctr \in Nat, nonce \in Nat, key \in Keys, gtk \in Nat
    PROVE  /\ Msg(n, ctr, nonce, key, gtk) \in Messages
           /\ Msg(n, ctr, nonce, key, gtk).n = n
           /\ Msg(n, ctr, nonce, key, gtk).ctr = ctr
           /\ Msg(n, ctr, nonce, key, gtk).nonce = nonce
           /\ Msg(n, ctr, nonce, key, gtk).key = key
           /\ Msg(n, ctr, nonce, key, gtk).gtk = gtk
  BY DEF Msg, Messages

\* The frame that stands for none.
LEMMA NoMsgType == NoMsg \in Messages /\ NoMsg.n = 0 /\ NoMsg.ctr = 0 /\ NoMsg.nonce = 0
  BY DEF NoMsg, Msg, Messages, Keys

\* A derived PTK tells the two nonces it was derived from.
LEMMA PtkType ==
    ASSUME NEW pmk, NEW a, NEW s, pmk \in Pmks, a \in Nat, s \in Nat
    PROVE  /\ Ptk(pmk, a, s) \in Keys /\ Ptk(pmk, a, s) # NoKey
           /\ Ptk(pmk, a, s)[2] = a /\ Ptk(pmk, a, s)[3] = s
  <1>1. Ptk(pmk, a, s) \in Keys
    BY Zenon DEF Ptk, Keys
  <1>2. /\ Ptk(pmk, a, s) # NoKey
        /\ Ptk(pmk, a, s)[2] = a /\ Ptk(pmk, a, s)[3] = s
    BY DEF Ptk, NoKey
  <1> QED
    BY <1>1, <1>2

\* Either side has one of the two PMKs.
LEMMA PmkTypes == SupPmk \in Pmks /\ AutPmk \in Pmks
  BY DEF SupPmk, AutPmk, Pmks

\* A new handshake begins: the station's SNonce, and with it the PTK, is fresh.
LEMMA NewHandshakeLemma ==
    ASSUME PInv, NEW m, Received(m), m.n = 1, ReplayOk(m), HandlePtk1(m),
           toSta' \in Seq(Messages), ToSet(toSta') \subseteq ToSet(toSta),
           ~sup.started => given = <<>>,
           aut.started, ~aut.ptk_complete,
           "rekey" \notin env => given = <<>>,
           UNCHANGED <<nhs, aut, cmdq, kernel, faults, rekeys, env, histVars>>
    PROVE  PInv'
  <1> DEFINE p == Ptk(SupPmk, m.nonce, nonces + 1)
             reply == Msg(2, m.ctr, nonces + 1, p, 0)
  <1> USE DEF PInv
  <1>1. /\ nonces' = nonces + 1 /\ nonces \in Nat /\ nonces' \in Nat
        /\ p \in Keys /\ reply \in Messages
        /\ toAp' = Append(toAp, reply)
        /\ UNCHANGED <<nhs, aut, cmdq, kernel, faults, rekeys, env, given, apGiven>>
    <2>1. /\ nonces' = nonces + 1 /\ nonces \in Nat
          /\ toAp' = Append(toAp, reply)
      BY NumberTypes DEF HandlePtk1, Reply
    <2>2. p \in Keys /\ reply \in Messages
      <3>1. m \in Messages /\ m.ctr \in Nat /\ m.nonce \in Nat
        BY MessageTypes DEF Received
      <3>2. p \in Keys
        BY <2>1, <3>1, PtkType, PmkTypes
      <3> QED
        BY <2>1, <3>1, <3>2, MsgType
    <2> QED
      BY <2>1, <2>2 DEF histVars
  <1>2. toAp' \in Seq(Messages) /\ ToSet(toAp') = ToSet(toAp) \cup {reply}
    BY <1>1, SetOfAppend DEF TypeOK
  <1>3. /\ sup'.started = TRUE /\ sup'.early = NoMsg /\ sup'.snonce = nonces + 1
        /\ sup'.anonce = m.nonce /\ sup'.ptk = p /\ sup'.ptk_complete = FALSE
        /\ sup'.replay_counter = sup.replay_counter /\ sup'.have_replay = sup.have_replay
        /\ sup'.gtk = sup.gtk
    BY DEF HandlePtk1, DerivePtk, TypeOK, Supplicants
  <1>4. TypeOK'
    <2>1. Counters' = Counters /\ Nonces \subseteq Nonces' /\ nonces + 1 \in Nonces'
      BY <1>1 DEF Counters, Nonces
    <2>2. m.nonce \in Nonces /\ NoMsg \in Messages
      BY NoMsgType DEF Received
    <2>3. sup' \in Supplicants'
      BY <1>1, <2>1, <2>2 DEF TypeOK, Supplicants, HandlePtk1, DerivePtk
    <2>4. aut' \in Authenticators'
      BY <1>1, <2>1, <2>2 DEF TypeOK, Authenticators
    <2> QED
      BY <1>1, <1>2, <2>1, <2>3, <2>4 DEF TypeOK
  <1>5. FramesSent'
    <2>1. /\ Counters' = Counters /\ Nonces \subseteq Nonces' /\ nonces + 1 \in Nonces'
          /\ reply.n = 2 /\ reply.ctr \in Counters /\ reply.nonce = nonces + 1
      BY <1>1 DEF Counters, Nonces, Received, Msg
    <2> HIDE DEF reply
    <2> QED
      BY <1>1, <1>2, <1>3, <2>1, SMTT(30) DEF Protocol, FramesSent
  <1>6. NotStarted'
    BY <1>1, <1>3 DEF Protocol, NotStarted
  <1> HIDE DEF reply, p
  <1>7. TimerTellsPhase'
    <2>1. AutPmk' = AutPmk /\ Nonces \subseteq Nonces'
      BY <1>1 DEF AutPmk, Nonces
    <2>2. reply.n = 2 /\ reply.ctr = m.ctr
      BY DEF reply, Msg
    <2> QED
      BY <1>1, <1>2, <1>3, <2>1, <2>2, NoMsgType DEF Protocol, TimerTellsPhase, Received, Ptk
  <1>8. StationPtk'
    <2>1. p = Ptk(SupPmk, m.nonce, nonces + 1) /\ p[3] = nonces + 1 /\ SupPmk' = SupPmk
      BY DEF p, Ptk, SupPmk
    <2>2. p \notin ToSet(given)
      BY <1>1, <2>1 DEF Protocol, StationPtk, Nonces
    <2>3. Nonces \subseteq Nonces'
      BY <1>1 DEF Nonces
    <2> QED
      BY <1>1, <1>3, <2>1, <2>2, <2>3 DEF Protocol, StationPtk, Ptk
  <1>9. Message4Proves'
    <2>1. reply.n = 2
      BY DEF reply, Msg
    <2>2. m.ctr \in Nat /\ m.ctr <= aut.replay_counter
      BY DEF Received, Counters
    <2> QED
      <3>1. ASSUME NEW r \in ToSet(toAp), r.n = 4
            PROVE  r.key \in ToSet(given) /\ r.ctr # aut.replay_counter
        BY <2>2, <3>1, NumberTypes DEF Protocol, Message4Proves, ReplayOk
      <3> QED
        BY <1>1, <1>2, <2>1, <3>1 DEF Message4Proves
  <1>10. BothComplete'
    BY <1>1 DEF BothComplete
  <1>11. FreshAnonce'
    BY <1>1 DEF Protocol, FreshAnonce
  <1>12. GroupKeysOrdered'
    BY <1>1, <1>3 DEF Protocol, GroupKeysOrdered, TypeOK
  <1>13. NoRekeying'
    BY <1>1, <1>3 DEF Protocol, NoRekeying, TypeOK
  <1>14. KeysAgree'
    BY <1>1 DEF KeysAgree
  <1> QED
    BY <1>4, <1>5, <1>6, <1>7, <1>8, <1>9, <1>10, <1>11, <1>12, <1>13, <1>14 DEF Protocol

\* Steps that leave the protocol alone: frames may only get fewer.
LEMMA SameProtocolLemma ==
    ASSUME PInv,
           toSta' \in Seq(Messages), ToSet(toSta') \subseteq ToSet(toSta),
           toAp' \in Seq(Messages), ToSet(toAp') \subseteq ToSet(toAp),
           sup' \in Supplicants,
           sup'.started = sup.started, sup'.early = sup.early,
           sup'.anonce = sup.anonce, sup'.snonce = sup.snonce, sup'.ptk = sup.ptk,
           sup'.ptk_complete = sup.ptk_complete, sup'.have_replay = sup.have_replay,
           sup'.replay_counter = sup.replay_counter, sup'.gtk = sup.gtk,
           UNCHANGED <<aut, nonces, rekeys, env, given, apGiven>>
    PROVE  Protocol' /\ KeysAgree' /\ sup' \in Supplicants' /\ aut' \in Authenticators'
  <1> USE DEF PInv
  <1>1. /\ Counters' = Counters /\ Nonces' = Nonces /\ AutPmk' = AutPmk /\ SupPmk' = SupPmk
        /\ Supplicants' = Supplicants /\ Authenticators' = Authenticators
    BY DEF Counters, Nonces, AutPmk, SupPmk, Supplicants, Authenticators
  <1>2. toSta = <<>> => toSta' = <<>>
    BY SetOfEmpty, EmptySet
  <1>3. toAp = <<>> => toAp' = <<>>
    BY SetOfEmpty, EmptySet
  <1>4. FramesSent'
    BY <1>1 DEF Protocol, FramesSent
  <1>5. NotStarted'
    BY <1>2, <1>3 DEF Protocol, NotStarted
  <1>6. TimerTellsPhase'
    BY <1>1 DEF Protocol, TimerTellsPhase, Ptk
  <1>7. StationPtk'
    BY <1>1 DEF Protocol, StationPtk, Ptk
  <1>8. Message4Proves' /\ BothComplete' /\ FreshAnonce' /\ NoRekeying'
    BY DEF Protocol, Message4Proves, BothComplete, FreshAnonce, NoRekeying
  <1>9. GroupKeysOrdered'
    BY DEF Protocol, GroupKeysOrdered
  <1>10. KeysAgree'
    BY DEF KeysAgree
  <1> QED
    BY <1>1, <1>4, <1>5, <1>6, <1>7, <1>8, <1>9, <1>10 DEF Protocol, TypeOK

\* The authenticator sends a message 1, with a new ANonce or, again, with the last.
LEMMA Message1Lemma ==
    ASSUME PInv,
           aut' \in Authenticators', aut'.alive, aut'.started,
           aut'.replay_counter = aut.replay_counter + 1,
           aut'.timeout = "1_of_4", aut'.ptk_complete = FALSE, aut'.gtk = aut.gtk,
           \/ aut'.anonce = aut.anonce /\ nonces' = nonces /\ ~aut.ptk_complete
           \/ aut'.anonce = nonces + 1 /\ nonces' = nonces + 1,
           "rekey" \notin env =>
               given = <<>> /\ \A m \in ToSet(toSta) : m.n # 3,
           toSta' = Append(toSta, Msg(1, aut'.replay_counter, aut'.anonce, NoKey, 0)),
           rekeys' \in 0 .. MaxRekeys,
           UNCHANGED <<sup, nhs, toAp, cmdq, kernel, faults, env, given, apGiven>>
    PROVE  PInv'
  <1> DEFINE msg == Msg(1, aut'.replay_counter, aut'.anonce, NoKey, 0)
  <1> USE DEF PInv
  <1>0. /\ aut.replay_counter \in Nat /\ aut'.replay_counter \in Nat /\ aut'.anonce \in Nonces'
        /\ nonces' \in Nat /\ aut'.anonce \in Nat
    <2>1. aut'.anonce \in Nonces' /\ aut.replay_counter \in Nat /\ nonces \in Nat
      BY NumberTypes DEF Authenticators
    <2> QED
      BY <2>1 DEF Nonces
  <1>1. /\ msg \in Messages /\ msg.n = 1 /\ msg.ctr = aut.replay_counter + 1
        /\ msg.nonce = aut'.anonce /\ msg.gtk = 0
    BY <1>0, MsgType DEF Keys
  <1> HIDE DEF msg
  <1>2. toSta' \in Seq(Messages) /\ ToSet(toSta') = ToSet(toSta) \cup {msg}
    BY <1>1, SetOfAppend, NumberTypes DEF msg
  <1>3. /\ Nonces \subseteq Nonces' /\ Counters \subseteq Counters' /\ msg.ctr \in Counters'
        /\ aut'.replay_counter \notin Counters
        /\ AutPmk' = AutPmk /\ SupPmk' = SupPmk
    <2>1. Nonces \subseteq Nonces'
      BY <1>0, NumberTypes DEF Nonces
    <2>2. /\ Counters \subseteq Counters' /\ msg.ctr \in Counters'
          /\ aut'.replay_counter \notin Counters
      BY <1>0, <1>1 DEF Counters
    <2> QED
      BY <2>1, <2>2 DEF AutPmk, SupPmk
  <1>4. TypeOK'
    <2>1. sup' \in Supplicants'
      BY <1>3 DEF TypeOK, Supplicants
    <2> QED
      BY <1>0, <1>2, <2>1 DEF TypeOK
  <1>5. FramesSent'
    BY <1>0, <1>1, <1>2, <1>3 DEF Protocol, FramesSent
  <1>6. NotStarted'
    BY <1>1, <1>2 DEF Protocol, NotStarted
  <1>7. TimerTellsPhase'
    BY <1>1, <1>2, <1>3, NoMsgType DEF Protocol, TimerTellsPhase, FramesSent
  <1>8. StationPtk'
    BY <1>3 DEF Protocol, StationPtk, Ptk
  <1>9. Message4Proves'
    BY <1>3 DEF Protocol, Message4Proves, FramesSent
  <1>10. BothComplete'
    BY DEF BothComplete
  <1>11. FreshAnonce'
    <2>1. ASSUME NEW p \in ToSet(apGiven) PROVE p[2] \in Nonces
      BY <2>1 DEF KeysAgree, Protocol, StationPtk
    <2>2. nonces + 1 \notin Nonces
      BY NumberTypes DEF Nonces
    <2> QED
      BY <2>1, <2>2 DEF Protocol, FreshAnonce
  <1>12. GroupKeysOrdered'
    <2>1. \A m \in ToSet(toSta') : m.gtk # 0 => m \in ToSet(toSta)
      BY <1>1, <1>2
    <2>2. \A m \in ToSet(toSta') : m.n \in {3, 5} => m \in ToSet(toSta)
      BY <1>1, <1>2
    <2>3. \A m \in ToSet(toSta') : m.gtk <= aut.gtk
      BY <1>1, <1>2, NumberTypes DEF Protocol, GroupKeysOrdered
    <2> QED
      BY <2>1, <2>2, <2>3 DEF Protocol, GroupKeysOrdered
  <1>13. NoRekeying'
    BY <1>1, <1>2 DEF Protocol, NoRekeying
  <1>14. KeysAgree'
    BY DEF KeysAgree
  <1> QED
    BY <1>4, <1>5, <1>6, <1>7, <1>8, <1>9, <1>10, <1>11, <1>12, <1>13, <1>14 DEF Protocol

\* The authenticator sends a message 3, after a message 2 that it has verified.
LEMMA Message3Lemma ==
    ASSUME PInv, NEW key, key = aut'.ptk,
           aut' \in Authenticators', aut'.alive, aut'.started, sup.started,
           aut'.replay_counter = aut.replay_counter + 1, aut'.anonce = aut.anonce,
           aut'.timeout = "3_of_4", ~aut.ptk_complete, aut'.ptk_complete = FALSE,
           aut'.gtk = aut.gtk,
           \E s \in Nonces : key = Ptk(AutPmk, aut.anonce, s),
           toSta' = Append(toSta, Msg(3, aut'.replay_counter, aut.anonce, key,
                                      IF "wpa1" \in env THEN 0 ELSE aut.gtk)),
           toAp' \in Seq(Messages), ToSet(toAp') \subseteq ToSet(toAp),
           UNCHANGED <<sup, nhs, cmdq, kernel, nonces, faults, rekeys, env, given, apGiven>>
    PROVE  PInv'
  <1> DEFINE gtk == IF "wpa1" \in env THEN 0 ELSE aut.gtk
             msg == Msg(3, aut'.replay_counter, aut.anonce, key, gtk)
  <1> USE DEF PInv
  <1>0. /\ aut.replay_counter \in Nat /\ aut'.replay_counter \in Nat /\ aut.anonce \in Nat
        /\ aut.anonce \in Nonces /\ aut.gtk \in Nat /\ aut.gtk # 0 /\ gtk \in Nat /\ key \in Keys
    <2>1. aut.gtk \in 1 .. rekeys + 1 /\ aut.anonce \in Nonces
      BY DEF TypeOK, Authenticators
    <2>2. key \in Keys
      BY DEF Authenticators
    <2>3. /\ aut.replay_counter \in Nat /\ aut.anonce \in Nat /\ aut.gtk \in Nat
          /\ rekeys \in Nat
      BY NumberTypes
    <2> QED
      BY <2>1, <2>2, <2>3
  <1> HIDE DEF gtk
  <1>1. /\ msg \in Messages /\ msg.n = 3 /\ msg.ctr = aut.replay_counter + 1
        /\ msg.nonce = aut.anonce /\ msg.gtk = gtk
    BY <1>0, MsgType
  <1>2. toSta' \in Seq(Messages) /\ ToSet(toSta') = ToSet(toSta) \cup {msg}
    BY <1>1, SetOfAppend, NumberTypes DEF gtk
  <1> HIDE DEF msg
  <1>3. /\ Nonces' = Nonces /\ Counters \subseteq Counters' /\ msg.ctr \in Counters'
        /\ aut'.replay_counter \notin Counters
        /\ AutPmk' = AutPmk /\ SupPmk' = SupPmk
    <2>1. /\ Counters \subseteq Counters' /\ msg.ctr \in Counters'
          /\ aut'.replay_counter \notin Counters
      BY <1>0, <1>1 DEF Counters
    <2> QED
      BY <2>1 DEF AutPmk, SupPmk, Nonces
  <1>4. TypeOK'
    <2>1. sup' \in Supplicants'
      BY <1>3 DEF TypeOK, Supplicants
    <2> QED
      BY <1>2, <2>1 DEF TypeOK
  <1>5. FramesSent'
    BY <1>0, <1>1, <1>2, <1>3 DEF Protocol, FramesSent
  <1>6. NotStarted'
    BY DEF NotStarted
  <1>7. TimerTellsPhase'
    <2>1. \E s \in Nonces' : aut'.ptk = Ptk(AutPmk', aut'.anonce, s)
      BY <1>3
    <2> QED
      BY <1>1, <1>2, <1>3, <2>1, NoMsgType DEF Protocol, TimerTellsPhase, FramesSent
  <1>8. StationPtk'
    BY <1>3 DEF Protocol, StationPtk, Ptk
  <1>9. Message4Proves'
    BY <1>3 DEF Protocol, Message4Proves, FramesSent
  <1>10. BothComplete'
    BY DEF BothComplete
  <1>11. FreshAnonce'
    BY DEF Protocol, FreshAnonce
  <1>12. GroupKeysOrdered'
    <2>1. \A m \in ToSet(toSta') : m.gtk <= aut.gtk
      BY <1>0, <1>1, <1>2, NumberTypes DEF Protocol, GroupKeysOrdered, gtk
    <2>2. \A m \in ToSet(toSta') : m.n = 3 => (m.gtk = 0 <=> "wpa1" \in env)
      BY <1>0, <1>1, <1>2 DEF Protocol, GroupKeysOrdered, gtk
    <2>3. \A m \in ToSet(toSta') : m.n = 5 => m.gtk # 0
      BY <1>1, <1>2 DEF Protocol, GroupKeysOrdered
    <2>4. \A m \in ToSet(toSta') :
             m.gtk # 0 /\ m.ctr > sup.replay_counter => m.gtk >= sup.gtk
      BY <1>0, <1>1, <1>2, NumberTypes DEF Protocol, GroupKeysOrdered, gtk
    <2>5. ASSUME NEW m1 \in ToSet(toSta'), NEW m2 \in ToSet(toSta'),
                 m1.gtk # 0, m2.gtk # 0, m1.ctr < m2.ctr
          PROVE  m1.gtk <= m2.gtk
      <3>1. CASE m1 = msg
        <4>1. m2 \in ToSet(toSta) => m2.ctr <= aut.replay_counter /\ m2.ctr \in Nat
          BY <1>0 DEF Protocol, FramesSent, Counters
        <4> QED
          BY <1>0, <1>1, <1>2, <2>5, <3>1, <4>1
      <3>2. CASE m1 # msg /\ m2 = msg
        BY <1>0, <1>1, <1>2, <2>1, <2>5, <3>2 DEF gtk
      <3>3. CASE m1 # msg /\ m2 # msg
        BY <1>2, <2>5, <3>3 DEF Protocol, GroupKeysOrdered
      <3> QED
        BY <3>1, <3>2, <3>3
    <2> QED
      BY <2>1, <2>2, <2>3, <2>4, <2>5 DEF Protocol, GroupKeysOrdered
  <1>13. NoRekeying'
    <2>1. ASSUME NEW m1 \in ToSet(toSta) PROVE m1.ctr < msg.ctr
      BY <1>0, <1>1, <2>1 DEF Protocol, FramesSent, Counters
    <2> QED
      BY <1>1, <1>2, <2>1 DEF Protocol, NoRekeying
  <1>14. KeysAgree'
    BY DEF KeysAgree
  <1> QED
    BY <1>4, <1>5, <1>6, <1>7, <1>8, <1>9, <1>10, <1>11, <1>12, <1>13, <1>14 DEF Protocol

\* A message 2 that is not verified: the PTK of the authenticator is overwritten, but
\* it is not in use.
LEMMA WrongMessage2Lemma ==
    ASSUME PInv, aut' \in Authenticators, aut.timeout = "1_of_4",
           aut'.alive = aut.alive, aut'.started = aut.started,
           aut'.replay_counter = aut.replay_counter, aut'.anonce = aut.anonce,
           aut'.timeout = aut.timeout, aut'.ptk_complete = aut.ptk_complete,
           aut'.gtk = aut.gtk, sup.started, aut.started,
           toAp' \in Seq(Messages), ToSet(toAp') \subseteq ToSet(toAp),
           UNCHANGED <<sup, nhs, toSta, cmdq, kernel, nonces, faults, rekeys, env, given, apGiven>>
    PROVE  PInv'
  <1> USE DEF PInv
  <1>1. /\ Nonces' = Nonces /\ Counters' = Counters /\ AutPmk' = AutPmk /\ SupPmk' = SupPmk
        /\ Supplicants' = Supplicants /\ Authenticators' = Authenticators
    BY DEF AutPmk, SupPmk, Nonces, Counters, Supplicants, Authenticators
  <1>2. ~aut.ptk_complete
    BY DEF Protocol, TimerTellsPhase
  <1>3. TypeOK'
    BY <1>1 DEF TypeOK
  <1>4. FramesSent' /\ NotStarted'
    BY <1>1 DEF Protocol, FramesSent, NotStarted
  <1>5. TimerTellsPhase'
    BY <1>2 DEF Protocol, TimerTellsPhase
  <1>6. StationPtk'
    BY <1>1 DEF Protocol, StationPtk, Ptk
  <1>7. Message4Proves' /\ BothComplete' /\ FreshAnonce' /\ NoRekeying'
    BY <1>2 DEF Protocol, Message4Proves, BothComplete, FreshAnonce, NoRekeying
  <1>8. GroupKeysOrdered' /\ KeysAgree'
    BY <1>2 DEF Protocol, GroupKeysOrdered, KeysAgree
  <1> QED
    BY <1>3, <1>4, <1>5, <1>6, <1>7, <1>8 DEF Protocol

\* The first message 4 for the current message 3 completes the authenticator: the
\* station has the same PTK and waits for nothing but group handshakes.
LEMMA Message4Lemma ==
    ASSUME PInv, NEW m \in ToSet(toAp), m.n = 4, m.ctr = aut.replay_counter,
           m.key = aut.ptk, aut.alive,
           aut' = [aut EXCEPT !.timeout = "none", !.ptk_complete = TRUE],
           apGiven' = IF aut.ptk_complete THEN apGiven ELSE Append(apGiven, aut.ptk),
           toAp' \in Seq(Messages), ToSet(toAp') \subseteq ToSet(toAp),
           UNCHANGED <<sup, nhs, toSta, cmdq, kernel, nonces, faults, rekeys, env, given>>
    PROVE  PInv'
  <1> USE DEF PInv
  <1>1. /\ Nonces' = Nonces /\ Counters' = Counters /\ AutPmk' = AutPmk /\ SupPmk' = SupPmk
        /\ Supplicants' = Supplicants /\ Authenticators' = Authenticators
    BY DEF TypeOK, Authenticators, AutPmk, SupPmk, Nonces, Counters, Supplicants
  <1>2. /\ aut' \in Authenticators /\ aut'.alive = aut.alive /\ aut'.started = aut.started
        /\ aut'.replay_counter = aut.replay_counter /\ aut'.anonce = aut.anonce
        /\ aut'.timeout = "none" /\ aut'.ptk_complete = TRUE /\ aut'.ptk = aut.ptk
        /\ aut'.gtk = aut.gtk
    BY DEF TypeOK, Authenticators
  <1>3. /\ sup.have_replay /\ sup.replay_counter = aut.replay_counter
        /\ sup.ptk_complete /\ sup.ptk = aut.ptk /\ aut.ptk \in ToSet(given)
    BY DEF Protocol, Message4Proves
  <1>4. aut.timeout = "3_of_4" \/ aut.ptk_complete
    BY DEF Protocol, TimerTellsPhase
  <1>5. toAp # <<>>
    BY SetOfEmpty
  <1>6. sup.started /\ aut.started
    BY <1>5 DEF Protocol, NotStarted
  <1>7. /\ apGiven' \in Seq(Keys) /\ apGiven' # <<>> /\ Last(apGiven') = aut.ptk
        /\ ToSet(apGiven') \subseteq ToSet(apGiven) \cup {aut.ptk}
    <2>1. aut.ptk \in Keys /\ apGiven \in Seq(Keys)
      BY DEF TypeOK, Authenticators
    <2>2. CASE aut.ptk_complete
      BY <2>1, <2>2 DEF Protocol, BothComplete
    <2>3. CASE ~aut.ptk_complete
      <3>1. apGiven' = Append(apGiven, aut.ptk)
        BY <2>3
      <3> QED
        BY <2>1, <3>1, SetOfAppend DEF Last
    <2> QED
      BY <2>2, <2>3
  <1>8. TypeOK'
    BY <1>1, <1>2, <1>7 DEF TypeOK
  <1>9. FramesSent' /\ NotStarted'
    BY <1>1, <1>2, <1>6 DEF Protocol, FramesSent, NotStarted
  <1>10. TimerTellsPhase'
    <2>1. aut.timeout # "1_of_4"
      BY <1>4 DEF Protocol, TimerTellsPhase
    <2>2. \E s \in Nonces : aut.ptk = Ptk(AutPmk, aut.anonce, s)
      BY <1>4 DEF Protocol, TimerTellsPhase
    <2> HIDE DEF Ptk
    <2> QED
      BY <1>1, <1>2, <2>1, <2>2 DEF Protocol, TimerTellsPhase
  <1>11. StationPtk'
    BY <1>1 DEF Protocol, StationPtk, Ptk
  <1>12. Message4Proves' /\ FreshAnonce' /\ NoRekeying'
    BY <1>2 DEF Protocol, Message4Proves, FreshAnonce, NoRekeying
  <1>13. BothComplete'
    <2>1. \A r \in ToSet(toSta) : ~(r.ctr > sup.replay_counter)
      BY <1>3, NumberTypes DEF Protocol, FramesSent, Counters
    <2> QED
      BY <1>2, <1>3, <1>7, <2>1 DEF BothComplete
  <1>14. GroupKeysOrdered'
    BY <1>2 DEF Protocol, GroupKeysOrdered
  <1>15. KeysAgree'
    BY <1>2, <1>3, <1>7 DEF KeysAgree
  <1> QED
    BY <1>8, <1>9, <1>10, <1>11, <1>12, <1>13, <1>14, <1>15 DEF Protocol

\* A group handshake is started.
LEMMA GroupMessageLemma ==
    ASSUME PInv, aut.ptk_complete,
           aut' \in Authenticators', aut'.alive = aut.alive, aut'.started = aut.started,
           aut'.replay_counter = aut.replay_counter + 1, aut'.anonce = aut.anonce,
           aut'.timeout = aut.timeout, aut'.ptk_complete = aut.ptk_complete,
           aut'.ptk = aut.ptk, aut'.gtk \in {aut.gtk, aut.gtk + 1},
           toSta' = Append(toSta, Msg(5, aut'.replay_counter, 0, aut.ptk, aut'.gtk)),
           rekeys' \in 0 .. MaxRekeys,
           UNCHANGED <<sup, nhs, toAp, cmdq, kernel, nonces, faults, env, given, apGiven>>
    PROVE  PInv'
  <1> DEFINE msg == Msg(5, aut'.replay_counter, 0, aut.ptk, aut'.gtk)
  <1> USE DEF PInv
  <1>0. /\ aut.replay_counter \in Nat /\ aut'.replay_counter \in Nat /\ aut.ptk \in Keys
        /\ aut.gtk \in Nat /\ aut'.gtk \in Nat /\ aut'.gtk # 0 /\ aut.gtk <= aut'.gtk
    <2>1. aut.ptk \in Keys /\ aut.gtk \in 1 .. rekeys + 1
      BY DEF TypeOK, Authenticators
    <2>2. aut.replay_counter \in Nat /\ rekeys \in Nat
      BY NumberTypes
    <2> QED
      BY <2>1, <2>2
  <1>1. /\ msg \in Messages /\ msg.n = 5 /\ msg.ctr = aut.replay_counter + 1
        /\ msg.nonce = 0 /\ msg.gtk = aut'.gtk
    BY <1>0, MsgType
  <1>2. toSta' \in Seq(Messages) /\ ToSet(toSta') = ToSet(toSta) \cup {msg}
    BY <1>1, SetOfAppend, NumberTypes
  <1> HIDE DEF msg
  <1>3. /\ Nonces' = Nonces /\ Counters \subseteq Counters' /\ msg.ctr \in Counters'
        /\ aut'.replay_counter \notin Counters /\ 0 \in Nonces
        /\ AutPmk' = AutPmk /\ SupPmk' = SupPmk
    <2>1. /\ Counters \subseteq Counters' /\ msg.ctr \in Counters'
          /\ aut'.replay_counter \notin Counters
      BY <1>0, <1>1 DEF Counters
    <2> QED
      BY <2>1, NumberTypes DEF AutPmk, SupPmk, Nonces
  <1>4. TypeOK'
    <2>1. sup' \in Supplicants'
      BY <1>3 DEF TypeOK, Supplicants
    <2> QED
      BY <1>2, <2>1 DEF TypeOK
  <1>5. FramesSent'
    BY <1>1, <1>2, <1>3 DEF Protocol, FramesSent
  <1>6. NotStarted'
    BY DEF Protocol, NotStarted
  <1>7. TimerTellsPhase'
    <2>1. \E s \in Nonces : aut.ptk = Ptk(AutPmk, aut.anonce, s)
      BY DEF Protocol, TimerTellsPhase
    <2> QED
      BY <1>1, <1>2, <1>3, <2>1, NoMsgType DEF Protocol, TimerTellsPhase, FramesSent
  <1>8. StationPtk'
    BY <1>3 DEF Protocol, StationPtk, Ptk
  <1>9. Message4Proves'
    BY <1>3 DEF Protocol, Message4Proves, FramesSent
  <1>10. BothComplete'
    BY <1>1, <1>2 DEF Protocol, BothComplete
  <1>11. FreshAnonce'
    BY DEF FreshAnonce
  <1>12. GroupKeysOrdered'
    <2>1. \A m \in ToSet(toSta') : m.gtk <= aut'.gtk
      BY <1>0, <1>1, <1>2, FrameTypes DEF Protocol, GroupKeysOrdered
    <2>2. \A m \in ToSet(toSta') :
             /\ m.n = 3 => (m.gtk = 0 <=> "wpa1" \in env)
             /\ m.n = 5 => m.gtk # 0
      BY <1>0, <1>1, <1>2 DEF Protocol, GroupKeysOrdered
    <2>3. sup.gtk <= aut'.gtk
      <3>1. sup.gtk <= aut.gtk
        BY DEF Protocol, GroupKeysOrdered
      <3>2. sup.gtk \in Nat
        BY NumberTypes
      <3> QED
        BY <1>0, <3>1, <3>2
    <2>4. \A m \in ToSet(toSta') :
             m.gtk # 0 /\ m.ctr > sup.replay_counter => m.gtk >= sup.gtk
      BY <1>0, <1>1, <1>2, <2>3, NumberTypes DEF Protocol, GroupKeysOrdered
    <2>5. ASSUME NEW m1 \in ToSet(toSta'), NEW m2 \in ToSet(toSta'),
                 m1.gtk # 0, m2.gtk # 0, m1.ctr < m2.ctr
          PROVE  m1.gtk <= m2.gtk
      <3>1. CASE m1 = msg
        <4>1. m2 \in ToSet(toSta) => m2.ctr <= aut.replay_counter /\ m2.ctr \in Nat
          BY <1>0 DEF Protocol, FramesSent, Counters
        <4> QED
          BY <1>0, <1>1, <1>2, <2>5, <3>1, <4>1
      <3>2. CASE m1 # msg /\ m2 = msg
        BY <1>1, <2>1, <3>2
      <3>3. CASE m1 # msg /\ m2 # msg
        BY <1>2, <2>5, <3>3 DEF Protocol, GroupKeysOrdered
      <3> QED
        BY <3>1, <3>2, <3>3
    <2> QED
      BY <2>1, <2>2, <2>3, <2>4, <2>5 DEF Protocol, GroupKeysOrdered
  <1>13. NoRekeying'
    BY <1>1, <1>2 DEF Protocol, NoRekeying
  <1>14. KeysAgree'
    BY DEF KeysAgree
  <1> QED
    BY <1>4, <1>5, <1>6, <1>7, <1>8, <1>9, <1>10, <1>11, <1>12, <1>13, <1>14 DEF Protocol

\* What a frame that reaches the station tells.
LEMMA ToStation ==
    ASSUME PInv, NEW m \in ToSet(toSta)
    PROVE  /\ Received(m) /\ m.n \in {1, 3, 5} /\ aut.started
           /\ ~sup.started => m.n = 1
           /\ m.ctr \in Nat /\ m.ctr <= aut.replay_counter /\ m.gtk \in Nat
  <1> USE DEF PInv
  <1>1. m \in Messages /\ m.gtk \in Nat
    BY NumberTypes, MessageTypes
  <1>2. m.n \in {1, 3, 5} /\ m.ctr \in Counters /\ m.nonce \in Nonces
    BY DEF Protocol, FramesSent
  <1>3. aut.alive /\ m.n = 1 /\ m.ctr = aut.replay_counter => aut.timeout = "1_of_4"
    BY DEF Protocol, TimerTellsPhase
  <1>4. aut.started /\ (~sup.started => m.n = 1)
    BY SetOfEmpty DEF Protocol, NotStarted
  <1>5. m.ctr \in Nat /\ m.ctr <= aut.replay_counter
    BY <1>2, NumberTypes DEF Counters
  <1> QED
    BY <1>1, <1>2, <1>3, <1>4, <1>5 DEF Received

\* A message 1 is repeated: so is the answer.
LEMMA Message1AgainLemma ==
    ASSUME PInv, NEW m \in ToSet(toSta), m.n = 1, sup.snonce # 0,
           toAp' = Append(toAp, Msg(2, m.ctr, sup.snonce, sup.ptk, 0)),
           toSta' \in Seq(Messages), ToSet(toSta') \subseteq ToSet(toSta),
           UNCHANGED <<sup, nhs, aut, cmdq, kernel, nonces, faults, rekeys, env,
                       given, apGiven>>
    PROVE  PInv'
  <1> DEFINE reply == Msg(2, m.ctr, sup.snonce, sup.ptk, 0)
  <1> USE DEF PInv
  <1>0. Received(m) /\ aut.started /\ sup.started
    BY ToStation DEF Protocol, NotStarted
  <1>1. /\ reply \in Messages /\ reply.n = 2 /\ reply.ctr = m.ctr
        /\ reply.nonce = sup.snonce
    <2>1. m.ctr \in Nat /\ sup.snonce \in Nat /\ sup.ptk \in Keys
      BY <1>0, NumberTypes, MessageTypes DEF Received, TypeOK, Supplicants
    <2> QED
      BY <2>1, MsgType
  <1>2. toAp' \in Seq(Messages) /\ ToSet(toAp') = ToSet(toAp) \cup {reply}
    BY <1>1, SetOfAppend, NumberTypes
  <1> HIDE DEF reply
  <1>3. /\ Counters' = Counters /\ Nonces' = Nonces /\ AutPmk' = AutPmk /\ SupPmk' = SupPmk
        /\ Supplicants' = Supplicants /\ Authenticators' = Authenticators
        /\ sup.snonce \in Nonces
    BY DEF Counters, Nonces, AutPmk, SupPmk, Supplicants, Authenticators, TypeOK
  <1>4. TypeOK'
    BY <1>2, <1>3 DEF TypeOK
  <1>5. FramesSent'
    BY <1>0, <1>1, <1>2, <1>3 DEF Protocol, FramesSent, Received
  <1>6. NotStarted'
    BY <1>0 DEF NotStarted
  <1>7. TimerTellsPhase'
    <2>1. aut.alive /\ reply.ctr = aut.replay_counter => aut.timeout = "1_of_4"
      BY <1>0, <1>1 DEF Received
    <2> QED
      BY <1>1, <1>2, <1>3, <2>1 DEF Protocol, TimerTellsPhase
  <1>8. StationPtk'
    BY <1>3 DEF Protocol, StationPtk, Ptk
  <1>9. Message4Proves'
    BY <1>1, <1>2 DEF Protocol, Message4Proves
  <1>10. BothComplete' /\ FreshAnonce' /\ NoRekeying'
    BY DEF Protocol, BothComplete, FreshAnonce, NoRekeying
  <1>11. GroupKeysOrdered' /\ KeysAgree'
    BY DEF Protocol, GroupKeysOrdered, KeysAgree
  <1> QED
    BY <1>4, <1>5, <1>6, <1>7, <1>8, <1>9, <1>10, <1>11 DEF Protocol

\* The types of the variables of the key installation.
InstallTypes == nhs \in Handshakes /\ cmdq \in Seq(Commands) /\ kernel \in KernelKeys

\* The station handles a message 3 or a group message: it answers, and its replay
\* counter and perhaps its group key follow the message.
LEMMA StationMessageLemma ==
    ASSUME PInv, NEW m \in ToSet(toSta), m.n \in {3, 5}, ReplayOk(m), MicOk(m),
           m.n = 5 => sup.ptk_complete,
           toAp' = Append(toAp, Msg(m.n + 1, m.ctr, 0, sup.ptk, 0)),
           toSta' \in Seq(Messages), ToSet(toSta') \subseteq ToSet(toSta),
           sup' \in Supplicants,
           sup'.started = sup.started, sup'.early = sup.early,
           sup'.anonce = sup.anonce, sup'.snonce = sup.snonce, sup'.ptk = sup.ptk,
           sup'.ptk_complete = TRUE, sup'.have_replay = TRUE,
           sup'.replay_counter = m.ctr,
           sup'.gtk = IF m.gtk # 0 /\ ~(m.n = 3 /\ sup.ptk_complete) THEN m.gtk ELSE sup.gtk,
           given' = IF sup.ptk_complete THEN given ELSE Append(given, sup.ptk),
           InstallTypes',
           UNCHANGED <<aut, kernel, nonces, faults, rekeys, env, apGiven>>
    PROVE  PInv'
  <1> DEFINE n == m.n + 1
             reply == Msg(n, m.ctr, 0, sup.ptk, 0)
  <1>n. n \in {4, 6} /\ (n = 4 <=> m.n = 3) /\ (n = 6 <=> m.n = 5)
    OBVIOUS
  <1> USE DEF PInv
  <1>0. /\ m.n \in {3, 5} /\ Received(m) /\ aut.started /\ sup.started
        /\ m.ctr \in Nat /\ m.ctr <= aut.replay_counter /\ m.gtk \in Nat
        /\ sup.replay_counter \in Nat
        /\ sup.have_replay => m.ctr > sup.replay_counter
    <2>2. Received(m) /\ aut.started /\ sup.started
      BY ToStation
    <2>3. m.ctr \in Nat /\ m.ctr <= aut.replay_counter /\ m.gtk \in Nat
      BY ToStation
    <2> QED
      BY <2>2, <2>3, NumberTypes DEF ReplayOk
  <1>1. /\ reply \in Messages /\ reply.n = n /\ reply.ctr = m.ctr
        /\ reply.nonce = 0 /\ reply.key = sup.ptk
    <2>1. sup.ptk \in Keys
      BY DEF TypeOK, Supplicants
    <2> QED
      BY <1>n, <1>0, <2>1, MsgType
  <1>2. toAp' \in Seq(Messages) /\ ToSet(toAp') = ToSet(toAp) \cup {reply}
    BY <1>1, SetOfAppend, NumberTypes
  <1> HIDE DEF reply, n
  <1>3. /\ Counters' = Counters /\ Nonces' = Nonces /\ AutPmk' = AutPmk /\ SupPmk' = SupPmk
        /\ Supplicants' = Supplicants /\ Authenticators' = Authenticators
        /\ sup.snonce \in Nonces /\ sup.anonce \in Nonces /\ 0 \in Nonces
    <2>1. 0 \in Nonces
      BY NumberTypes DEF Nonces
    <2> QED
      BY <2>1 DEF Counters, Nonces, AutPmk, SupPmk, Supplicants, Authenticators, TypeOK
  <1>4. /\ given' \in Seq(Keys) /\ sup.ptk \in ToSet(given')
        /\ ToSet(given') = ToSet(given) \cup {sup.ptk} /\ given' # <<>>
    <2>1. sup.ptk \in Keys /\ given \in Seq(Keys)
      BY DEF TypeOK, Supplicants
    <2>2. CASE sup.ptk_complete
      <3>1. sup.ptk \in ToSet(given)
        BY <2>2 DEF Protocol, StationPtk
      <3> QED
        BY <2>1, <2>2, <3>1, SetOfEmpty
    <2>3. CASE ~sup.ptk_complete
      <3>1. given' = Append(given, sup.ptk)
        BY <2>3
      <3>2. given' \in Seq(Keys) /\ ToSet(given') = ToSet(given) \cup {sup.ptk}
        BY <2>1, <3>1, SetOfAppend
      <3> QED
        BY <3>2, SetOfEmpty
    <2> QED
      BY <2>2, <2>3
  <1>5. TypeOK'
    BY <1>2, <1>3, <1>4 DEF TypeOK, InstallTypes
  <1>6. FramesSent'
    BY <1>n, <1>0, <1>1, <1>2, <1>3 DEF Protocol, FramesSent, Received
  <1>7. NotStarted'
    BY <1>0 DEF NotStarted
  <1>8. TimerTellsPhase'
    <2>1. aut.alive /\ reply.n = 4 /\ reply.ctr = aut.replay_counter =>
              aut.timeout = "3_of_4" \/ aut.ptk_complete
      BY <1>n, <1>1 DEF Protocol, TimerTellsPhase
    <2> QED
      BY <1>n, <1>1, <1>2, <1>3, <2>1 DEF Protocol, TimerTellsPhase
  <1>9. StationPtk'
    <2>1. /\ sup.snonce # 0 /\ sup.ptk = Ptk(SupPmk, sup.anonce, sup.snonce)
          /\ sup.snonce \in Nat /\ sup.anonce \in Nat
      BY NumberTypes DEF MicOk, Protocol, StationPtk
    <2>2. sup.ptk # NoKey /\ sup.ptk[2] = sup.anonce /\ sup.ptk[3] = sup.snonce
      BY <2>1, PtkType, PmkTypes
    <2> QED
      BY <1>3, <1>4, <2>1, <2>2 DEF Protocol, StationPtk
  <1>10. Message4Proves'
    <2>1. ASSUME NEW r \in ToSet(toAp), r.n = 4
          PROVE  r.key \in ToSet(given') /\ r.ctr # aut.replay_counter
      BY <1>0, <1>4, <2>1 DEF Protocol, Message4Proves
    <2> QED
      BY <1>1, <1>2, <1>4, <2>1 DEF Message4Proves
  <1>11. BothComplete'
    <2>1. ASSUME NEW r \in ToSet(toSta), r.ctr > m.ctr, aut.ptk_complete
          PROVE  r.n = 5
      <3>1. r.ctr \in Nat
        BY ToStation
      <3> QED
        BY <1>0, <2>1, <3>1 DEF Protocol, BothComplete
    <2> QED
      BY <2>1 DEF Protocol, BothComplete
  <1>12. FreshAnonce'
    BY DEF Protocol, FreshAnonce
  <1>13. GroupKeysOrdered'
    <2>0. aut.gtk \in Nat /\ sup.gtk \in Nat
      BY NumberTypes
    <2>1. sup'.gtk <= aut.gtk
      BY DEF Protocol, GroupKeysOrdered
    <2>2. ASSUME NEW r \in ToSet(toSta), r.gtk # 0, r.ctr > m.ctr
          PROVE  r.gtk >= sup'.gtk
      <3>1. r.ctr \in Nat /\ r.gtk \in Nat
        BY ToStation
      <3>2. CASE sup'.gtk = m.gtk /\ m.gtk # 0
        <4>1. m.gtk <= r.gtk
          BY <1>0, <2>2, <3>1, <3>2 DEF Protocol, GroupKeysOrdered
        <4> QED
          BY <1>0, <3>1, <3>2, <4>1
      <3>3. CASE sup'.gtk = sup.gtk
        <4>1. CASE sup.have_replay
          <5>1. r.ctr > sup.replay_counter
            BY <1>0, <2>2, <3>1, <4>1
          <5> QED
            BY <2>2, <3>3, <5>1 DEF Protocol, GroupKeysOrdered
        <4>2. CASE ~sup.have_replay
          <5>1. sup.gtk = 0
            BY <4>2 DEF Protocol, GroupKeysOrdered
          <5> QED
            BY <3>1, <3>3, <5>1
        <4> QED
          BY <4>1, <4>2
      <3> QED
        BY <3>2, <3>3
    <2> QED
      BY <2>1, <2>2 DEF Protocol, GroupKeysOrdered
  <1>14. NoRekeying'
    <2>1. ASSUME "rekey" \notin env
          PROVE  /\ aut.timeout # "1_of_4"
                 /\ \A r \in ToSet(toSta) : r.n = 1 => r.ctr <= m.ctr
      <3>1. CASE n = 4
        <4>1. /\ aut.timeout # "1_of_4"
              /\ \A r \in ToSet(toSta) : r.n = 1 => r.ctr < m.ctr
          BY <1>n, <2>1, <3>1 DEF Protocol, NoRekeying
        <4> QED
          BY <1>0, <4>1, ToStation
      <3>2. CASE n = 6
        <4>1. sup.ptk_complete /\ sup.have_replay /\ given # <<>>
          BY <1>n, <3>2, SetOfEmpty DEF Protocol, StationPtk
        <4>2. /\ aut.timeout # "1_of_4"
              /\ \A r \in ToSet(toSta) : r.n = 1 => r.ctr <= sup.replay_counter
          BY <2>1, <4>1 DEF Protocol, NoRekeying
        <4> QED
          BY <1>0, <4>1, <4>2, ToStation
      <3> QED
        BY <1>n, <3>1, <3>2
    <2> QED
      BY <2>1 DEF Protocol, NoRekeying
  <1>15. KeysAgree'
    <2>1. aut.ptk_complete => sup.ptk = aut.ptk
      BY DEF Protocol, BothComplete
    <2> QED
      BY <1>4, <2>1 DEF KeysAgree
  <1> QED
    BY <1>5, <1>6, <1>7, <1>8, <1>9, <1>10, <1>11, <1>12, <1>13, <1>14, <1>15 DEF Protocol

\* A frame that comes too early is kept, if it is the first.
LEMMA EarlyFrameLemma ==
    ASSUME PInv, NEW m \in ToSet(toSta), ~sup.started,
           sup' = [sup EXCEPT !.early = IF @ = NoMsg THEN m ELSE @],
           toSta' \in Seq(Messages), ToSet(toSta') \subseteq ToSet(toSta),
           UNCHANGED <<nhs, aut, toAp, cmdq, kernel, nonces, faults, rekeys, env,
                       given, apGiven>>
    PROVE  PInv'
  <1> USE DEF PInv
  <1>1. /\ Counters' = Counters /\ Nonces' = Nonces /\ AutPmk' = AutPmk /\ SupPmk' = SupPmk
        /\ Supplicants' = Supplicants /\ Authenticators' = Authenticators
    BY DEF Counters, Nonces, AutPmk, SupPmk, Supplicants, Authenticators
  <1>2. Received(m) /\ m.n = 1 /\ aut.started
    BY ToStation
  <1>3. /\ sup'.started = sup.started /\ sup'.anonce = sup.anonce
        /\ sup'.snonce = sup.snonce /\ sup'.ptk = sup.ptk
        /\ sup'.ptk_complete = sup.ptk_complete /\ sup'.have_replay = sup.have_replay
        /\ sup'.replay_counter = sup.replay_counter /\ sup'.gtk = sup.gtk
        /\ sup'.early = sup.early \/ sup'.early = m
    BY DEF TypeOK, Supplicants
  <1>4. TypeOK'
    <2>1. sup' \in Supplicants
      BY <1>2 DEF Received, TypeOK, Supplicants
    <2> QED
      BY <1>1, <2>1 DEF TypeOK
  <1>5. FramesSent'
    BY <1>1, <1>2, <1>3 DEF Protocol, FramesSent, Received
  <1>6. NotStarted'
    BY <1>2, <1>3 DEF Protocol, NotStarted
  <1>7. TimerTellsPhase'
    <2>1. \A r \in ToSet(toSta') \cup {sup'.early} \cup ToSet(toAp') :
             r \in ToSet(toSta) \cup {sup.early} \cup ToSet(toAp)
      BY <1>3
    <2> QED
      BY <1>1, <2>1 DEF Protocol, TimerTellsPhase
  <1>8. StationPtk'
    BY <1>1, <1>3 DEF Protocol, StationPtk, Ptk
  <1>9. Message4Proves' /\ BothComplete' /\ FreshAnonce' /\ NoRekeying'
    BY <1>3 DEF Protocol, Message4Proves, BothComplete, FreshAnonce, NoRekeying
  <1>10. GroupKeysOrdered' /\ KeysAgree'
    BY <1>3 DEF Protocol, GroupKeysOrdered, KeysAgree
  <1> QED
    BY <1>4, <1>5, <1>6, <1>7, <1>8, <1>9, <1>10 DEF Protocol

\* The authenticator gives up.
LEMMA GiveUpLemma ==
    ASSUME PInv, aut.timeout # "none",
           aut' = [aut EXCEPT !.alive = FALSE, !.timeout = "none"],
           UNCHANGED <<sup, nhs, toSta, toAp, cmdq, kernel, nonces, faults, rekeys, env,
                       given, apGiven>>
    PROVE  PInv'
  <1> USE DEF PInv
  <1>1. /\ aut' \in Authenticators /\ aut'.alive = FALSE /\ aut'.started = aut.started
        /\ aut'.replay_counter = aut.replay_counter /\ aut'.anonce = aut.anonce
        /\ aut'.timeout = "none" /\ aut'.ptk_complete = aut.ptk_complete
        /\ aut'.ptk = aut.ptk /\ aut'.gtk = aut.gtk
    BY DEF TypeOK, Authenticators
  <1>2. /\ Counters' = Counters /\ Nonces' = Nonces /\ AutPmk' = AutPmk /\ SupPmk' = SupPmk
        /\ Supplicants' = Supplicants /\ Authenticators' = Authenticators
    BY <1>1 DEF Counters, Nonces, AutPmk, SupPmk, Supplicants, Authenticators
  <1>3. ~aut.ptk_complete /\ aut.started
    BY DEF Protocol, TimerTellsPhase, NotStarted
  <1>4. TypeOK' /\ FramesSent' /\ NotStarted'
    BY <1>1, <1>2, <1>3 DEF TypeOK, Protocol, FramesSent, NotStarted
  <1>5. TimerTellsPhase'
    BY <1>1, <1>3 DEF TimerTellsPhase
  <1>6. StationPtk'
    BY <1>2 DEF Protocol, StationPtk, Ptk
  <1>7. Message4Proves' /\ BothComplete' /\ FreshAnonce' /\ NoRekeying'
    BY <1>1, <1>3 DEF Protocol, Message4Proves, BothComplete, FreshAnonce, NoRekeying
  <1>8. GroupKeysOrdered' /\ KeysAgree'
    BY <1>1, <1>3 DEF Protocol, GroupKeysOrdered, KeysAgree
  <1> QED
    BY <1>4, <1>5, <1>6, <1>7, <1>8 DEF Protocol

\* Changes of one flag keep the type of a handshake state.
LEMMA HandshakeTypes ==
    ASSUME NEW h \in Handshakes, NEW b \in BOOLEAN
    PROVE  /\ [h EXCEPT !.ptk_installed = b] \in Handshakes
           /\ [h EXCEPT !.gtk_installed = b] \in Handshakes
           /\ [h EXCEPT !.igtk_installed = b] \in Handshakes
           /\ [h EXCEPT !.group_timeout = b] \in Handshakes
           /\ TryComplete(h) \in Handshakes
  <1>1. /\ [h EXCEPT !.ptk_installed = b] \in Handshakes
        /\ [h EXCEPT !.gtk_installed = b] \in Handshakes
        /\ [h EXCEPT !.igtk_installed = b] \in Handshakes
        /\ [h EXCEPT !.group_timeout = b] \in Handshakes
    BY DEF Handshakes
  <1>2. [h EXCEPT !.complete = TRUE, !.completes = @ + 1] \in Handshakes
    <2>1. h.completes \in Nat
      BY DEF Handshakes
    <2>2. h.completes + 1 \in Nat
      BY <2>1
    <2>3. ASSUME NEW c, c \in Nat
          PROVE  [h EXCEPT !.complete = TRUE, !.completes = c] \in Handshakes
      BY <2>3 DEF Handshakes
    <2> QED
      BY <2>2, <2>3
  <1> QED
    BY <1>1, <1>2 DEF TryComplete

\* Changes of one key keep the type of the kernel's keys.
LEMMA KernelTypes ==
    ASSUME NEW k \in KernelKeys, NEW p, NEW g, p \in Keys, g \in Nat
    PROVE  /\ [k EXCEPT !.ptk = p] \in KernelKeys
           /\ [k EXCEPT !.gtk = g] \in KernelKeys
           /\ [k EXCEPT !.igtk = g] \in KernelKeys
           /\ [k EXCEPT !.authorized = TRUE] \in KernelKeys
           /\ NoKeys \in KernelKeys
  <1>1. NoKeys \in KernelKeys
    BY DEF NoKeys, KernelKeys, Keys
  <1> QED
    BY <1>1 DEF KernelKeys

\* The fields and the kinds of commands.
LEMMA CommandTypes ==
    /\ \A c \in Commands : c.ptk \in Keys /\ c.g \in Nat
    /\ \A c \in Commands : c.cmd \in {"ptk", "gtk", "igtk", "set_station", "disconnect"}
    /\ Command("set_station", NoKey, 0) \in Commands
    /\ Command("set_station", NoKey, 0).cmd = "set_station"
    /\ Disconnect \in Commands /\ Disconnect.cmd = "disconnect"
    /\ \A p \in Keys : /\ Command("ptk", p, 0) \in Commands
                       /\ Command("ptk", p, 0).cmd = "ptk" /\ Command("ptk", p, 0).ptk = p
    /\ \A g \in Nat :
          /\ GroupKey("gtk", g) \in Commands /\ GroupKey("igtk", g) \in Commands
          /\ GroupKey("gtk", g).cmd = "gtk" /\ GroupKey("gtk", g).g = g
          /\ GroupKey("igtk", g).cmd = "igtk" /\ GroupKey("igtk", g).g = g
  <1>1. NoKey \in Keys
    BY DEF Keys
  <1> QED
    BY <1>1 DEF Commands, Command, Disconnect, GroupKey

\* The commands for a group key, and what becomes of the handshake state.
LEMMA GroupTypes ==
    ASSUME TypeOK, NEW g, g \in Nat
    PROVE  /\ GroupCmds(g) \in Seq(Commands)
           /\ GroupPending(nhs, g) \in Handshakes
  <1>1. GroupKey("gtk", g) \in Commands /\ GroupKey("igtk", g) \in Commands
    BY CommandTypes
  <1>2. GroupCmds(g) \in Seq(Commands)
    BY <1>1 DEF GroupCmds
  <1>3. nhs \in Handshakes
    BY DEF TypeOK
  <1>4. GroupPending(nhs, g) \in Handshakes
    BY <1>3 DEF GroupPending, Handshakes
  <1> QED
    BY <1>2, <1>4

\* The commands and flags of the key installation keep their types.
LEMMA InstallTypesLemma ==
    ASSUME TypeOK, Next
    PROVE  InstallTypes'
  <1> USE DEF InstallTypes
  <1>0. InstallTypes
    BY DEF TypeOK
  <1>1. CASE KeyAnswer
    <2>1. cmdq # <<>> /\ Head(cmdq) \in Commands /\ Tail(cmdq) \in Seq(Commands)
      BY <1>0, <1>1 DEF KeyAnswer
    <2> DEFINE c == Head(cmdq)
    <2>2. c.ptk \in Keys /\ c.g \in Nat /\ Command("set_station", NoKey, 0) \in Commands
      BY <2>1, CommandTypes
    <2>3. c.cmd \in {"ptk", "gtk", "igtk", "set_station", "disconnect"}
      BY <2>1, CommandTypes
    <2>4. /\ NoKeys \in KernelKeys /\ [kernel EXCEPT !.ptk = c.ptk] \in KernelKeys
          /\ [kernel EXCEPT !.gtk = c.g] \in KernelKeys
          /\ [kernel EXCEPT !.igtk = c.g] \in KernelKeys
          /\ [kernel EXCEPT !.authorized = TRUE] \in KernelKeys
      BY <1>0, <2>2, KernelTypes
    <2>5. /\ TryComplete([nhs EXCEPT !.gtk_installed = TRUE]) \in Handshakes
          /\ TryComplete([nhs EXCEPT !.igtk_installed = TRUE]) \in Handshakes
          /\ TryComplete([nhs EXCEPT !.ptk_installed = TRUE]) \in Handshakes
          /\ [nhs EXCEPT !.group_timeout = FALSE] \in Handshakes
      BY <1>0, HandshakeTypes
    <2>6. /\ <<>> \in Seq(Commands)
          /\ Append(Tail(cmdq), Command("set_station", NoKey, 0)) \in Seq(Commands)
      BY <2>1, <2>2
    <2> HIDE DEF c
    <2> QED
      BY <1>0, <1>1, <2>1, <2>3, <2>4, <2>5, <2>6 DEF KeyAnswer, c
  <1>2. CASE KeyError
    <2>1. <<Disconnect>> \in Seq(Commands) /\ <<>> \in Seq(Commands)
      BY CommandTypes
    <2>2. NoKeys \in KernelKeys
      BY KernelTypes DEF NoKeys, KernelKeys, Keys
    <2>3. nhs' \in Handshakes
      BY <1>0, <1>2 DEF KeyError, Handshakes
    <2> QED
      BY <1>0, <1>2, <2>1, <2>2, <2>3 DEF KeyError
  <1>3. CASE SupRx
    <2>1. Head(toSta) \in Messages
      BY <1>3, SetOfTail DEF TypeOK, SupRx
    <2>2. Head(toSta).gtk \in Nat
      BY <2>1, MessageTypes
    <2>3. CASE UNCHANGED <<nhs, cmdq, kernel>>
      BY <1>0, <2>3
    <2>4. CASE RekeyFailed
      <3>1. NoKeys \in KernelKeys /\ <<>> \in Seq(Commands)
        BY DEF NoKeys, KernelKeys, Keys
      <3> QED
        BY <1>0, <2>4, <3>1, HandshakeTypes DEF RekeyFailed
    <2>5. CASE HandlePtk3(Head(toSta)) /\ UNCHANGED kernel
      <3>1. Command("ptk", sup.ptk, 0) \in Commands
        BY CommandTypes DEF TypeOK, Supplicants
      <3>2. /\ GroupCmds(Head(toSta).gtk) \in Seq(Commands)
            /\ GroupPending(nhs, Head(toSta).gtk) \in Handshakes
        BY <2>2, GroupTypes
      <3>3. /\ Append(cmdq \o GroupCmds(Head(toSta).gtk), Command("ptk", sup.ptk, 0))
                 \in Seq(Commands)
            /\ Append(cmdq, Command("ptk", sup.ptk, 0)) \in Seq(Commands)
        BY <1>0, <3>1, <3>2
      <3>4. [nhs EXCEPT !.gtk_installed = FALSE, !.group_timeout = TRUE] \in Handshakes
        BY <1>0 DEF Handshakes
      <3> QED
        BY <1>0, <2>5, <3>2, <3>3, <3>4 DEF HandlePtk3
    <2>6. CASE HandleGtk1(Head(toSta)) /\ UNCHANGED kernel
      BY <1>0, <2>2, <2>6, GroupTypes DEF HandleGtk1
    <2> QED
      BY <1>3, <2>3, <2>4, <2>5, <2>6 DEF SupRx, KeyHandle
  <1>4. CASE SupTimeout
    BY <1>0, <1>4, CommandTypes DEF SupTimeout
  <1>5. CASE GroupTimeout
    <2>1. nhs' \in Handshakes
      <3>1. nhs.completes \in Nat
        BY <1>0 DEF Handshakes
      <3>2. nhs.completes + 1 \in Nat
        BY <3>1
      <3>3. ASSUME NEW c, c \in Nat
            PROVE  [nhs EXCEPT !.complete = TRUE, !.completes = c, !.group_timeout = FALSE]
                      \in Handshakes
        BY <1>0, <3>3 DEF Handshakes
      <3> QED
        BY <1>0, <1>5, <3>2, <3>3, HandshakeTypes DEF GroupTimeout
    <2> QED
      BY <1>0, <1>5, <2>1 DEF GroupTimeout
  <1>6. CASE SupStart \/ AutStart \/ AutTimeout \/ AutRx \/ ApRekey \/ ApRepeat \/ ApGroup \/ Fault
    BY <1>0, <1>6 DEF SupStart, AutStart, AutTimeout, AutRx, ApRekey, ApRepeat, ApGroup, Fault
  <1> QED
    BY <1>1, <1>2, <1>3, <1>4, <1>5, <1>6 DEF Next

\* A frame that is lost, duplicated or overtaken.
LEMMA FaultLemma ==
    ASSUME NEW q \in Seq(Messages), q # <<>>, NEW r \in FaultyQueues(q)
    PROVE  r \in Seq(Messages) /\ ToSet(r) \subseteq ToSet(q)
  <1>1. /\ Head(q) \in Messages /\ Head(q) \in ToSet(q)
        /\ Tail(q) \in Seq(Messages) /\ ToSet(Tail(q)) \subseteq ToSet(q)
    BY SetOfTail
  <1>2. /\ Append(q, Head(q)) \in Seq(Messages)
        /\ ToSet(Append(q, Head(q))) = ToSet(q) \cup {Head(q)}
    BY <1>1, SetOfAppend
  <1>3. /\ Append(Tail(q), Head(q)) \in Seq(Messages)
        /\ ToSet(Append(Tail(q), Head(q))) = ToSet(Tail(q)) \cup {Head(q)}
    <2>1. \A t \in Seq(Messages), h \in Messages :
             Append(t, h) \in Seq(Messages) /\ ToSet(Append(t, h)) = ToSet(t) \cup {h}
      BY SetOfAppend
    <2> QED
      BY <1>1, <2>1, Zenon
  <1>4. r \in {Tail(q), Append(q, Head(q)), Append(Tail(q), Head(q))}
    BY DEF FaultyQueues
  <1> QED
    BY <1>1, <1>2, <1>3, <1>4

\* Steps in which at most the station goes away and frames get fewer.
LEMMA AsideLemma ==
    ASSUME PInv, Next,
           sup' \in {sup, [sup EXCEPT !.alive = FALSE],
                     [sup EXCEPT !.alive = FALSE, !.timeout = FALSE]},
           toSta' \in Seq(Messages), ToSet(toSta') \subseteq ToSet(toSta),
           toAp' \in Seq(Messages), ToSet(toAp') \subseteq ToSet(toAp),
           faults' \in 0 .. MaxFaults,
           UNCHANGED <<aut, nonces, rekeys, env, given, apGiven>>
    PROVE  PInv'
  <1> USE DEF PInv
  <1>1. /\ sup' \in Supplicants
        /\ sup'.started = sup.started /\ sup'.early = sup.early
        /\ sup'.anonce = sup.anonce /\ sup'.snonce = sup.snonce /\ sup'.ptk = sup.ptk
        /\ sup'.ptk_complete = sup.ptk_complete /\ sup'.have_replay = sup.have_replay
        /\ sup'.replay_counter = sup.replay_counter /\ sup'.gtk = sup.gtk
    BY DEF TypeOK, Supplicants
  <1>2. Protocol' /\ KeysAgree' /\ sup' \in Supplicants' /\ aut' \in Authenticators'
    BY <1>1, SameProtocolLemma
  <1>3. InstallTypes'
    BY InstallTypesLemma
  <1> QED
    BY <1>2, <1>3 DEF TypeOK, InstallTypes

\* The station handles a frame.
LEMMA SupRxLemma ==
    ASSUME PInv, Next, SupRx
    PROVE  PInv'
  <1> DEFINE m == Head(toSta)
  <1>1. /\ m \in ToSet(toSta) /\ toSta' \in Seq(Messages)
        /\ ToSet(toSta') \subseteq ToSet(toSta)
        /\ UNCHANGED <<aut, faults, rekeys, env, apGiven>>
    BY SetOfTail DEF SupRx, PInv, TypeOK
  <1>2. /\ Received(m) /\ m.n \in {1, 3, 5} /\ aut.started /\ (~sup.started => m.n = 1)
        /\ m.ctr \in Nat /\ m.ctr <= aut.replay_counter /\ m.gtk \in Nat
    BY <1>1, ToStation
  <1>3. /\ toAp \in Seq(Messages) /\ sup \in Supplicants /\ faults \in 0 .. MaxFaults
        /\ sup.ptk_complete \in BOOLEAN
        /\ aut.gtk \in Nat /\ aut.gtk <= MaxRekeys + 1 /\ MaxRekeys \in Nat
    <2>1. /\ toAp \in Seq(Messages) /\ sup \in Supplicants /\ faults \in 0 .. MaxFaults
          /\ sup.ptk_complete \in BOOLEAN
      BY DEF PInv, TypeOK, Supplicants
    <2>2. aut.gtk \in 1 .. rekeys + 1 /\ rekeys \in 0 .. MaxRekeys
      BY DEF PInv, TypeOK, Authenticators
    <2> QED
      BY <2>1, <2>2, BoundsAssumption
  <1>4. InstallTypes'
    BY InstallTypesLemma DEF PInv
  <1> HIDE DEF m
  <1>5. CASE UNCHANGED <<sup, nhs, toAp, cmdq, kernel, nonces, given>>
    BY <1>1, <1>3, <1>5, AsideLemma
  <1>6. CASE /\ ~sup.started
             /\ sup' = [sup EXCEPT !.early = IF @ = NoMsg THEN m ELSE @]
             /\ UNCHANGED <<nhs, toAp, cmdq, kernel, nonces, given>>
    BY <1>1, <1>6, EarlyFrameLemma
  <1>7. CASE m.n = 1 /\ ReplayOk(m) /\ RekeyFailed /\ UNCHANGED <<nonces, toAp, given>>
    BY <1>1, <1>3, <1>7, AsideLemma DEF RekeyFailed
  <1>8. CASE /\ m.n = 1 /\ ReplayOk(m) /\ HandlePtk1(m) /\ sup.started
             /\ UNCHANGED <<nhs, cmdq, kernel, given>>
    <2>1. ~aut.ptk_complete
      <3>1. ASSUME aut.ptk_complete PROVE m.ctr > sup.replay_counter /\ ~(m.ctr > sup.replay_counter)
        BY <1>1, <1>8, <3>1 DEF PInv, Protocol, BothComplete, ReplayOk
      <3> QED
        BY <3>1
    <2>2. "rekey" \notin env => given = <<>>
      <3> SUFFICES ASSUME "rekey" \notin env, given # <<>> PROVE FALSE
        OBVIOUS
      <3>1. sup.ptk_complete /\ m.ctr <= sup.replay_counter
        BY <1>1, <1>8 DEF PInv, Protocol, NoRekeying
      <3>2. sup.have_replay
        BY <3>1 DEF PInv, Protocol, StationPtk
      <3>3. m.ctr > sup.replay_counter /\ sup.replay_counter \in Nat
        BY <1>8, <3>2, NumberTypes DEF ReplayOk, PInv
      <3> QED
        BY <1>2, <3>1, <3>3
    <2> QED
      BY <1>1, <1>2, <1>8, <2>1, <2>2, NewHandshakeLemma DEF histVars
  <1>9. CASE /\ m.n = 1 /\ ReplayOk(m) /\ HandlePtk1Again(m)
             /\ UNCHANGED <<nhs, cmdq, kernel, given>>
    <2>1. /\ sup.snonce # 0 /\ toAp' = Append(toAp, Msg(2, m.ctr, sup.snonce, sup.ptk, 0))
          /\ UNCHANGED <<sup, nonces>>
      BY <1>9 DEF HandlePtk1Again, NewHandshake, Reply
    <2> QED
      BY <1>1, <1>9, <2>1, Message1AgainLemma
  <1>10. CASE /\ m.n = 3 /\ ReplayOk(m) /\ MicOk(m) /\ HandlePtk3(m)
              /\ UNCHANGED <<nonces, kernel>>
    <2>1. toAp' = Append(toAp, Msg(m.n + 1, m.ctr, 0, sup.ptk, 0))
      BY <1>10 DEF HandlePtk3, Reply
    <2>2. m.gtk <= aut.gtk /\ m.ctr \in Counters
      BY <1>1, <1>2 DEF PInv, Protocol, GroupKeysOrdered, Received
    <2>3. m.gtk \in 0 .. MaxRekeys + 1
      BY <1>2, <1>3, <2>2
    <2>4. CASE Message3Repeated
      <3>1. /\ sup' = [sup EXCEPT !.replay_counter = m.ctr, !.have_replay = TRUE]
            /\ given' = given /\ sup.ptk_complete
        BY <1>10, <2>4 DEF HandlePtk3, Message3Repeated
      <3>2. sup' \in Supplicants
        BY <1>3, <2>2, <3>1 DEF Supplicants
      <3>3. /\ sup'.started = sup.started /\ sup'.early = sup.early
            /\ sup'.anonce = sup.anonce /\ sup'.snonce = sup.snonce /\ sup'.ptk = sup.ptk
            /\ sup'.ptk_complete = TRUE /\ sup'.have_replay = TRUE
            /\ sup'.replay_counter = m.ctr
            /\ sup'.gtk = IF m.gtk # 0 /\ ~(m.n = 3 /\ sup.ptk_complete) THEN m.gtk ELSE sup.gtk
            /\ given' = IF sup.ptk_complete THEN given ELSE Append(given, sup.ptk)
        BY <1>3, <1>10, <3>1 DEF Supplicants
      <3> QED
        BY <1>1, <1>4, <1>10, <2>1, <3>1, <3>2, <3>3, StationMessageLemma
    <2>5. CASE ~Message3Repeated
      <3>1. /\ sup' = [sup EXCEPT !.replay_counter = m.ctr, !.have_replay = TRUE,
                        !.ptk_complete = TRUE, !.timeout = FALSE,
                        !.wait_for_gtk = @ \/ m.gtk = 0,
                        !.gtk = IF m.gtk = 0 THEN @ ELSE m.gtk]
            /\ given' = Append(given, sup.ptk) /\ ~sup.ptk_complete
        BY <1>10, <2>5 DEF HandlePtk3, Message3Repeated
      <3>2. sup' \in Supplicants
        BY <1>3, <2>2, <2>3, <3>1 DEF Supplicants
      <3>3. /\ sup'.started = sup.started /\ sup'.early = sup.early
            /\ sup'.anonce = sup.anonce /\ sup'.snonce = sup.snonce /\ sup'.ptk = sup.ptk
            /\ sup'.ptk_complete = TRUE /\ sup'.have_replay = TRUE
            /\ sup'.replay_counter = m.ctr
            /\ sup'.gtk = IF m.gtk = 0 THEN sup.gtk ELSE m.gtk
        BY <1>3, <1>10, <3>1 DEF Supplicants
      <3> QED
        BY <1>1, <1>4, <1>10, <2>1, <3>1, <3>2, <3>3, StationMessageLemma
    <2> QED
      BY <2>4, <2>5
  <1>11. CASE /\ m.n = 5 /\ ReplayOk(m) /\ MicOk(m) /\ sup.ptk_complete /\ HandleGtk1(m)
              /\ UNCHANGED <<nonces, kernel, given>>
    <2>1. /\ toAp' = Append(toAp, Msg(m.n + 1, m.ctr, 0, sup.ptk, 0))
          /\ sup' = [sup EXCEPT !.replay_counter = m.ctr, !.have_replay = TRUE, !.gtk = m.gtk]
      BY <1>11 DEF HandleGtk1, Reply
    <2>2. m.gtk <= aut.gtk /\ m.gtk # 0 /\ m.ctr \in Counters
      BY <1>1, <1>2, <1>11 DEF PInv, Protocol, GroupKeysOrdered, Received
    <2>3. m.gtk \in 0 .. MaxRekeys + 1
      BY <1>2, <1>3, <2>2
    <2>4. sup' \in Supplicants
      BY <1>3, <2>1, <2>2, <2>3 DEF Supplicants
    <2>5. /\ sup'.started = sup.started /\ sup'.early = sup.early
          /\ sup'.anonce = sup.anonce /\ sup'.snonce = sup.snonce /\ sup'.ptk = sup.ptk
          /\ sup'.ptk_complete = TRUE /\ sup'.have_replay = TRUE
          /\ sup'.replay_counter = m.ctr
          /\ sup'.gtk = IF m.gtk # 0 /\ ~(m.n = 3 /\ sup.ptk_complete) THEN m.gtk ELSE sup.gtk
          /\ given' = IF sup.ptk_complete THEN given ELSE Append(given, sup.ptk)
      BY <1>3, <1>11, <2>1, <2>2 DEF Supplicants
    <2> QED
      BY <1>1, <1>4, <1>11, <2>1, <2>2, <2>4, <2>5, StationMessageLemma
  <1> QED
    BY <1>5, <1>6, <1>7, <1>8, <1>9, <1>10, <1>11 DEF SupRx, KeyHandle, m

\* eapol_start() of the station, when no frame was kept.
LEMMA StartLemma ==
    ASSUME PInv, sup' = [sup EXCEPT !.started = TRUE],
           UNCHANGED <<nhs, aut, toSta, toAp, cmdq, kernel, nonces, faults, rekeys, env,
                       given, apGiven>>
    PROVE  PInv'
  <1> USE DEF PInv
  <1>1. /\ Counters' = Counters /\ Nonces' = Nonces /\ AutPmk' = AutPmk /\ SupPmk' = SupPmk
        /\ Supplicants' = Supplicants /\ Authenticators' = Authenticators
    BY DEF Counters, Nonces, AutPmk, SupPmk, Supplicants, Authenticators
  <1>2. /\ sup' \in Supplicants /\ sup'.started = TRUE /\ sup'.early = sup.early
        /\ sup'.anonce = sup.anonce /\ sup'.snonce = sup.snonce /\ sup'.ptk = sup.ptk
        /\ sup'.ptk_complete = sup.ptk_complete /\ sup'.have_replay = sup.have_replay
        /\ sup'.replay_counter = sup.replay_counter /\ sup'.gtk = sup.gtk
    BY DEF TypeOK, Supplicants
  <1>3. TypeOK' /\ FramesSent' /\ NotStarted'
    BY <1>1, <1>2 DEF TypeOK, Protocol, FramesSent, NotStarted
  <1>4. TimerTellsPhase'
    BY <1>1, <1>2 DEF Protocol, TimerTellsPhase, Ptk
  <1>5. StationPtk'
    BY <1>1, <1>2 DEF Protocol, StationPtk, Ptk
  <1>6. Message4Proves' /\ BothComplete' /\ FreshAnonce' /\ NoRekeying'
    BY <1>2 DEF Protocol, Message4Proves, BothComplete, FreshAnonce, NoRekeying
  <1>7. GroupKeysOrdered' /\ KeysAgree'
    BY <1>2 DEF Protocol, GroupKeysOrdered, KeysAgree
  <1> QED
    BY <1>3, <1>4, <1>5, <1>6, <1>7 DEF Protocol

\* eapol_start() of the station.
LEMMA SupStartLemma ==
    ASSUME PInv, SupStart
    PROVE  PInv'
  <1>1. UNCHANGED <<nhs, aut, toSta, cmdq, kernel, faults, rekeys, env, given, apGiven>>
    BY DEF SupStart, histVars
  <1>2. CASE sup.early = NoMsg
    BY <1>1, <1>2, StartLemma DEF SupStart
  <1>3. CASE sup.early # NoMsg
    <2>1. HandlePtk1(sup.early) /\ ~sup.started
      BY <1>3 DEF SupStart
    <2>2. /\ sup.early \in Messages /\ sup.early.n = 1
          /\ sup.early.ctr \in Counters /\ sup.early.nonce \in Nonces
      BY <1>3, NumberTypes DEF PInv, Protocol, FramesSent
    <2>3. Received(sup.early)
      BY <2>2 DEF Received, PInv, Protocol, TimerTellsPhase
    <2>4. /\ given = <<>> /\ ~sup.have_replay /\ ~aut.ptk_complete /\ aut.started
          /\ toSta \in Seq(Messages)
      BY <1>3, <2>1, NumberTypes DEF PInv, Protocol, NotStarted
    <2>5. ReplayOk(sup.early)
      BY <2>4 DEF ReplayOk
    <2> QED
      BY <1>1, <2>1, <2>2, <2>3, <2>4, <2>5, NewHandshakeLemma DEF histVars
  <1> QED
    BY <1>2, <1>3

\* What eapol_set_key_timeout() makes of an authenticator that may try once more.
LEMMA KeyTimeoutLemma ==
    ASSUME NEW a, a \in Authenticators, NEW which, which \in {"1_of_4", "3_of_4"},
           a.frame_retry = 0 \/ (RetriesLeft(a) /\ a.timeout = which)
    PROVE  /\ KeyTimeout(a, which) \in Authenticators
           /\ KeyTimeout(a, which).timeout = which
           /\ KeyTimeout(a, which).alive = a.alive
           /\ KeyTimeout(a, which).started = a.started
           /\ KeyTimeout(a, which).replay_counter = a.replay_counter
           /\ KeyTimeout(a, which).anonce = a.anonce
           /\ KeyTimeout(a, which).ptk = a.ptk
           /\ KeyTimeout(a, which).ptk_complete = a.ptk_complete
           /\ KeyTimeout(a, which).gtk = a.gtk
  <1>1. a.frame_retry \in 0 .. FrameRetries /\ FrameRetries \in Nat \ {0}
    BY BoundsAssumption DEF Authenticators
  <1>2. a.frame_retry + 1 \in 0 .. FrameRetries
    BY <1>1 DEF RetriesLeft
  <1>4. KeyTimeout(a, which) = [a EXCEPT !.frame_retry = a.frame_retry + 1, !.timeout = which]
    BY DEF KeyTimeout, Authenticators
  <1>5. KeyTimeout(a, which) \in Authenticators
    <2>1. ASSUME NEW r, r \in 0 .. FrameRetries
          PROVE  [a EXCEPT !.frame_retry = r, !.timeout = which] \in Authenticators
      BY <2>1 DEF Authenticators
    <2> QED
      BY <1>2, <1>4, <2>1, Zenon
  <1> QED
    BY <1>4, <1>5 DEF Authenticators

\* A larger bound allows more group keys.
LEMMA IntervalLemma ==
    ASSUME NEW i, NEW j, i \in Nat, j \in Nat, i <= j
    PROVE  1 .. i + 1 \subseteq 1 .. j + 1
  OBVIOUS

\* A message 1 is sent: at the start, when the timer expires, or for a new handshake.
LEMMA SendPtk1Lemma ==
    ASSUME PInv, NEW a, a \in Authenticators,
           a.frame_retry = 0 \/ (RetriesLeft(a) /\ a.timeout = "1_of_4"),
           a.alive, a.started, a.replay_counter = aut.replay_counter, a.gtk = aut.gtk,
           SendPtk1(a), rekeys' \in 0 .. MaxRekeys, rekeys' >= rekeys,
           "rekey" \notin env => given = <<>> /\ \A m \in ToSet(toSta) : m.n # 3,
           UNCHANGED <<sup, nhs, toAp, cmdq, kernel, faults, env, given, apGiven>>
    PROVE  PInv'
  <1> DEFINE b == [a EXCEPT !.anonce = nonces + 1, !.ptk_complete = FALSE,
                            !.replay_counter = @ + 1]
  <1>1. nonces \in Nat /\ nonces' = nonces + 1 /\ aut.replay_counter \in Nat /\ rekeys \in Nat
    BY NumberTypes DEF SendPtk1, PInv
  <1>2. Authenticators \subseteq Authenticators'
    <2>1. Nonces \subseteq Nonces'
      BY <1>1 DEF Nonces
    <2>2. 1 .. rekeys + 1 \subseteq 1 .. rekeys' + 1
      <3>1. rekeys' \in Nat
        BY BoundsAssumption
      <3>2. rekeys \in Nat /\ rekeys <= rekeys'
        BY <1>1, <3>1
      <3> QED
        BY <3>1, <3>2, IntervalLemma
    <2> QED
      BY <2>1, <2>2 DEF Authenticators
  <1>3. a \in Authenticators' /\ nonces + 1 \in Nonces' /\ aut.replay_counter + 1 \in Nat
    BY <1>1, <1>2 DEF Nonces
  <1>4. b \in Authenticators'
    BY <1>3 DEF Authenticators
  <1>5. /\ b.anonce = nonces + 1 /\ b.ptk_complete = FALSE
        /\ b.replay_counter = aut.replay_counter + 1 /\ b.alive /\ b.started
        /\ b.gtk = aut.gtk /\ b.frame_retry = a.frame_retry /\ b.timeout = a.timeout
    BY <1>3 DEF Authenticators
  <1> HIDE DEF b
  <1>6. aut' = KeyTimeout(b, "1_of_4")
    BY DEF SendPtk1, b
  <1>7. /\ aut' \in Authenticators' /\ aut'.timeout = "1_of_4" /\ aut'.alive = b.alive
        /\ aut'.started = b.started /\ aut'.replay_counter = b.replay_counter
        /\ aut'.anonce = b.anonce /\ aut'.ptk_complete = b.ptk_complete /\ aut'.gtk = b.gtk
    <2>1. b.frame_retry = 0 \/ (RetriesLeft(b) /\ b.timeout = "1_of_4")
      BY <1>5 DEF RetriesLeft
    <2>2. b.frame_retry \in 0 .. FrameRetries /\ FrameRetries \in Nat \ {0}
      BY <1>4, BoundsAssumption DEF Authenticators
    <2>3. b.frame_retry + 1 \in 0 .. FrameRetries
      BY <2>1, <2>2 DEF RetriesLeft
    <2>4. aut' = [b EXCEPT !.frame_retry = b.frame_retry + 1, !.timeout = "1_of_4"]
      BY <1>4, <1>6, <2>1 DEF KeyTimeout, Authenticators
    <2>5. ASSUME NEW r, r \in 0 .. FrameRetries
          PROVE  [b EXCEPT !.frame_retry = r, !.timeout = "1_of_4"] \in Authenticators'
      BY <1>4, <2>5 DEF Authenticators
    <2>6. aut' \in Authenticators'
      BY <2>3, <2>4, <2>5, Zenon
    <2> QED
      BY <1>4, <2>4, <2>6 DEF Authenticators
  <1>8. toSta' = Append(toSta, Msg(1, aut'.replay_counter, aut'.anonce, NoKey, 0))
    BY <1>5, <1>7 DEF SendPtk1
  <1>9. /\ aut'.alive /\ aut'.started /\ aut'.replay_counter = aut.replay_counter + 1
        /\ aut'.timeout = "1_of_4" /\ aut'.ptk_complete = FALSE /\ aut'.gtk = aut.gtk
        /\ aut'.anonce = nonces + 1
    BY <1>5, <1>7
  <1> QED
    BY <1>1, <1>7, <1>8, <1>9, Message1Lemma

\* A message 3 is sent, for the first time or again.
LEMMA SendPtk3Lemma ==
    ASSUME PInv, NEW a, a \in Authenticators,
           a.frame_retry = 0 \/ (RetriesLeft(a) /\ a.timeout = "3_of_4"),
           a.alive, a.started, a.replay_counter = aut.replay_counter, a.gtk = aut.gtk,
           a.anonce = aut.anonce, ~aut.ptk_complete, a.ptk_complete = FALSE, sup.started,
           \E s \in Nonces : a.ptk = Ptk(AutPmk, aut.anonce, s),
           SendPtk3(a),
           toAp' \in Seq(Messages), ToSet(toAp') \subseteq ToSet(toAp),
           UNCHANGED <<sup, nhs, cmdq, kernel, nonces, faults, rekeys, env, given, apGiven>>
    PROVE  PInv'
  <1> DEFINE b == [a EXCEPT !.replay_counter = @ + 1]
  <1>1. aut.replay_counter \in Nat /\ aut.replay_counter + 1 \in Nat
    BY NumberTypes DEF PInv
  <1>2. Authenticators' = Authenticators
    BY DEF Authenticators, Nonces
  <1>3. b \in Authenticators
    BY <1>1 DEF Authenticators
  <1>4. /\ b.anonce = a.anonce /\ b.ptk_complete = FALSE
        /\ b.replay_counter = aut.replay_counter + 1 /\ b.alive /\ b.started
        /\ b.gtk = aut.gtk /\ b.frame_retry = a.frame_retry /\ b.timeout = a.timeout
        /\ b.ptk = a.ptk
    BY <1>3 DEF Authenticators
  <1> HIDE DEF b
  <1>5. aut' = KeyTimeout(b, "3_of_4")
    BY DEF SendPtk3, b
  <1>6. b.frame_retry = 0 \/ (RetriesLeft(b) /\ b.timeout = "3_of_4")
    BY <1>4 DEF RetriesLeft
  <1>7. /\ aut' \in Authenticators /\ aut'.timeout = "3_of_4" /\ aut'.alive = b.alive
        /\ aut'.started = b.started /\ aut'.replay_counter = b.replay_counter
        /\ aut'.anonce = b.anonce /\ aut'.ptk_complete = b.ptk_complete /\ aut'.gtk = b.gtk
        /\ aut'.ptk = b.ptk
    BY <1>3, <1>5, <1>6, KeyTimeoutLemma
  <1>8. toSta' = Append(toSta, Msg(3, aut'.replay_counter, aut.anonce, a.ptk,
                                   IF "wpa1" \in env THEN 0 ELSE aut.gtk))
    BY DEF SendPtk3
  <1> QED
    BY <1>2, <1>4, <1>7, <1>8, Message3Lemma

\* The authenticator's timer expires.
LEMMA AutTimeoutLemma ==
    ASSUME PInv, AutTimeout
    PROVE  PInv'
  <1>1. /\ aut \in Authenticators /\ aut.timeout # "none" /\ aut.alive
        /\ ~aut.ptk_complete /\ aut.ptk_complete = FALSE /\ aut.started
        /\ toAp \in Seq(Messages) /\ rekeys \in 0 .. MaxRekeys /\ rekeys >= rekeys
    <2>1. aut \in Authenticators /\ aut.timeout # "none" /\ aut.alive
      BY DEF PInv, TypeOK, AutTimeout
    <2>2. ~aut.ptk_complete /\ aut.started
      BY <2>1 DEF PInv, Protocol, TimerTellsPhase, NotStarted
    <2>3. aut.ptk_complete = FALSE
      BY <2>1, <2>2 DEF Authenticators
    <2>4. toAp \in Seq(Messages) /\ rekeys \in 0 .. MaxRekeys /\ rekeys >= rekeys
      BY NumberTypes DEF PInv, TypeOK
    <2> QED
      BY <2>1, <2>2, <2>3, <2>4
  <1>2. UNCHANGED <<sup, nhs, toAp, cmdq, kernel, faults, rekeys, env, given, apGiven>>
    BY DEF AutTimeout, histVars
  <1>3. CASE ~RetriesLeft(aut)
    BY <1>1, <1>2, <1>3, GiveUpLemma DEF AutTimeout
  <1>4. CASE RetriesLeft(aut) /\ aut.timeout = "1_of_4"
    <2>1. SendPtk1(aut)
      BY <1>4 DEF AutTimeout
    <2>2. "rekey" \notin env => given = <<>> /\ \A m \in ToSet(toSta) : m.n # 3
      BY <1>4 DEF PInv, Protocol, NoRekeying
    <2> QED
      BY <1>1, <1>2, <1>4, <2>1, <2>2, SendPtk1Lemma
  <1>5. CASE RetriesLeft(aut) /\ aut.timeout = "3_of_4"
    <2>1. SendPtk3(aut) /\ UNCHANGED nonces
      BY <1>5 DEF AutTimeout
    <2>2. sup.started /\ \E s \in Nonces : aut.ptk = Ptk(AutPmk, aut.anonce, s)
      BY <1>5 DEF PInv, Protocol, NotStarted, TimerTellsPhase
    <2> QED
      BY <1>1, <1>2, <1>5, <2>1, <2>2, SendPtk3Lemma
  <1> QED
    BY <1>1, <1>3, <1>4, <1>5 DEF Authenticators

\* The authenticator handles a frame.
LEMMA AutRxLemma ==
    ASSUME PInv, Next, AutRx
    PROVE  PInv'
  <1> DEFINE m == Head(toAp)
             p == Ptk(AutPmk, aut.anonce, m.nonce)
  <1>1. /\ m \in ToSet(toAp) /\ toAp' \in Seq(Messages)
        /\ ToSet(toAp') \subseteq ToSet(toAp) /\ toAp # <<>>
        /\ UNCHANGED <<sup, nhs, cmdq, kernel, nonces, faults, rekeys, env, given>>
    BY SetOfTail DEF AutRx, PInv, TypeOK
  <1>2. /\ toSta \in Seq(Messages) /\ aut \in Authenticators /\ faults \in 0 .. MaxFaults
        /\ sup.started /\ aut.started
    BY <1>1 DEF PInv, TypeOK, Protocol, NotStarted
  <1>3. m.nonce \in Nonces /\ m.nonce \in Nat /\ aut.anonce \in Nat
    BY <1>1, NumberTypes, FrameTypes DEF PInv, Protocol, FramesSent
  <1>4. p \in Keys
    BY <1>3, PtkType, PmkTypes
  <1> HIDE DEF m
  <1>5. CASE UNCHANGED <<aut, toSta, apGiven>>
    BY <1>1, <1>2, <1>5, AsideLemma
  <1>6. CASE /\ aut.alive /\ m.n = 2 /\ CounterMatches(m)
             /\ SendPtk3([aut EXCEPT !.ptk = p, !.frame_retry = 0]) /\ UNCHANGED apGiven
    <2> DEFINE a == [aut EXCEPT !.ptk = p, !.frame_retry = 0]
    <2>1. aut.timeout = "1_of_4"
      BY <1>1, <1>6 DEF PInv, Protocol, TimerTellsPhase, CounterMatches
    <2>2. ~aut.ptk_complete
      BY <2>1 DEF PInv, Protocol, TimerTellsPhase
    <2> HIDE DEF p
    <2>3. a \in Authenticators
      <3>1. 0 \in 0 .. FrameRetries
        BY BoundsAssumption
      <3> QED
        BY <1>2, <1>4, <3>1 DEF Authenticators
    <2>4. /\ a.frame_retry = 0 /\ a.alive /\ a.started
          /\ a.replay_counter = aut.replay_counter /\ a.gtk = aut.gtk
          /\ a.anonce = aut.anonce /\ a.ptk_complete = FALSE /\ a.ptk = p
      BY <1>2, <1>6, <2>2 DEF Authenticators
    <2>5. \E s \in Nonces : a.ptk = Ptk(AutPmk, aut.anonce, s)
      BY <1>3, <2>4 DEF p
    <2>6. SendPtk3(a)
      BY <1>6
    <2> HIDE DEF a
    <2> QED
      BY <1>1, <1>2, <1>6, <2>2, <2>3, <2>4, <2>5, <2>6, SendPtk3Lemma
  <1>7. CASE /\ aut.alive /\ m.n = 2 /\ CounterMatches(m)
             /\ aut' = [aut EXCEPT !.ptk = p] /\ UNCHANGED <<toSta, apGiven>>
    <2>1. aut.timeout = "1_of_4"
      BY <1>1, <1>7 DEF PInv, Protocol, TimerTellsPhase, CounterMatches
    <2> HIDE DEF p
    <2>2. /\ aut' \in Authenticators /\ aut'.alive = aut.alive /\ aut'.started = aut.started
          /\ aut'.replay_counter = aut.replay_counter /\ aut'.anonce = aut.anonce
          /\ aut'.timeout = aut.timeout /\ aut'.ptk_complete = aut.ptk_complete
          /\ aut'.gtk = aut.gtk
      BY <1>2, <1>4, <1>7 DEF Authenticators
    <2> QED
      BY <1>1, <1>2, <1>7, <2>1, <2>2, WrongMessage2Lemma
  <1>8. CASE /\ aut.alive /\ m.n = 4 /\ CounterMatches(m) /\ AutMicOk(m, aut.ptk)
             /\ aut' = [aut EXCEPT !.timeout = "none", !.ptk_complete = TRUE]
             /\ apGiven' = IF aut.ptk_complete THEN apGiven ELSE Append(apGiven, aut.ptk)
             /\ UNCHANGED toSta
    BY <1>1, <1>8, Message4Lemma DEF CounterMatches, AutMicOk
  <1> QED
    BY <1>5, <1>6, <1>7, <1>8 DEF AutRx, HandlePtk2, HandlePtk4, m

\* Message 1 is sent with the ANonce it had.
LEMMA ApRepeatLemma ==
    ASSUME PInv, ApRepeat
    PROVE  PInv'
  <1> DEFINE b == [aut EXCEPT !.replay_counter = @ + 1]
  <1>1. /\ aut \in Authenticators /\ aut.alive /\ aut.timeout = "1_of_4"
        /\ aut.frame_retry < FrameRetries
        /\ UNCHANGED <<sup, nhs, toAp, cmdq, kernel, nonces, faults, rekeys, env,
                       given, apGiven>>
    BY DEF PInv, TypeOK, ApRepeat, RetriesLeft, histVars
  <1>2. ~aut.ptk_complete /\ aut.started
    BY <1>1 DEF PInv, Protocol, TimerTellsPhase, NotStarted
  <1>3. aut.replay_counter \in Nat /\ aut.replay_counter + 1 \in Nat
    BY NumberTypes DEF PInv
  <1>4. Authenticators' = Authenticators
    BY <1>1 DEF Authenticators, Nonces
  <1>5. /\ b \in Authenticators /\ b.frame_retry = aut.frame_retry /\ b.timeout = "1_of_4"
        /\ b.replay_counter = aut.replay_counter + 1 /\ b.anonce = aut.anonce
        /\ b.ptk_complete = FALSE /\ b.gtk = aut.gtk /\ b.alive /\ b.started
    BY <1>1, <1>2, <1>3 DEF Authenticators
  <1>6. aut' = KeyTimeout(b, "1_of_4")
    BY DEF ApRepeat
  <1> HIDE DEF b
  <1>7. RetriesLeft(b)
    BY <1>1, <1>5 DEF RetriesLeft
  <1>8. /\ aut' \in Authenticators /\ aut'.timeout = "1_of_4" /\ aut'.alive = b.alive
        /\ aut'.started = b.started /\ aut'.replay_counter = b.replay_counter
        /\ aut'.anonce = b.anonce /\ aut'.ptk_complete = b.ptk_complete /\ aut'.gtk = b.gtk
    BY <1>5, <1>6, <1>7, KeyTimeoutLemma
  <1>9. toSta' = Append(toSta, Msg(1, aut'.replay_counter, aut'.anonce, NoKey, 0))
    BY <1>5, <1>8 DEF ApRepeat
  <1>10. "rekey" \notin env => given = <<>> /\ \A m \in ToSet(toSta) : m.n # 3
    BY <1>1 DEF PInv, Protocol, NoRekeying
  <1>11. rekeys' \in 0 .. MaxRekeys
    BY <1>1 DEF PInv, TypeOK
  <1> QED
    BY <1>1, <1>2, <1>4, <1>5, <1>8, <1>9, <1>10, <1>11, Message1Lemma

\* Every step keeps the protocol part of the invariant.
LEMMA NextPInv == PInv /\ [Next]_vars => PInv'
  <1> SUFFICES ASSUME PInv, [Next]_vars PROVE PInv'
    OBVIOUS
  <1>1. /\ toSta \in Seq(Messages) /\ toAp \in Seq(Messages)
        /\ aut \in Authenticators /\ sup \in Supplicants
        /\ faults \in 0 .. MaxFaults /\ rekeys \in 0 .. MaxRekeys /\ rekeys \in Nat
    BY NumberTypes DEF PInv, TypeOK
  <1>2. CASE KeyAnswer
    <2>1. /\ UNCHANGED <<aut, toSta, toAp, nonces, faults, rekeys, env, given, apGiven>>
          /\ cmdq # <<>> /\ cmdq \in Seq(Commands)
      BY <1>2 DEF KeyAnswer, histVars, PInv, TypeOK
    <2>2. Head(cmdq).cmd \in {"ptk", "gtk", "igtk", "set_station", "disconnect"}
      BY <2>1, CommandTypes
    <2>3. sup' \in {sup, [sup EXCEPT !.alive = FALSE]}
      BY <1>2, <2>2 DEF KeyAnswer
    <2> QED
      BY <1>1, <1>2, <2>1, <2>3, AsideLemma DEF Next
  <1>3. CASE KeyError
    BY <1>1, <1>3, AsideLemma DEF KeyError, histVars, Next
  <1>4. CASE SupRx
    BY <1>4, SupRxLemma DEF Next
  <1>5. CASE SupStart
    BY <1>5, SupStartLemma
  <1>6. CASE SupTimeout
    BY <1>1, <1>6, AsideLemma DEF SupTimeout, histVars, Next
  <1>7. CASE GroupTimeout
    BY <1>1, <1>7, AsideLemma DEF GroupTimeout, histVars, Next
  <1>8. CASE AutStart
    <2> DEFINE a == [aut EXCEPT !.started = TRUE]
    <2>1. /\ given = <<>> /\ toSta = <<>> /\ aut.frame_retry = 0 /\ aut.alive
      BY <1>8 DEF PInv, Protocol, NotStarted, AutStart
    <2>2. /\ a \in Authenticators /\ a.frame_retry = 0 /\ a.alive /\ a.started
          /\ a.replay_counter = aut.replay_counter /\ a.gtk = aut.gtk
      BY <1>1, <2>1 DEF Authenticators
    <2>3. /\ SendPtk1(a)
          /\ UNCHANGED <<sup, nhs, toAp, cmdq, kernel, faults, rekeys, env, given, apGiven>>
      BY <1>8 DEF AutStart, histVars
    <2>4. \A m \in ToSet(toSta) : m.n # 3
      BY <2>1, SetOfEmpty
    <2> HIDE DEF a
    <2> QED
      BY <1>1, <2>1, <2>2, <2>3, <2>4, SendPtk1Lemma
  <1>9. CASE AutTimeout
    BY <1>9, AutTimeoutLemma
  <1>10. CASE AutRx
    BY <1>10, AutRxLemma DEF Next
  <1>11. CASE ApRekey
    <2> DEFINE a == [aut EXCEPT !.frame_retry = 0]
    <2>1. /\ aut.alive /\ aut.ptk_complete /\ "rekey" \in env /\ rekeys' = rekeys + 1
          /\ rekeys < MaxRekeys /\ SendPtk1(a)
          /\ UNCHANGED <<sup, nhs, toAp, cmdq, kernel, faults, env, given, apGiven>>
      BY <1>11 DEF ApRekey, histVars
    <2>2. aut.started
      BY <2>1 DEF PInv, Protocol, NotStarted
    <2>3. /\ a \in Authenticators /\ a.frame_retry = 0 /\ a.alive /\ a.started
          /\ a.replay_counter = aut.replay_counter /\ a.gtk = aut.gtk
      BY <1>1, <2>1, <2>2, BoundsAssumption DEF Authenticators
    <2>4. rekeys' \in 0 .. MaxRekeys /\ rekeys' >= rekeys
      BY <1>1, <2>1, BoundsAssumption
    <2> HIDE DEF a
    <2> QED
      BY <2>1, <2>3, <2>4, SendPtk1Lemma
  <1>12. CASE ApRepeat
    BY <1>12, ApRepeatLemma
  <1>13. CASE ApGroup
    <2>1. /\ aut.ptk_complete /\ rekeys' = rekeys + 1 /\ rekeys < MaxRekeys
          /\ toSta' = Append(toSta, Msg(5, aut'.replay_counter, 0, aut.ptk, aut'.gtk))
          /\ \/ aut' = [aut EXCEPT !.replay_counter = @ + 1, !.gtk = @ + 1]
             \/ aut' = [aut EXCEPT !.replay_counter = @ + 1]
          /\ UNCHANGED <<sup, nhs, toAp, cmdq, kernel, nonces, faults, env, given, apGiven>>
      BY <1>13 DEF ApGroup, histVars
    <2>2. rekeys' \in 0 .. MaxRekeys
      BY <1>1, <2>1, BoundsAssumption
    <2>3. aut.replay_counter + 1 \in Nat /\ aut.gtk \in 1 .. rekeys + 1
      BY <1>1, NumberTypes DEF PInv, Authenticators
    <2>4. aut.gtk \in 1 .. rekeys' + 1 /\ aut.gtk + 1 \in 1 .. rekeys' + 1
      BY <1>1, <2>1, <2>3
    <2>5. Nonces' = Nonces
      BY <2>1 DEF Nonces
    <2>6. ASSUME NEW r, r \in Nat, NEW g, g \in 1 .. rekeys' + 1,
                 \/ aut' = [aut EXCEPT !.replay_counter = r, !.gtk = g]
                 \/ (aut' = [aut EXCEPT !.replay_counter = r] /\ g = aut.gtk)
          PROVE  /\ aut' \in Authenticators'
                 /\ aut'.alive = aut.alive /\ aut'.started = aut.started
                 /\ aut'.replay_counter = r /\ aut'.anonce = aut.anonce
                 /\ aut'.timeout = aut.timeout /\ aut'.ptk_complete = aut.ptk_complete
                 /\ aut'.ptk = aut.ptk /\ aut'.gtk = g
      <3>1. CASE aut' = [aut EXCEPT !.replay_counter = r, !.gtk = g]
        BY <1>1, <2>5, <2>6, <3>1 DEF Authenticators
      <3>2. CASE aut' = [aut EXCEPT !.replay_counter = r] /\ g = aut.gtk
        BY <1>1, <2>5, <2>6, <3>2 DEF Authenticators
      <3> QED
        BY <2>6, <3>1, <3>2
    <2>7. CASE aut' = [aut EXCEPT !.replay_counter = @ + 1, !.gtk = @ + 1]
      <3>1. /\ aut' \in Authenticators'
            /\ aut'.alive = aut.alive /\ aut'.started = aut.started
            /\ aut'.replay_counter = aut.replay_counter + 1 /\ aut'.anonce = aut.anonce
            /\ aut'.timeout = aut.timeout /\ aut'.ptk_complete = aut.ptk_complete
            /\ aut'.ptk = aut.ptk /\ aut'.gtk = aut.gtk + 1
        BY <2>3, <2>4, <2>6, <2>7, Zenon
      <3> QED
        BY <2>1, <2>2, <3>1, GroupMessageLemma
    <2>8. CASE aut' = [aut EXCEPT !.replay_counter = @ + 1]
      <3>1. /\ aut' \in Authenticators'
            /\ aut'.alive = aut.alive /\ aut'.started = aut.started
            /\ aut'.replay_counter = aut.replay_counter + 1 /\ aut'.anonce = aut.anonce
            /\ aut'.timeout = aut.timeout /\ aut'.ptk_complete = aut.ptk_complete
            /\ aut'.ptk = aut.ptk /\ aut'.gtk = aut.gtk
        BY <2>3, <2>4, <2>6, <2>8, Zenon
      <3> QED
        BY <2>1, <2>2, <3>1, GroupMessageLemma
    <2> QED
      BY <2>1, <2>7, <2>8
  <1>14. CASE Fault
    <2>1. /\ faults' \in 0 .. MaxFaults
          /\ UNCHANGED <<sup, aut, nonces, rekeys, env, given, apGiven>>
      BY <1>1, <1>14, BoundsAssumption DEF Fault, histVars
    <2>2. /\ toSta' \in Seq(Messages) /\ ToSet(toSta') \subseteq ToSet(toSta)
          /\ toAp' \in Seq(Messages) /\ ToSet(toAp') \subseteq ToSet(toAp)
      BY <1>1, <1>14, FaultLemma DEF Fault
    <2> QED
      BY <1>14, <2>1, <2>2, AsideLemma DEF Next
  <1>15. CASE UNCHANGED vars
    <2>1. /\ UNCHANGED <<sup, aut, nonces, rekeys, env, given, apGiven>>
          /\ UNCHANGED <<nhs, cmdq, kernel, toSta, toAp, faults>>
      BY <1>15 DEF vars, histVars
    <2>2. Protocol' /\ KeysAgree' /\ sup' \in Supplicants' /\ aut' \in Authenticators'
      BY <1>1, <2>1, SameProtocolLemma
    <2> QED
      BY <2>1, <2>2 DEF PInv, TypeOK
  <1> QED
    BY <1>2, <1>3, <1>4, <1>5, <1>6, <1>7, <1>8, <1>9, <1>10, <1>11, <1>12, <1>13, <1>14,
       <1>15 DEF Next

\* In every behaviour the variables have their types, both sides agree on the keys,
\* and the protocol part of the invariant holds.
THEOREM ProtocolInvariant == Spec => []PInv
  BY InitPInv, NextPInv, PTL DEF Spec

-----------------------------------------------------------------------------
(* No key is installed twice.                                               *)

\* A PTK is new when it is handed to a kernel, on either side.
LEMMA NextNoReinstallation ==
    PInv /\ NoReinstallation /\ [Next]_vars => NoReinstallation'
  <1> SUFFICES ASSUME PInv, NoReinstallation, [Next]_vars PROVE NoReinstallation'
    OBVIOUS
  <1>1. /\ given \in Seq(Keys) /\ apGiven \in Seq(Keys)
        /\ sup.ptk \in Keys /\ aut.ptk \in Keys
    BY DEF PInv, TypeOK, Supplicants, Authenticators
  <1>2. CASE UNCHANGED <<given, apGiven>>
    BY <1>2 DEF NoReinstallation, IsInjective
  <1>3. CASE SupRx
    <2>1. UNCHANGED apGiven
      BY <1>3 DEF SupRx
    <2>2. \/ UNCHANGED given
          \/ /\ MicOk(Head(toSta)) /\ ~sup.ptk_complete
             /\ given' = Append(given, sup.ptk)
      BY <1>3 DEF SupRx, KeyHandle, HandlePtk3, Message3Repeated
    <2>3. CASE MicOk(Head(toSta)) /\ ~sup.ptk_complete /\ given' = Append(given, sup.ptk)
      <3>1. sup.ptk \notin ToSet(given)
        BY <2>3 DEF MicOk, PInv, Protocol, StationPtk
      <3>2. IsInjective(given')
        BY <1>1, <2>3, <3>1, InjectiveAppend DEF NoReinstallation
      <3> QED
        BY <2>1, <3>2 DEF NoReinstallation
    <2> QED
      BY <1>2, <2>1, <2>2, <2>3
  <1>4. CASE AutRx
    <2>1. UNCHANGED given
      BY <1>4 DEF AutRx
    <2>2. \/ UNCHANGED apGiven
          \/ /\ aut.alive /\ Head(toAp).n = 4 /\ Head(toAp).ctr = aut.replay_counter
             /\ ~aut.ptk_complete /\ apGiven' = Append(apGiven, aut.ptk)
      BY <1>4 DEF AutRx, HandlePtk4, CounterMatches
    <2>3. ASSUME aut.alive, Head(toAp).n = 4, Head(toAp).ctr = aut.replay_counter,
                 ~aut.ptk_complete, apGiven' = Append(apGiven, aut.ptk)
          PROVE  NoReinstallation'
      <3>1. Head(toAp) \in ToSet(toAp)
        BY <1>4, SetOfTail DEF AutRx, PInv, TypeOK
      <3>2. aut.timeout = "3_of_4"
        BY <2>3, <3>1 DEF PInv, Protocol, TimerTellsPhase
      <3>3. PICK s \in Nonces : aut.ptk = Ptk(AutPmk, aut.anonce, s)
        BY <3>2 DEF PInv, Protocol, TimerTellsPhase
      <3>4. aut.ptk[2] = aut.anonce
        BY <3>3 DEF Ptk
      <3>5. aut.ptk \notin ToSet(apGiven)
        BY <2>3, <3>4 DEF PInv, Protocol, FreshAnonce
      <3>6. IsInjective(apGiven')
        BY <1>1, <2>3, <3>5, InjectiveAppend DEF NoReinstallation
      <3> QED
        BY <2>1, <3>6 DEF NoReinstallation
    <2> QED
      BY <1>2, <2>1, <2>2, <2>3
  <1>5. ASSUME ~SupRx, ~AutRx PROVE UNCHANGED <<given, apGiven>>
    BY <1>5 DEF Next, vars, histVars, KeyAnswer, KeyError, SupStart, SupTimeout, GroupTimeout,
       AutStart, AutTimeout, ApRekey, ApRepeat, ApGroup, Fault
  <1> QED
    BY <1>2, <1>3, <1>4, <1>5

\* However frames are lost, repeated or overtaken and however often the handshake is
\* started again, no PTK is handed to either kernel twice.
THEOREM NoReinstallationTheorem == Spec => []NoReinstallation
  <1>1. Init => NoReinstallation
    BY DEF Init, NoReinstallation, IsInjective
  <1> QED
    BY <1>1, ProtocolInvariant, NextNoReinstallation, PTL DEF Spec

-----------------------------------------------------------------------------
(* The installation of the station's keys.  First the queue of commands.    *)

\* A command is added.
LEMMA PendingAppend ==
    ASSUME NEW q, q \in Seq(Commands), NEW c, c \in Commands
    PROVE  /\ Append(q, c) \in Seq(Commands)
           /\ Len(q) \in Nat /\ Append(q, c)[Len(q) + 1] = c
           /\ DOMAIN Append(q, c) = DOMAIN q \cup {Len(q) + 1}
           /\ \A k \in DOMAIN q : k \in Nat /\ k >= 1 /\ k <= Len(q) /\ Append(q, c)[k] = q[k]
           /\ \A x : c.cmd = x => Pending(Append(q, c), x) = Pending(q, x) \cup {Len(q) + 1}
           /\ \A x : c.cmd # x => Pending(Append(q, c), x) = Pending(q, x)
  <1>1. /\ Append(q, c) \in Seq(Commands)
        /\ Len(q) \in Nat /\ Append(q, c)[Len(q) + 1] = c
        /\ DOMAIN Append(q, c) = 1 .. Len(q) + 1 /\ DOMAIN q = 1 .. Len(q)
        /\ \A k \in DOMAIN q : Append(q, c)[k] = q[k]
    OBVIOUS
  <1>2. /\ DOMAIN Append(q, c) = DOMAIN q \cup {Len(q) + 1}
        /\ \A k \in DOMAIN q : k \in Nat /\ k >= 1 /\ k <= Len(q)
    BY <1>1
  <1>3. \A x : c.cmd = x => Pending(Append(q, c), x) = Pending(q, x) \cup {Len(q) + 1}
    BY <1>1, <1>2 DEF Pending
  <1>4. \A x : c.cmd # x => Pending(Append(q, c), x) = Pending(q, x)
    BY <1>1, <1>2 DEF Pending
  <1> QED
    BY <1>1, <1>2, <1>3, <1>4

\* The first command is answered.
LEMMA PendingTail ==
    ASSUME NEW q, q \in Seq(Commands), q # <<>>
    PROVE  /\ Tail(q) \in Seq(Commands) /\ Head(q) \in Commands /\ Head(q) = q[1]
           /\ 1 \in DOMAIN q
           /\ \A k \in DOMAIN q : k \in Nat /\ k >= 1
           /\ \A k \in DOMAIN Tail(q) : k \in Nat /\ k >= 1 /\ k + 1 \in DOMAIN q
                                        /\ Tail(q)[k] = q[k + 1]
           /\ \A x : \A k \in Pending(Tail(q), x) :
                 k \in Nat /\ k >= 1 /\ k + 1 \in Pending(q, x) /\ Tail(q)[k] = q[k + 1]
           /\ \A x : \A k \in Pending(q, x) :
                 k \in Nat /\ k >= 1 /\ (k # 1 => k - 1 \in Pending(Tail(q), x)
                                                  /\ Tail(q)[k - 1] = q[k])
           /\ \A x : 1 \in Pending(q, x) <=> Head(q).cmd = x
  <1>1. /\ Tail(q) \in Seq(Commands) /\ Head(q) \in Commands /\ Head(q) = q[1]
        /\ Len(q) \in Nat /\ Len(q) >= 1
        /\ DOMAIN Tail(q) = 1 .. Len(q) - 1 /\ DOMAIN q = 1 .. Len(q)
        /\ \A k \in 1 .. Len(q) - 1 : Tail(q)[k] = q[k + 1]
    OBVIOUS
  <1>2. 1 \in DOMAIN q /\ \A k \in DOMAIN q : k \in Nat /\ k >= 1
    BY <1>1
  <1>3. \A k \in DOMAIN Tail(q) : k \in Nat /\ k >= 1 /\ k + 1 \in DOMAIN q
                                  /\ Tail(q)[k] = q[k + 1]
    BY <1>1
  <1>4. \A k \in DOMAIN q : k # 1 => /\ k - 1 \in DOMAIN Tail(q) /\ Tail(q)[k - 1] = q[k]
    <2> SUFFICES ASSUME NEW k \in DOMAIN q, k # 1
                 PROVE  k - 1 \in DOMAIN Tail(q) /\ Tail(q)[k - 1] = q[k]
      OBVIOUS
    <2>1. k - 1 \in 1 .. Len(q) - 1 /\ (k - 1) + 1 = k
      BY <1>1
    <2> QED
      BY <1>1, <2>1
  <1>5. \A x : \A k \in Pending(Tail(q), x) :
           k \in Nat /\ k >= 1 /\ k + 1 \in Pending(q, x) /\ Tail(q)[k] = q[k + 1]
    BY <1>3 DEF Pending
  <1>6. \A x : \A k \in Pending(q, x) :
           k \in Nat /\ k >= 1 /\ (k # 1 => k - 1 \in Pending(Tail(q), x)
                                            /\ Tail(q)[k - 1] = q[k])
    BY <1>2, <1>4 DEF Pending
  <1>7. \A x : 1 \in Pending(q, x) <=> Head(q).cmd = x
    BY <1>1, <1>2 DEF Pending
  <1> QED
    BY <1>1, <1>2, <1>3, <1>5, <1>6, <1>7

\* An empty queue.
LEMMA PendingEmpty ==
    /\ <<>> \in Seq(Commands) /\ Carry(<<>>)
    /\ \A x : Pending(<<>>, x) = {}
    /\ \A g : g <= g => Ordered(<<>>, g, g)
    /\ \A g \in Nat : Ordered(<<>>, 0, g)
  BY DEF Pending, Carry, Ordered

\* What an added command does to the summaries of the queue.
LEMMA AppendSummary ==
    ASSUME NEW q, q \in Seq(Commands), NEW c, c \in Commands,
           NEW pkey, NEW plast, NEW gkey, NEW glast, glast \in Nat, gkey \in Nat
    PROVE  /\ Carry(q) /\ (c.cmd = "ptk" => c.ptk # NoKey)
                       /\ (c.cmd \in {"gtk", "igtk"} => c.g # 0) => Carry(Append(q, c))
           /\ c.cmd # "ptk" /\ LastPtk(q, pkey, plast) => LastPtk(Append(q, c), pkey, plast)
           /\ c.cmd = "ptk" => LastPtk(Append(q, c), pkey, c.ptk)
           /\ c.cmd # "gtk" /\ LastGtk(q, gkey, glast) => LastGtk(Append(q, c), gkey, glast)
           /\ c.cmd = "gtk" => LastGtk(Append(q, c), gkey, c.g)
           /\ c.cmd # "gtk" /\ Ordered(q, gkey, glast) => Ordered(Append(q, c), gkey, glast)
           /\ c.cmd = "gtk" /\ glast <= c.g /\ Ordered(q, gkey, glast) =>
                 Ordered(Append(q, c), gkey, c.g)
  <1> DEFINE r == Append(q, c)
             n == Len(q) + 1
  <1>1. /\ r \in Seq(Commands) /\ n \in Nat /\ r[n] = c /\ DOMAIN r = DOMAIN q \cup {n}
        /\ \A k \in DOMAIN q : k \in Nat /\ k >= 1 /\ k < n /\ r[k] = q[k]
        /\ \A x : c.cmd = x => Pending(r, x) = Pending(q, x) \cup {n}
        /\ \A x : c.cmd # x => Pending(r, x) = Pending(q, x)
    BY PendingAppend
  <1>2. \A x : Pending(q, x) \subseteq DOMAIN q
    BY DEF Pending
  <1>3. \A k \in DOMAIN q : q[k] \in Commands /\ q[k].g \in Nat
    <2>1. \A k \in DOMAIN q : q[k] \in Commands
      OBVIOUS
    <2> QED
      BY <2>1, CommandTypes
  <1> HIDE DEF r, n
  <1>4. c.g \in Nat
    BY CommandTypes
  <1>5. Carry(q) /\ (c.cmd = "ptk" => c.ptk # NoKey)
                 /\ (c.cmd \in {"gtk", "igtk"} => c.g # 0) => Carry(r)
    BY <1>1 DEF Carry
  <1>6. c.cmd # "ptk" /\ LastPtk(q, pkey, plast) => LastPtk(r, pkey, plast)
    BY <1>1, <1>2 DEF LastPtk
  <1>7. c.cmd = "ptk" => LastPtk(r, pkey, c.ptk)
    BY <1>1, <1>2 DEF LastPtk
  <1>8. c.cmd # "gtk" /\ LastGtk(q, gkey, glast) => LastGtk(r, gkey, glast)
    BY <1>1, <1>2 DEF LastGtk
  <1>9. c.cmd = "gtk" => LastGtk(r, gkey, c.g)
    BY <1>1, <1>2 DEF LastGtk
  <1>10. c.cmd # "gtk" /\ Ordered(q, gkey, glast) => Ordered(r, gkey, glast)
    BY <1>1, <1>2 DEF Ordered
  <1>11. c.cmd = "gtk" /\ glast <= c.g /\ Ordered(q, gkey, glast) => Ordered(r, gkey, c.g)
    <2> SUFFICES ASSUME c.cmd = "gtk", glast <= c.g, Ordered(q, gkey, glast)
                 PROVE  Ordered(r, gkey, c.g)
      OBVIOUS
    <2>1. Pending(r, "gtk") = Pending(q, "gtk") \cup {n}
      BY <1>1
    <2>2. gkey <= c.g
      BY <1>4 DEF Ordered
    <2>3. ASSUME NEW k \in Pending(q, "gtk")
          PROVE  gkey <= r[k].g /\ r[k].g <= c.g /\ k < n /\ k \in Nat
      <3>1. k \in DOMAIN q /\ r[k] = q[k] /\ q[k].g \in Nat /\ k < n /\ k \in Nat
        BY <1>1, <1>2, <1>3, <2>3
      <3>2. gkey <= q[k].g /\ q[k].g <= glast
        BY <2>3 DEF Ordered
      <3> QED
        BY <1>4, <3>1, <3>2
    <2>4. ASSUME NEW j \in Pending(q, "gtk"), NEW k \in Pending(q, "gtk"), j < k
          PROVE  r[j].g <= r[k].g
      BY <1>1, <1>2, <2>4 DEF Ordered
    <2>5. r[n].g = c.g
      BY <1>1
    <2> QED
      BY <1>1, <1>4, <2>1, <2>2, <2>3, <2>4, <2>5 DEF Ordered
  <1> QED
    BY <1>5, <1>6, <1>7, <1>8, <1>9, <1>10, <1>11 DEF r

\* What the answer to the first command does to the summaries of the queue.
LEMMA TailSummary ==
    ASSUME NEW q, q \in Seq(Commands), q # <<>>,
           NEW pkey, NEW plast, NEW gkey, NEW glast, glast \in Nat, gkey \in Nat
    PROVE  /\ Carry(q) => /\ Carry(Tail(q))
                          /\ Head(q).cmd = "ptk" => Head(q).ptk # NoKey
                          /\ Head(q).cmd \in {"gtk", "igtk"} => Head(q).g # 0
           /\ Head(q).cmd # "ptk" /\ LastPtk(q, pkey, plast) => LastPtk(Tail(q), pkey, plast)
           /\ Head(q).cmd = "ptk" /\ LastPtk(q, pkey, plast) =>
                 LastPtk(Tail(q), Head(q).ptk, plast)
           /\ Head(q).cmd # "gtk" /\ LastGtk(q, gkey, glast) => LastGtk(Tail(q), gkey, glast)
           /\ Head(q).cmd = "gtk" /\ LastGtk(q, gkey, glast) =>
                 LastGtk(Tail(q), Head(q).g, glast)
           /\ Head(q).cmd # "gtk" /\ Ordered(q, gkey, glast) => Ordered(Tail(q), gkey, glast)
           /\ Head(q).cmd = "gtk" /\ Ordered(q, gkey, glast) =>
                 Ordered(Tail(q), Head(q).g, glast) /\ gkey <= Head(q).g
           /\ \A x : Pending(q, x) = {} => Pending(Tail(q), x) = {}
           /\ \A x : Head(q).cmd = x => Pending(q, x) # {}
  <1> DEFINE r == Tail(q)
             c == Head(q)
  <1>1. /\ r \in Seq(Commands) /\ c \in Commands /\ c = q[1] /\ 1 \in DOMAIN q
        /\ \A k \in DOMAIN r : k \in Nat /\ k >= 1 /\ k + 1 \in DOMAIN q /\ r[k] = q[k + 1]
        /\ \A x : \A k \in Pending(r, x) :
              k \in Nat /\ k >= 1 /\ k + 1 \in Pending(q, x) /\ r[k] = q[k + 1]
        /\ \A x : \A k \in Pending(q, x) :
              k \in Nat /\ k >= 1 /\ (k # 1 => k - 1 \in Pending(r, x) /\ r[k - 1] = q[k])
        /\ \A x : 1 \in Pending(q, x) <=> c.cmd = x
    BY PendingTail
  <1> HIDE DEF r, c
  <1>2. \A x : Pending(q, x) = {} => Pending(r, x) = {}
    BY <1>1
  <1>3. \A x : c.cmd = x => Pending(q, x) # {}
    BY <1>1
  <1>4. Carry(q) => /\ Carry(r)
                    /\ c.cmd = "ptk" => c.ptk # NoKey
                    /\ c.cmd \in {"gtk", "igtk"} => c.g # 0
    BY <1>1 DEF Carry
  <1>5. c.cmd # "ptk" /\ LastPtk(q, pkey, plast) => LastPtk(r, pkey, plast)
    <2> SUFFICES ASSUME c.cmd # "ptk", LastPtk(q, pkey, plast), Pending(q, "ptk") # {}
                 PROVE  LastPtk(r, pkey, plast)
      BY <1>2 DEF LastPtk
    <2>1. PICK k \in Pending(q, "ptk") : q[k].ptk = plast /\ \A j \in Pending(q, "ptk") : j <= k
      BY DEF LastPtk
    <2>2. k # 1 /\ k \in Nat
      BY <1>1, <2>1
    <2>3. k - 1 \in Pending(r, "ptk") /\ r[k - 1].ptk = plast
      BY <1>1, <2>1, <2>2
    <2>4. ASSUME NEW j \in Pending(r, "ptk") PROVE j <= k - 1
      <3>1. j \in Nat /\ j + 1 <= k
        BY <1>1, <2>1, <2>4
      <3> QED
        BY <2>2, <3>1
    <2> QED
      BY <2>3, <2>4 DEF LastPtk
  <1>6. c.cmd = "ptk" /\ LastPtk(q, pkey, plast) => LastPtk(r, c.ptk, plast)
    <2> SUFFICES ASSUME c.cmd = "ptk", LastPtk(q, pkey, plast)
                 PROVE  LastPtk(r, c.ptk, plast)
      OBVIOUS
    <2>0. 1 \in Pending(q, "ptk")
      BY <1>1
    <2>1. PICK k \in Pending(q, "ptk") : q[k].ptk = plast /\ \A j \in Pending(q, "ptk") : j <= k
      BY <2>0 DEF LastPtk
    <2>2. k \in Nat /\ k >= 1
      BY <1>1
    <2>3. ASSUME NEW j \in Pending(r, "ptk") PROVE j \in Nat /\ j >= 1 /\ j <= k - 1
      <3>1. j \in Nat /\ j >= 1 /\ j + 1 <= k
        BY <1>1, <2>1, <2>3
      <3> QED
        BY <2>2, <3>1
    <2>4. CASE k = 1
      <3>1. c.ptk = plast
        BY <1>1, <2>1, <2>4
      <3>2. ASSUME NEW j \in Pending(r, "ptk") PROVE FALSE
        <4>1. j \in Nat /\ j >= 1 /\ j <= 1 - 1
          BY <2>3, <2>4
        <4> QED
          BY <4>1
      <3> QED
        BY <3>1, <3>2 DEF LastPtk
    <2>5. CASE k # 1
      <3>1. k - 1 \in Pending(r, "ptk") /\ r[k - 1].ptk = plast
        BY <1>1, <2>1, <2>5
      <3> QED
        BY <2>3, <3>1 DEF LastPtk
    <2> QED
      BY <2>4, <2>5
  <1>7. c.cmd # "gtk" /\ LastGtk(q, gkey, glast) => LastGtk(r, gkey, glast)
    <2> SUFFICES ASSUME c.cmd # "gtk", LastGtk(q, gkey, glast), Pending(q, "gtk") # {}
                 PROVE  LastGtk(r, gkey, glast)
      BY <1>2 DEF LastGtk
    <2>1. PICK k \in Pending(q, "gtk") : q[k].g = glast /\ \A j \in Pending(q, "gtk") : j <= k
      BY DEF LastGtk
    <2>2. k # 1 /\ k \in Nat
      BY <1>1, <2>1
    <2>3. k - 1 \in Pending(r, "gtk") /\ r[k - 1].g = glast
      BY <1>1, <2>1, <2>2
    <2>4. ASSUME NEW j \in Pending(r, "gtk") PROVE j <= k - 1
      <3>1. j \in Nat /\ j + 1 <= k
        BY <1>1, <2>1, <2>4
      <3> QED
        BY <2>2, <3>1
    <2> QED
      BY <2>3, <2>4 DEF LastGtk
  <1>8. c.cmd = "gtk" /\ LastGtk(q, gkey, glast) => LastGtk(r, c.g, glast)
    <2> SUFFICES ASSUME c.cmd = "gtk", LastGtk(q, gkey, glast)
                 PROVE  LastGtk(r, c.g, glast)
      OBVIOUS
    <2>0. 1 \in Pending(q, "gtk")
      BY <1>1
    <2>1. PICK k \in Pending(q, "gtk") : q[k].g = glast /\ \A j \in Pending(q, "gtk") : j <= k
      BY <2>0 DEF LastGtk
    <2>2. k \in Nat /\ k >= 1
      BY <1>1
    <2>3. ASSUME NEW j \in Pending(r, "gtk") PROVE j \in Nat /\ j >= 1 /\ j <= k - 1
      <3>1. j \in Nat /\ j >= 1 /\ j + 1 <= k
        BY <1>1, <2>1, <2>3
      <3> QED
        BY <2>2, <3>1
    <2>4. CASE k = 1
      <3>1. c.g = glast
        BY <1>1, <2>1, <2>4
      <3>2. ASSUME NEW j \in Pending(r, "gtk") PROVE FALSE
        <4>1. j \in Nat /\ j >= 1 /\ j <= 1 - 1
          BY <2>3, <2>4
        <4> QED
          BY <4>1
      <3> QED
        BY <3>1, <3>2 DEF LastGtk
    <2>5. CASE k # 1
      <3>1. k - 1 \in Pending(r, "gtk") /\ r[k - 1].g = glast
        BY <1>1, <2>1, <2>5
      <3> QED
        BY <2>3, <3>1 DEF LastGtk
    <2> QED
      BY <2>4, <2>5
  <1>9. Ordered(q, gkey, glast) =>
           \A j, k \in Pending(r, "gtk") : j < k => r[j].g <= r[k].g
    <2> SUFFICES ASSUME Ordered(q, gkey, glast),
                        NEW j \in Pending(r, "gtk"), NEW k \in Pending(r, "gtk"), j < k
                 PROVE  r[j].g <= r[k].g
      OBVIOUS
    <2>1. /\ j + 1 \in Pending(q, "gtk") /\ k + 1 \in Pending(q, "gtk")
          /\ r[j] = q[j + 1] /\ r[k] = q[k + 1] /\ j \in Nat /\ k \in Nat
      BY <1>1
    <2>2. j + 1 < k + 1
      BY <2>1
    <2> QED
      BY <2>1, <2>2 DEF Ordered
  <1>10. c.cmd # "gtk" /\ Ordered(q, gkey, glast) => Ordered(r, gkey, glast)
    BY <1>1, <1>9 DEF Ordered
  <1>11. c.cmd = "gtk" /\ Ordered(q, gkey, glast) => Ordered(r, c.g, glast) /\ gkey <= c.g
    <2> SUFFICES ASSUME c.cmd = "gtk", Ordered(q, gkey, glast)
                 PROVE  Ordered(r, c.g, glast) /\ gkey <= c.g
      OBVIOUS
    <2>1. 1 \in Pending(q, "gtk")
      BY <1>1
    <2>2. gkey <= c.g /\ c.g <= glast
      BY <1>1, <2>1 DEF Ordered
    <2>3. ASSUME NEW k \in Pending(r, "gtk") PROVE c.g <= r[k].g /\ r[k].g <= glast
      <3>1. k + 1 \in Pending(q, "gtk") /\ r[k] = q[k + 1] /\ k \in Nat /\ k >= 1
        BY <1>1
      <3>2. 1 < k + 1
        BY <3>1
      <3> QED
        BY <1>1, <2>1, <3>1, <3>2 DEF Ordered
    <2> QED
      BY <1>9, <2>2, <2>3 DEF Ordered
  <1> QED
    BY <1>2, <1>3, <1>4, <1>5, <1>6, <1>7, <1>8, <1>10, <1>11 DEF r, c

(* Then the steps.                                                          *)

\* The installation part of the invariant.
InstallInv == Installation /\ CompleteMeansKeys

\* What the proofs need of the types of the key installation.
LEMMA FlagTypes ==
    ASSUME TypeOK
    PROVE  /\ nhs \in Handshakes /\ kernel \in KernelKeys /\ cmdq \in Seq(Commands)
           /\ nhs.ptk_installed \in BOOLEAN /\ nhs.gtk_installed \in BOOLEAN
           /\ nhs.igtk_installed \in BOOLEAN /\ nhs.complete \in BOOLEAN
           /\ nhs.group_timeout \in BOOLEAN /\ nhs.completes \in Nat
           /\ kernel.ptk \in Keys /\ kernel.gtk \in Nat /\ kernel.igtk \in Nat
           /\ sup.gtk \in Nat /\ sup.alive \in BOOLEAN
  <1>1. nhs \in Handshakes /\ kernel \in KernelKeys /\ cmdq \in Seq(Commands)
    BY DEF TypeOK
  <1>2. sup.gtk \in Nat /\ sup.alive \in BOOLEAN
    BY NumberTypes DEF TypeOK, Supplicants
  <1> QED
    BY <1>1, <1>2 DEF Handshakes, KernelKeys

\* Steps that leave the installation alone.
LEMMA SameInstallLemma ==
    ASSUME TypeOK, InstallInv, UNCHANGED <<nhs, cmdq, kernel, given, env>>,
           sup'.alive => sup.alive, sup'.gtk = sup.gtk,
           sup'.wait_for_gtk = sup.wait_for_gtk,
           sup'.ptk_complete => sup.ptk_complete /\ sup'.ptk = sup.ptk
    PROVE  InstallInv'
  <1>1. Wpa1Rekey' = Wpa1Rekey /\ Leaving' = Leaving
    BY DEF Wpa1Rekey, Leaving, Pending
  <1>2. CommandsOfKeys'
    BY <1>1 DEF InstallInv, Installation, CommandsOfKeys, Carry
  <1>3. LastKeys'
    BY <1>1 DEF InstallInv, Installation, LastKeys, LastPtk, LastGtk, Pending
  <1>4. CommandsOrdered'
    BY DEF InstallInv, Installation, CommandsOrdered, Ordered, Pending
  <1>5. FlagsMeanKeys => FlagsMeanKeys'
    BY <1>1 DEF FlagsMeanKeys, Pending
  <1>6. CompleteMeansKeys'
    BY <1>1 DEF InstallInv, CompleteMeansKeys
  <1> QED
    BY <1>1, <1>2, <1>3, <1>4, <1>5, <1>6 DEF InstallInv, Installation

\* The station goes away: so do its commands and keys.
LEMMA GoneLemma ==
    ASSUME TypeOK, InstallInv, UNCHANGED <<given, env>>,
           cmdq' = <<>>, kernel' = NoKeys, ~sup'.alive, sup'.gtk = sup.gtk,
           sup'.wait_for_gtk = sup.wait_for_gtk,
           ~nhs'.group_timeout, nhs'.complete = nhs.complete,
           nhs'.completes = nhs.completes,
           given = <<>> => ~nhs'.ptk_installed
    PROVE  InstallInv'
  <1>1. Wpa1Rekey' = Wpa1Rekey
    BY DEF Wpa1Rekey
  <1>2. /\ Carry(<<>>) /\ Ordered(<<>>, 0, sup.gtk) /\ NoKeys.gtk = 0
        /\ \A k \in DOMAIN <<>> : FALSE
    BY PendingEmpty, FlagTypes DEF NoKeys
  <1>3. CommandsOfKeys'
    BY <1>2 DEF InstallInv, Installation, CommandsOfKeys
  <1>4. LastKeys' /\ CommandsOrdered'
    BY <1>2 DEF LastKeys, CommandsOrdered
  <1>5. FlagsMeanKeys => FlagsMeanKeys'
    BY DEF FlagsMeanKeys
  <1>6. CompleteMeansKeys'
    BY <1>1 DEF InstallInv, CompleteMeansKeys
  <1> QED
    BY <1>1, <1>3, <1>4, <1>5, <1>6 DEF InstallInv, Installation

\* A key command fails, and the station waits for the answer to its disconnect.
LEMMA LeaveLemma ==
    ASSUME TypeOK, InstallInv, UNCHANGED <<given, env, sup, kernel>>,
           cmdq' = <<Disconnect>>, given # <<>>,
           ~nhs'.group_timeout, nhs'.complete = nhs.complete,
           nhs'.completes = nhs.completes
    PROVE  InstallInv'
  <1>1. Wpa1Rekey' = Wpa1Rekey
    BY DEF Wpa1Rekey
  <1> DEFINE q == <<Disconnect>>
  <1>2. DOMAIN q = {1} /\ q[1] = Disconnect
    OBVIOUS
  <1>3. Disconnect.cmd = "disconnect"
    BY CommandTypes
  <1> HIDE DEF q
  <1>4. /\ Carry(q) /\ Pending(q, "gtk") = {} /\ Pending(q, "disconnect") # {}
    BY <1>2, <1>3 DEF Carry, Pending
  <1>5. CommandsOfKeys'
    BY <1>2, <1>3, <1>4 DEF InstallInv, Installation, CommandsOfKeys, Leaving, q
  <1>6. LastKeys'
    BY <1>4 DEF LastKeys, Leaving, q
  <1>7. CommandsOrdered'
    BY <1>4 DEF InstallInv, Installation, CommandsOrdered, Ordered, q
  <1>8. FlagsMeanKeys => FlagsMeanKeys'
    BY <1>4 DEF FlagsMeanKeys, Leaving, q
  <1>9. CompleteMeansKeys'
    BY <1>1 DEF InstallInv, CompleteMeansKeys
  <1> QED
    BY <1>1, <1>5, <1>6, <1>7, <1>8, <1>9 DEF InstallInv, Installation

\* The handshake of the station times out.
LEMMA SupTimeoutInstall ==
    ASSUME TypeOK, InstallInv, SupTimeout
    PROVE  InstallInv'
  <1>1. /\ cmdq \in Seq(Commands) /\ Disconnect \in Commands
        /\ Disconnect.cmd = "disconnect" /\ sup.gtk \in Nat /\ kernel.gtk \in Nat
    BY FlagTypes, CommandTypes
  <1>2. /\ UNCHANGED <<nhs, kernel, given, env>> /\ cmdq' = Append(cmdq, Disconnect)
    BY DEF SupTimeout, histVars
  <1>3. sup'.alive = FALSE /\ sup'.gtk = sup.gtk /\ sup'.wait_for_gtk = sup.wait_for_gtk
    BY DEF SupTimeout, TypeOK, Supplicants
  <1>4. Wpa1Rekey' = Wpa1Rekey
    BY <1>2 DEF Wpa1Rekey
  <1>5. /\ Carry(cmdq) => Carry(cmdq')
        /\ Ordered(cmdq, kernel.gtk, sup.gtk) => Ordered(cmdq', kernel.gtk, sup.gtk)
    BY <1>1, <1>2, AppendSummary
  <1>6. /\ Pending(cmdq', "gtk") = Pending(cmdq, "gtk")
        /\ \A k \in DOMAIN cmdq' : cmdq'[k].cmd = "disconnect" \/
              (k \in DOMAIN cmdq /\ cmdq'[k] = cmdq[k])
    BY <1>1, <1>2, PendingAppend
  <1>7. CommandsOfKeys'
    BY <1>2, <1>3, <1>5, <1>6 DEF InstallInv, Installation, CommandsOfKeys
  <1>8. LastKeys' /\ CommandsOrdered'
    BY <1>2, <1>3, <1>5 DEF InstallInv, Installation, LastKeys, CommandsOrdered
  <1>9. FlagsMeanKeys => FlagsMeanKeys'
    BY <1>2, <1>3, <1>6 DEF FlagsMeanKeys
  <1>10. CompleteMeansKeys'
    BY <1>2, <1>3, <1>4 DEF InstallInv, CompleteMeansKeys
  <1> QED
    BY <1>4, <1>7, <1>8, <1>9, <1>10 DEF InstallInv, Installation

\* The group handshake did not come in time.
LEMMA GroupTimeoutInstall ==
    ASSUME TypeOK, InstallInv, GroupTimeout
    PROVE  InstallInv'
  <1>1. /\ UNCHANGED <<sup, cmdq, kernel, given, env>> /\ nhs.group_timeout
    BY DEF GroupTimeout, histVars
  <1>2. /\ nhs'.ptk_installed = nhs.ptk_installed /\ nhs'.gtk_installed = nhs.gtk_installed
        /\ nhs'.igtk_installed = nhs.igtk_installed /\ nhs'.group_timeout = FALSE
        /\ nhs.ptk_installed => nhs'.complete = TRUE /\ nhs'.completes = nhs.completes + 1
        /\ ~nhs.ptk_installed =>
              nhs'.complete = nhs.complete /\ nhs'.completes = nhs.completes
    BY FlagTypes DEF GroupTimeout, Handshakes
  <1>3. given # <<>>
    BY <1>1 DEF InstallInv, Installation, CommandsOfKeys
  <1>4. Wpa1Rekey' = Wpa1Rekey /\ Leaving' = Leaving
    BY <1>1 DEF Wpa1Rekey, Leaving, Pending
  <1>5. CommandsOfKeys' /\ LastKeys' /\ CommandsOrdered'
    BY <1>1, <1>3, <1>4 DEF InstallInv, Installation, CommandsOfKeys, Carry, LastKeys, LastPtk,
       LastGtk, CommandsOrdered, Ordered, Pending
  <1>6. ASSUME FlagsMeanKeys PROVE FlagsMeanKeys' /\ CompleteMeansKeys'
    <2>1. nhs.complete = FALSE /\ nhs.completes = 0 /\ sup.wait_for_gtk
      BY <1>1, <1>6, FlagTypes DEF FlagsMeanKeys
    <2>2. nhs'.completes = IF nhs'.complete THEN 1 ELSE 0
      BY <1>2, <2>1
    <2>3. FlagsMeanKeys'
      BY <1>1, <1>2, <1>4, <1>6, <2>2 DEF FlagsMeanKeys, Pending
    <2>4. nhs'.complete /\ sup.alive => kernel.ptk # NoKey /\ kernel.authorized
      BY <1>1, <1>2, <1>3, <1>6, <2>1 DEF FlagsMeanKeys
    <2>5. nhs'.completes <= 1
      BY <2>2
    <2> QED
      BY <1>1, <2>1, <2>3, <2>4, <2>5 DEF CompleteMeansKeys
  <1>7. Wpa1Rekey => CompleteMeansKeys'
    BY <1>4 DEF CompleteMeansKeys
  <1> QED
    BY <1>4, <1>5, <1>6, <1>7 DEF InstallInv, Installation

\* A key command fails.
LEMMA KeyErrorInstall ==
    ASSUME TypeOK, InstallInv, KeyError
    PROVE  InstallInv'
  <1>1. /\ cmdq \in Seq(Commands) /\ cmdq # <<>> /\ Head(cmdq).cmd # "disconnect"
        /\ UNCHANGED <<given, env>>
    BY FlagTypes DEF KeyError, histVars
  <1>2. given # <<>>
    <2>1. 1 \in DOMAIN cmdq /\ Head(cmdq) = cmdq[1]
      BY <1>1, PendingTail
    <2> QED
      BY <1>1, <2>1 DEF InstallInv, Installation, CommandsOfKeys
  <1>3. /\ nhs'.group_timeout = FALSE /\ nhs'.complete = nhs.complete
        /\ nhs'.completes = nhs.completes
    BY FlagTypes DEF KeyError, Handshakes
  <1>4. CASE cmdq' = <<Disconnect>> /\ UNCHANGED <<sup, kernel>>
    BY <1>1, <1>2, <1>3, <1>4, LeaveLemma
  <1>5. CASE cmdq' = <<>> /\ kernel' = NoKeys /\ sup' = [sup EXCEPT !.alive = FALSE]
    <2>1. sup'.alive = FALSE /\ sup'.gtk = sup.gtk /\ sup'.wait_for_gtk = sup.wait_for_gtk
      BY <1>5 DEF TypeOK, Supplicants
    <2> QED
      BY <1>1, <1>2, <1>3, <1>5, <2>1, GoneLemma
  <1> QED
    BY <1>4, <1>5 DEF KeyError

\* try_handshake_complete() changes nothing but complete and completes.
LEMMA TryCompleteLemma ==
    ASSUME NEW h, h \in Handshakes
    PROVE  /\ TryComplete(h) \in Handshakes
           /\ TryComplete(h).ptk_installed = h.ptk_installed
           /\ TryComplete(h).gtk_installed = h.gtk_installed
           /\ TryComplete(h).igtk_installed = h.igtk_installed
           /\ TryComplete(h).group_timeout = h.group_timeout
           /\ AllInstalled(h) =>
                 TryComplete(h).complete = TRUE /\ TryComplete(h).completes = h.completes + 1
           /\ ~AllInstalled(h) =>
                 TryComplete(h).complete = h.complete /\ TryComplete(h).completes = h.completes
  <1>1. TryComplete(h) \in Handshakes
    BY HandshakeTypes
  <1> QED
    BY <1>1 DEF TryComplete, Handshakes

\* A command is answered: the kernel has the key that it carries.  The steps that all
\* four commands have in common.
LEMMA AnswerLemma ==
    ASSUME TypeOK, InstallInv, cmdq # <<>>, Head(cmdq).cmd # "disconnect",
           UNCHANGED <<sup, given, env>>,
           NEW q, q \in Seq(Commands),
           q = Tail(cmdq) \/
              (Head(cmdq).cmd = "ptk" /\ q = Append(Tail(cmdq), Command("set_station", NoKey, 0))),
           cmdq' = q,
           kernel'.ptk = IF Head(cmdq).cmd = "ptk" THEN Head(cmdq).ptk ELSE kernel.ptk,
           kernel'.gtk = IF Head(cmdq).cmd = "gtk" THEN Head(cmdq).g ELSE kernel.gtk
    PROVE  /\ CommandsOfKeys' /\ LastKeys' /\ CommandsOrdered' /\ given # <<>>
           /\ sup.alive => ~Leaving /\ ~Leaving'
           /\ kernel.gtk <= kernel'.gtk /\ kernel'.gtk \in Nat
           /\ Head(cmdq).cmd = "ptk" => kernel'.ptk # NoKey
           /\ Head(cmdq).cmd \in {"gtk", "igtk"} => Head(cmdq).g # 0
           /\ Pending(cmdq, "gtk") = {} => Pending(cmdq', "gtk") = {} /\ Head(cmdq).cmd # "gtk"
           /\ Pending(cmdq, "set_station") = {} =>
                 Head(cmdq).cmd # "set_station"
           /\ Head(cmdq).cmd # "ptk" /\ Pending(cmdq, "set_station") = {} =>
                 Pending(cmdq', "set_station") = {}
  <1> DEFINE c == Head(cmdq)
             t == Tail(cmdq)
             s == Command("set_station", NoKey, 0)
  <1>1. /\ cmdq \in Seq(Commands) /\ kernel.gtk \in Nat /\ sup.gtk \in Nat
        /\ c \in Commands /\ c.g \in Nat /\ t \in Seq(Commands)
        /\ c = cmdq[1] /\ 1 \in DOMAIN cmdq
        /\ s \in Commands /\ s.cmd = "set_station"
    BY FlagTypes, PendingTail, CommandTypes
  <1>2. /\ Carry(cmdq) => /\ Carry(t)
                          /\ c.cmd = "ptk" => c.ptk # NoKey
                          /\ c.cmd \in {"gtk", "igtk"} => c.g # 0
        /\ LastPtk(cmdq, kernel.ptk, sup.ptk) => LastPtk(t, kernel'.ptk, sup.ptk)
        /\ LastGtk(cmdq, kernel.gtk, sup.gtk) => LastGtk(t, kernel'.gtk, sup.gtk)
        /\ Ordered(cmdq, kernel.gtk, sup.gtk) =>
              Ordered(t, kernel'.gtk, sup.gtk) /\ kernel.gtk <= kernel'.gtk
        /\ \A x : Pending(cmdq, x) = {} => Pending(t, x) = {}
        /\ \A x : c.cmd = x => Pending(cmdq, x) # {}
    <2> HIDE DEF c, t, s
    <2>1. /\ Carry(cmdq) => /\ Carry(t)
                            /\ c.cmd = "ptk" => c.ptk # NoKey
                            /\ c.cmd \in {"gtk", "igtk"} => c.g # 0
          /\ c.cmd # "ptk" /\ LastPtk(cmdq, kernel.ptk, sup.ptk) => LastPtk(t, kernel.ptk, sup.ptk)
          /\ c.cmd = "ptk" /\ LastPtk(cmdq, kernel.ptk, sup.ptk) => LastPtk(t, c.ptk, sup.ptk)
          /\ c.cmd # "gtk" /\ LastGtk(cmdq, kernel.gtk, sup.gtk) => LastGtk(t, kernel.gtk, sup.gtk)
          /\ c.cmd = "gtk" /\ LastGtk(cmdq, kernel.gtk, sup.gtk) => LastGtk(t, c.g, sup.gtk)
          /\ c.cmd # "gtk" /\ Ordered(cmdq, kernel.gtk, sup.gtk) => Ordered(t, kernel.gtk, sup.gtk)
          /\ c.cmd = "gtk" /\ Ordered(cmdq, kernel.gtk, sup.gtk) =>
                Ordered(t, c.g, sup.gtk) /\ kernel.gtk <= c.g
          /\ \A x : Pending(cmdq, x) = {} => Pending(t, x) = {}
          /\ \A x : c.cmd = x => Pending(cmdq, x) # {}
      BY <1>1, TailSummary DEF c, t
    <2>2. /\ kernel'.ptk = IF c.cmd = "ptk" THEN c.ptk ELSE kernel.ptk
          /\ kernel'.gtk = IF c.cmd = "gtk" THEN c.g ELSE kernel.gtk
      BY DEF c
    <2>3. kernel.gtk <= kernel.gtk
      BY <1>1
    <2> QED
      BY <2>1, <2>2, <2>3
  <1> HIDE DEF c, t, s
  <1>3. kernel'.gtk \in Nat
    BY <1>1 DEF c
  <1>4. /\ Carry(t) => Carry(q)
        /\ LastPtk(t, kernel'.ptk, sup.ptk) => LastPtk(q, kernel'.ptk, sup.ptk)
        /\ LastGtk(t, kernel'.gtk, sup.gtk) => LastGtk(q, kernel'.gtk, sup.gtk)
        /\ Ordered(t, kernel'.gtk, sup.gtk) => Ordered(q, kernel'.gtk, sup.gtk)
        /\ \A x : x # "set_station" => Pending(q, x) = Pending(t, x)
        /\ c.cmd # "ptk" => q = t
    <2>1. q = t \/ (c.cmd = "ptk" /\ q = Append(t, s))
      BY DEF c, t, s
    <2>2. CASE q = t
      BY <2>2
    <2>3. CASE c.cmd = "ptk" /\ q = Append(t, s)
      <3>1. /\ Carry(t) => Carry(q)
            /\ LastPtk(t, kernel'.ptk, sup.ptk) => LastPtk(q, kernel'.ptk, sup.ptk)
            /\ LastGtk(t, kernel'.gtk, sup.gtk) => LastGtk(q, kernel'.gtk, sup.gtk)
            /\ Ordered(t, kernel'.gtk, sup.gtk) => Ordered(q, kernel'.gtk, sup.gtk)
        BY <1>1, <1>3, <2>3, AppendSummary
      <3>2. \A x : x # "set_station" => Pending(q, x) = Pending(t, x)
        BY <1>1, <2>3, PendingAppend
      <3> QED
        BY <2>3, <3>1, <3>2
    <2> QED
      BY <2>1, <2>2, <2>3
  <1>5. given # <<>>
    BY <1>1 DEF InstallInv, Installation, CommandsOfKeys, c
  <1>6. sup.alive => ~Leaving /\ ~Leaving'
    <2>1. sup.alive => ~Leaving
      BY <1>1 DEF InstallInv, Installation, CommandsOfKeys, c
    <2>2. ~Leaving => ~Leaving'
      BY <1>2, <1>4 DEF Leaving
    <2> QED
      BY <2>1, <2>2
  <1>7. CommandsOfKeys'
    BY <1>2, <1>4, <1>5, <1>6 DEF InstallInv, Installation, CommandsOfKeys
  <1>8. LastKeys'
    BY <1>2, <1>4, <1>6 DEF InstallInv, Installation, LastKeys
  <1>9. CommandsOrdered' /\ kernel.gtk <= kernel'.gtk
    BY <1>2, <1>4 DEF InstallInv, Installation, CommandsOrdered
  <1>10. Carry(cmdq)
    BY DEF InstallInv, Installation, CommandsOfKeys
  <1>11. /\ Pending(cmdq, "gtk") = {} => Pending(cmdq', "gtk") = {} /\ c.cmd # "gtk"
         /\ Pending(cmdq, "set_station") = {} => c.cmd # "set_station"
         /\ c.cmd # "ptk" /\ Pending(cmdq, "set_station") = {} =>
               Pending(cmdq', "set_station") = {}
    BY <1>2, <1>4
  <1>12. /\ c.cmd = "ptk" => kernel'.ptk # NoKey
         /\ c.cmd \in {"gtk", "igtk"} => c.g # 0
    BY <1>2, <1>10 DEF c
  <1> QED
    BY <1>3, <1>5, <1>6, <1>7, <1>8, <1>9, <1>11, <1>12 DEF c

\* A flag is set for a command that was answered, and the handshake may be complete.
LEMMA FlagsLemma ==
    ASSUME TypeOK, InstallInv, UNCHANGED <<sup, given, env>>, given # <<>>,
           sup.alive => ~Leaving /\ ~Leaving',
           NEW h, h \in Handshakes, nhs' = TryComplete(h) \/ (nhs' = h /\ h = nhs),
           h.complete = nhs.complete, h.completes = nhs.completes,
           h.group_timeout = nhs.group_timeout,
           h.group_timeout => (h.gtk_installed <=> nhs.gtk_installed),
           Pending(cmdq, "gtk") = {} => Pending(cmdq', "gtk") = {},
           FlagsMeanKeys /\ sup.alive =>
              /\ Pending(cmdq', "set_station") # {} => kernel'.ptk # NoKey
              /\ h.ptk_installed => kernel'.ptk # NoKey /\ kernel'.authorized
              /\ h.gtk_installed => kernel'.gtk # 0 \/ sup.wait_for_gtk
              /\ h.igtk_installed /\ "mfp" \in env => kernel'.igtk # 0 \/ sup.wait_for_gtk,
           kernel.ptk # NoKey => kernel'.ptk # NoKey,
           kernel.authorized => kernel'.authorized,
           kernel.gtk # 0 => kernel'.gtk # 0,
           kernel.igtk # 0 => kernel'.igtk # 0
    PROVE  (Wpa1Rekey \/ FlagsMeanKeys)' /\ CompleteMeansKeys'
  <1>1. Wpa1Rekey' = Wpa1Rekey
    BY DEF Wpa1Rekey
  <1>2. CASE Wpa1Rekey
    BY <1>1, <1>2 DEF CompleteMeansKeys
  <1>3. CASE ~Wpa1Rekey
    <2>1. FlagsMeanKeys
      BY <1>3 DEF InstallInv, Installation
    <2>2. /\ nhs'.ptk_installed = h.ptk_installed /\ nhs'.gtk_installed = h.gtk_installed
          /\ nhs'.igtk_installed = h.igtk_installed /\ nhs'.group_timeout = h.group_timeout
      BY TryCompleteLemma
    <2>3. \/ /\ h.ptk_installed /\ h.gtk_installed /\ h.igtk_installed
             /\ nhs.complete = FALSE /\ nhs'.complete = TRUE
             /\ nhs'.completes = nhs.completes + 1
          \/ nhs'.complete = nhs.complete /\ nhs'.completes = nhs.completes
      BY TryCompleteLemma, FlagTypes DEF AllInstalled
    <2>4. nhs'.completes = IF nhs'.complete THEN 1 ELSE 0
      BY <2>1, <2>3 DEF FlagsMeanKeys
    <2>5. nhs'.group_timeout =>
             /\ ~nhs'.complete /\ ~nhs'.gtk_installed /\ sup'.wait_for_gtk
             /\ Pending(cmdq', "gtk") = {} /\ (sup'.alive => ~Leaving')
      BY <2>1, <2>2, <2>3 DEF FlagsMeanKeys
    <2>6. FlagsMeanKeys'
      BY <2>1, <2>2, <2>4, <2>5 DEF FlagsMeanKeys
    <2>7. nhs'.completes <= 1
      BY <2>4
    <2>8. nhs'.complete /\ sup.alive =>
             /\ kernel'.ptk # NoKey /\ kernel'.authorized
             /\ \/ kernel'.gtk # 0 /\ ("mfp" \in env => kernel'.igtk # 0)
                \/ sup.wait_for_gtk
      <3>1. CASE nhs'.complete = nhs.complete
        BY <1>3, <3>1 DEF InstallInv, CompleteMeansKeys
      <3>2. CASE h.ptk_installed /\ h.gtk_installed /\ h.igtk_installed
        BY <2>1, <3>2
      <3> QED
        BY <2>3, <3>1, <3>2
    <2> QED
      BY <2>6, <2>7, <2>8 DEF CompleteMeansKeys
  <1> QED
    BY <1>2, <1>3

\* The kernel answers a command.
LEMMA KeyAnswerInstall ==
    ASSUME TypeOK, InstallInv, KeyAnswer
    PROVE  InstallInv' /\ (kernel' # NoKeys => kernel'.gtk >= kernel.gtk)
  <1> DEFINE c == Head(cmdq)
             s == Command("set_station", NoKey, 0)
  <1>1. /\ cmdq # <<>> /\ cmdq \in Seq(Commands) /\ c \in Commands /\ Tail(cmdq) \in Seq(Commands)
        /\ UNCHANGED <<given, env>>
    BY FlagTypes, PendingTail DEF KeyAnswer, histVars
  <1>2. /\ c.cmd \in {"ptk", "gtk", "igtk", "set_station", "disconnect"} /\ c.g \in Nat
        /\ s \in Commands
    BY <1>1, CommandTypes
  <1>3. /\ kernel \in KernelKeys /\ nhs \in Handshakes /\ sup \in Supplicants
        /\ kernel.gtk \in Nat
    BY FlagTypes DEF TypeOK
  <1>4. /\ [nhs EXCEPT !.gtk_installed = TRUE] \in Handshakes
        /\ [nhs EXCEPT !.igtk_installed = TRUE] \in Handshakes
        /\ [nhs EXCEPT !.ptk_installed = TRUE] \in Handshakes
    BY <1>3, HandshakeTypes
  <1>5. Append(Tail(cmdq), s) \in Seq(Commands)
    BY <1>1, <1>2
  <1> HIDE DEF c, s
  <1>6. CASE c.cmd = "disconnect"
    <2>1. /\ kernel' = NoKeys /\ cmdq' = <<>> /\ nhs' = [nhs EXCEPT !.group_timeout = FALSE]
          /\ sup' = [sup EXCEPT !.alive = FALSE]
      BY <1>6 DEF KeyAnswer, c
    <2>2. /\ sup'.alive = FALSE /\ sup'.gtk = sup.gtk /\ sup'.wait_for_gtk = sup.wait_for_gtk
          /\ nhs'.group_timeout = FALSE /\ nhs'.complete = nhs.complete
          /\ nhs'.completes = nhs.completes /\ nhs'.ptk_installed = nhs.ptk_installed
      BY <1>3, <2>1 DEF Supplicants, Handshakes
    <2>3. given = <<>> => ~nhs'.ptk_installed
      BY <2>2 DEF InstallInv, Installation, CommandsOfKeys
    <2> QED
      BY <1>1, <2>1, <2>2, <2>3, GoneLemma
  <1>7. CASE c.cmd = "ptk"
    <2>1. /\ kernel' = [kernel EXCEPT !.ptk = c.ptk] /\ cmdq' = Append(Tail(cmdq), s)
          /\ UNCHANGED <<nhs, sup>>
      BY <1>7 DEF KeyAnswer, c, s
    <2>2. /\ kernel'.ptk = c.ptk /\ kernel'.gtk = kernel.gtk /\ kernel'.igtk = kernel.igtk
          /\ kernel'.authorized = kernel.authorized
      BY <1>3, <2>1 DEF KernelKeys
    <2>3. /\ CommandsOfKeys' /\ LastKeys' /\ CommandsOrdered' /\ given # <<>>
          /\ sup.alive => ~Leaving /\ ~Leaving'
          /\ kernel.gtk <= kernel'.gtk /\ kernel'.gtk \in Nat
          /\ kernel'.ptk # NoKey
          /\ Pending(cmdq, "gtk") = {} => Pending(cmdq', "gtk") = {}
      BY <1>1, <1>5, <1>7, <2>1, <2>2, AnswerLemma DEF c, s
    <2>4. FlagsMeanKeys /\ sup.alive =>
              /\ Pending(cmdq', "set_station") # {} => kernel'.ptk # NoKey
              /\ nhs.ptk_installed => kernel'.ptk # NoKey /\ kernel'.authorized
              /\ nhs.gtk_installed => kernel'.gtk # 0 \/ sup.wait_for_gtk
              /\ nhs.igtk_installed /\ "mfp" \in env => kernel'.igtk # 0 \/ sup.wait_for_gtk
      BY <2>2, <2>3 DEF FlagsMeanKeys
    <2>5. (Wpa1Rekey \/ FlagsMeanKeys)' /\ CompleteMeansKeys'
      BY <1>1, <1>3, <2>1, <2>2, <2>3, <2>4, FlagsLemma
    <2> QED
      BY <1>3, <2>3, <2>5 DEF InstallInv, Installation
  <1>8. CASE c.cmd = "gtk"
    <2> DEFINE h == [nhs EXCEPT !.gtk_installed = TRUE]
    <2>1. /\ kernel' = [kernel EXCEPT !.gtk = c.g] /\ cmdq' = Tail(cmdq)
          /\ nhs' = TryComplete(h) /\ UNCHANGED sup
      BY <1>8 DEF KeyAnswer, c
    <2>2. /\ kernel'.ptk = kernel.ptk /\ kernel'.gtk = c.g /\ kernel'.igtk = kernel.igtk
          /\ kernel'.authorized = kernel.authorized
      BY <1>3, <2>1 DEF KernelKeys
    <2>3. /\ CommandsOfKeys' /\ LastKeys' /\ CommandsOrdered' /\ given # <<>>
          /\ sup.alive => ~Leaving /\ ~Leaving'
          /\ kernel.gtk <= kernel'.gtk /\ kernel'.gtk \in Nat /\ c.g # 0
          /\ Pending(cmdq, "gtk") # {}
          /\ Pending(cmdq, "set_station") = {} => Pending(cmdq', "set_station") = {}
      BY <1>1, <1>8, <2>1, <2>2, AnswerLemma DEF c
    <2>4. /\ h \in Handshakes /\ h.complete = nhs.complete /\ h.completes = nhs.completes
          /\ h.group_timeout = nhs.group_timeout /\ h.ptk_installed = nhs.ptk_installed
          /\ h.igtk_installed = nhs.igtk_installed
      BY <1>3, <1>4 DEF Handshakes
    <2> HIDE DEF h
    <2>5. FlagsMeanKeys /\ sup.alive =>
              /\ Pending(cmdq', "set_station") # {} => kernel'.ptk # NoKey
              /\ h.ptk_installed => kernel'.ptk # NoKey /\ kernel'.authorized
              /\ h.gtk_installed => kernel'.gtk # 0 \/ sup.wait_for_gtk
              /\ h.igtk_installed /\ "mfp" \in env => kernel'.igtk # 0 \/ sup.wait_for_gtk
      BY <2>2, <2>3, <2>4 DEF FlagsMeanKeys
    <2>6. CASE Wpa1Rekey
      BY <1>1, <1>3, <2>3, <2>6 DEF InstallInv, Installation, CompleteMeansKeys, Wpa1Rekey
    <2>7. CASE ~Wpa1Rekey
      <3>1. ~h.group_timeout
        BY <2>3, <2>4, <2>7 DEF InstallInv, Installation, FlagsMeanKeys
      <3>2. (Wpa1Rekey \/ FlagsMeanKeys)' /\ CompleteMeansKeys'
        BY <1>1, <2>1, <2>2, <2>3, <2>4, <2>5, <3>1, FlagsLemma
      <3> QED
        BY <1>3, <2>3, <3>2 DEF InstallInv, Installation
    <2> QED
      BY <2>6, <2>7
  <1>9. CASE c.cmd = "igtk"
    <2> DEFINE h == [nhs EXCEPT !.igtk_installed = TRUE]
    <2>1. /\ kernel' = [kernel EXCEPT !.igtk = c.g] /\ cmdq' = Tail(cmdq)
          /\ nhs' = TryComplete(h) /\ UNCHANGED sup
      BY <1>9 DEF KeyAnswer, c
    <2>2. /\ kernel'.ptk = kernel.ptk /\ kernel'.gtk = kernel.gtk /\ kernel'.igtk = c.g
          /\ kernel'.authorized = kernel.authorized
      BY <1>3, <2>1 DEF KernelKeys
    <2>3. /\ CommandsOfKeys' /\ LastKeys' /\ CommandsOrdered' /\ given # <<>>
          /\ sup.alive => ~Leaving /\ ~Leaving'
          /\ kernel.gtk <= kernel'.gtk /\ kernel'.gtk \in Nat /\ c.g # 0
          /\ Pending(cmdq, "gtk") = {} => Pending(cmdq', "gtk") = {}
          /\ Pending(cmdq, "set_station") = {} => Pending(cmdq', "set_station") = {}
      BY <1>1, <1>9, <2>1, <2>2, AnswerLemma DEF c
    <2>4. /\ h \in Handshakes /\ h.complete = nhs.complete /\ h.completes = nhs.completes
          /\ h.group_timeout = nhs.group_timeout /\ h.ptk_installed = nhs.ptk_installed
          /\ h.gtk_installed = nhs.gtk_installed
      BY <1>3, <1>4 DEF Handshakes
    <2> HIDE DEF h
    <2>5. FlagsMeanKeys /\ sup.alive =>
              /\ Pending(cmdq', "set_station") # {} => kernel'.ptk # NoKey
              /\ h.ptk_installed => kernel'.ptk # NoKey /\ kernel'.authorized
              /\ h.gtk_installed => kernel'.gtk # 0 \/ sup.wait_for_gtk
              /\ h.igtk_installed /\ "mfp" \in env => kernel'.igtk # 0 \/ sup.wait_for_gtk
      BY <2>2, <2>3, <2>4 DEF FlagsMeanKeys
    <2>6. (Wpa1Rekey \/ FlagsMeanKeys)' /\ CompleteMeansKeys'
      BY <1>1, <2>1, <2>2, <2>3, <2>4, <2>5, FlagsLemma
    <2> QED
      BY <1>3, <2>3, <2>6 DEF InstallInv, Installation
  <1>10. CASE c.cmd = "set_station"
    <2> DEFINE h == [nhs EXCEPT !.ptk_installed = TRUE]
    <2>1. /\ kernel' = [kernel EXCEPT !.authorized = TRUE] /\ cmdq' = Tail(cmdq)
          /\ nhs' = TryComplete(h) /\ UNCHANGED sup
      BY <1>10 DEF KeyAnswer, c
    <2>2. /\ kernel'.ptk = kernel.ptk /\ kernel'.gtk = kernel.gtk /\ kernel'.igtk = kernel.igtk
          /\ kernel'.authorized = TRUE
      BY <1>3, <2>1 DEF KernelKeys
    <2>3. /\ CommandsOfKeys' /\ LastKeys' /\ CommandsOrdered' /\ given # <<>>
          /\ sup.alive => ~Leaving /\ ~Leaving'
          /\ kernel.gtk <= kernel'.gtk /\ kernel'.gtk \in Nat
          /\ Pending(cmdq, "gtk") = {} => Pending(cmdq', "gtk") = {}
          /\ Pending(cmdq, "set_station") # {}
      BY <1>1, <1>10, <2>1, <2>2, AnswerLemma DEF c
    <2>4. /\ h \in Handshakes /\ h.complete = nhs.complete /\ h.completes = nhs.completes
          /\ h.group_timeout = nhs.group_timeout /\ h.igtk_installed = nhs.igtk_installed
          /\ h.gtk_installed = nhs.gtk_installed
      BY <1>3, <1>4 DEF Handshakes
    <2> HIDE DEF h
    <2>5. FlagsMeanKeys /\ sup.alive =>
              /\ Pending(cmdq', "set_station") # {} => kernel'.ptk # NoKey
              /\ h.ptk_installed => kernel'.ptk # NoKey /\ kernel'.authorized
              /\ h.gtk_installed => kernel'.gtk # 0 \/ sup.wait_for_gtk
              /\ h.igtk_installed /\ "mfp" \in env => kernel'.igtk # 0 \/ sup.wait_for_gtk
      BY <2>2, <2>3, <2>4 DEF FlagsMeanKeys
    <2>6. (Wpa1Rekey \/ FlagsMeanKeys)' /\ CompleteMeansKeys'
      BY <1>1, <2>1, <2>2, <2>3, <2>4, <2>5, FlagsLemma
    <2> QED
      BY <1>3, <2>3, <2>6 DEF InstallInv, Installation
  <1> QED
    BY <1>2, <1>6, <1>7, <1>8, <1>9, <1>10

\* The commands of a new group key follow the others.
LEMMA GroupQueueLemma ==
    ASSUME NEW q, q \in Seq(Commands), NEW g, g \in Nat, g # 0, sup.gtk \in Nat, sup.gtk <= g,
           NEW pkey, NEW plast, NEW gkey, gkey \in Nat
    PROVE  LET r == q \o GroupCmds(g) IN
           /\ r \in Seq(Commands)
           /\ Carry(q) => Carry(r)
           /\ LastPtk(q, pkey, plast) => LastPtk(r, pkey, plast)
           /\ LastGtk(q, gkey, sup.gtk) => LastGtk(r, gkey, g)
           /\ Ordered(q, gkey, sup.gtk) => Ordered(r, gkey, g)
           /\ Pending(r, "disconnect") = Pending(q, "disconnect")
           /\ Pending(r, "set_station") = Pending(q, "set_station")
           /\ \A k \in DOMAIN q : k \in DOMAIN r /\ r[k] = q[k]
           /\ g = sup.gtk => r = q
  <1> DEFINE a == GroupKey("gtk", g)
             b == GroupKey("igtk", g)
             q1 == Append(q, a)
             q2 == Append(q1, b)
  <1>1. /\ a \in Commands /\ a.cmd = "gtk" /\ a.g = g
        /\ b \in Commands /\ b.cmd = "igtk" /\ b.g = g
    BY CommandTypes
  <1>2. CASE g = sup.gtk
    <2>1. q \o GroupCmds(g) = q
      BY <1>2 DEF GroupCmds, SameGroupKey
    <2> QED
      BY <1>2, <2>1
  <1>3. CASE g # sup.gtk
    <2> HIDE DEF a, b
    <2>1. q1 \in Seq(Commands) /\ q2 \in Seq(Commands)
      BY <1>1
    <2>2. q \o <<a>> = q1 /\ q \o <<a, b>> = q2
      BY <1>1
    <2>3. q \o GroupCmds(g) = IF "mfp" \in env THEN q2 ELSE q1
      BY <1>3, <2>2 DEF GroupCmds, SameGroupKey, a, b
    <2>4. /\ Carry(q) => Carry(q1)
          /\ LastPtk(q, pkey, plast) => LastPtk(q1, pkey, plast)
          /\ LastGtk(q1, gkey, g)
          /\ Ordered(q, gkey, sup.gtk) => Ordered(q1, gkey, g)
      BY <1>1, AppendSummary
    <2>5. /\ Pending(q1, "disconnect") = Pending(q, "disconnect")
          /\ Pending(q1, "set_station") = Pending(q, "set_station")
          /\ \A k \in DOMAIN q : k \in DOMAIN q1 /\ q1[k] = q[k]
      BY <1>1, PendingAppend
    <2> HIDE DEF q1
    <2>6. /\ Carry(q1) => Carry(q2)
          /\ LastPtk(q1, pkey, plast) => LastPtk(q2, pkey, plast)
          /\ LastGtk(q1, gkey, g) => LastGtk(q2, gkey, g)
          /\ Ordered(q1, gkey, g) => Ordered(q2, gkey, g)
      BY <1>1, <2>1, AppendSummary
    <2>7. /\ Pending(q2, "disconnect") = Pending(q1, "disconnect")
          /\ Pending(q2, "set_station") = Pending(q1, "set_station")
          /\ \A k \in DOMAIN q1 : k \in DOMAIN q2 /\ q2[k] = q1[k]
      BY <1>1, <2>1, PendingAppend
    <2> HIDE DEF q2
    <2> QED
      BY <1>3, <2>1, <2>3, <2>4, <2>5, <2>6, <2>7
  <1> QED
    BY <1>2, <1>3

\* A group key that is accepted is not older than the last one.
LEMMA NewerGroupKey ==
    ASSUME PInv, NEW m \in ToSet(toSta), ReplayOk(m), m.gtk # 0
    PROVE  sup.gtk <= m.gtk
  <1>1. m.gtk \in Nat /\ sup.gtk \in Nat
    BY ToStation, NumberTypes DEF PInv
  <1>2. CASE sup.have_replay
    <2>1. m.gtk >= sup.gtk
      BY <1>2 DEF ReplayOk, PInv, Protocol, GroupKeysOrdered
    <2> QED
      BY <1>1, <2>1
  <1>3. CASE ~sup.have_replay
    <2>1. sup.gtk = 0
      BY <1>3 DEF PInv, Protocol, GroupKeysOrdered
    <2> QED
      BY <1>1, <2>1
  <1> QED
    BY <1>2, <1>3

\* What netdev_set_gtk() and netdev_set_igtk() do to the flags.
LEMMA GroupPendingLemma ==
    ASSUME TypeOK, NEW g, g # sup.gtk
    PROVE  LET h == GroupPending(nhs, g) IN
           /\ h.ptk_installed = nhs.ptk_installed /\ h.complete = nhs.complete
           /\ h.completes = nhs.completes /\ h.gtk_installed = FALSE
           /\ h.igtk_installed <=> "mfp" \notin env
           /\ h.group_timeout <=> nhs.group_timeout /\ ~sup.wait_for_gtk
  <1>1. nhs \in Handshakes
    BY FlagTypes
  <1> QED
    BY <1>1 DEF GroupPending, SameGroupKey, Handshakes

\* Group commands that follow the others: the kernel's keys are those it had.
LEMMA GroupFlagsLemma ==
    ASSUME TypeOK, InstallInv, UNCHANGED <<kernel, env>>, given' # <<>>,
           given = <<>> => sup.gtk = 0,
           NEW g, g \in Nat, g # 0, nhs' = GroupPending(nhs, g),
           sup'.alive = sup.alive, sup'.wait_for_gtk = sup.wait_for_gtk,
           Leaving' = Leaving,
           given = <<>> => "wpa1" \notin env,
           Pending(cmdq', "set_station") = Pending(cmdq, "set_station"),
           g = sup.gtk => Pending(cmdq', "gtk") = Pending(cmdq, "gtk")
    PROVE  (Wpa1Rekey \/ FlagsMeanKeys)' /\ CompleteMeansKeys'
  <1>1. Wpa1Rekey' = Wpa1Rekey
    BY DEF Wpa1Rekey
  <1>2. CASE Wpa1Rekey
    BY <1>1, <1>2 DEF CompleteMeansKeys
  <1>3. CASE ~Wpa1Rekey
    <2>1. FlagsMeanKeys
      BY <1>3 DEF InstallInv, Installation
    <2>2. CASE g = sup.gtk
      <3>1. nhs' = nhs /\ given # <<>>
        BY <2>2 DEF GroupPending, SameGroupKey
      <3>2. FlagsMeanKeys'
        BY <2>1, <2>2, <3>1 DEF FlagsMeanKeys
      <3>3. CompleteMeansKeys'
        BY <1>1, <3>1 DEF InstallInv, CompleteMeansKeys
      <3> QED
        BY <3>2, <3>3
    <2>3. CASE g # sup.gtk
      <3>1. /\ nhs'.ptk_installed = nhs.ptk_installed /\ nhs'.complete = nhs.complete
            /\ nhs'.completes = nhs.completes /\ nhs'.gtk_installed = FALSE
            /\ nhs'.igtk_installed <=> "mfp" \notin env
            /\ nhs'.group_timeout <=> nhs.group_timeout /\ ~sup.wait_for_gtk
        BY <2>3, GroupPendingLemma
      <3>2. ~nhs'.group_timeout
        BY <2>1, <3>1 DEF FlagsMeanKeys
      <3>3. given = <<>> => ~nhs.ptk_installed /\ Pending(cmdq, "set_station") = {}
        BY DEF InstallInv, Installation, CommandsOfKeys, Pending
      <3>4. FlagsMeanKeys'
        BY <2>1, <3>1, <3>2, <3>3 DEF FlagsMeanKeys
      <3>5. CompleteMeansKeys'
        BY <1>1, <3>1 DEF InstallInv, CompleteMeansKeys
      <3> QED
        BY <3>4, <3>5
    <2> QED
      BY <2>2, <2>3
  <1> QED
    BY <1>2, <1>3

\* The station handles the message 1 of a group handshake.
LEMMA GroupInstall ==
    ASSUME PInv, InstallInv, NEW m \in ToSet(toSta), m.n = 5, ReplayOk(m), sup.ptk_complete,
           HandleGtk1(m), sup.alive, UNCHANGED <<kernel, env, given>>
    PROVE  InstallInv'
  <1>1. /\ cmdq' = cmdq \o GroupCmds(m.gtk) /\ nhs' = GroupPending(nhs, m.gtk)
        /\ TypeOK
    BY DEF HandleGtk1, PInv
  <1>2. m.gtk \in Nat /\ m.gtk # 0 /\ sup.gtk <= m.gtk
    <2>1. m.gtk \in Nat /\ m.gtk # 0
      BY ToStation DEF PInv, Protocol, GroupKeysOrdered
    <2> QED
      BY <2>1, NewerGroupKey
  <1>3. given # <<>>
    BY SetOfEmpty DEF PInv, Protocol, StationPtk
  <1>4. /\ sup'.alive = sup.alive /\ sup'.gtk = m.gtk /\ sup'.wait_for_gtk = sup.wait_for_gtk
        /\ sup'.ptk_complete = sup.ptk_complete /\ sup'.ptk = sup.ptk
    BY <1>1 DEF HandleGtk1, TypeOK, Supplicants
  <1>5. cmdq \in Seq(Commands) /\ sup.gtk \in Nat /\ kernel.gtk \in Nat
    BY <1>1, FlagTypes
  <1>6. /\ Carry(cmdq) => Carry(cmdq')
        /\ LastPtk(cmdq, kernel.ptk, sup.ptk) => LastPtk(cmdq', kernel.ptk, sup.ptk)
        /\ LastGtk(cmdq, kernel.gtk, sup.gtk) => LastGtk(cmdq', kernel.gtk, m.gtk)
        /\ Ordered(cmdq, kernel.gtk, sup.gtk) => Ordered(cmdq', kernel.gtk, m.gtk)
        /\ Pending(cmdq', "disconnect") = Pending(cmdq, "disconnect")
        /\ Pending(cmdq', "set_station") = Pending(cmdq, "set_station")
        /\ \A k \in DOMAIN cmdq : k \in DOMAIN cmdq' /\ cmdq'[k] = cmdq[k]
        /\ m.gtk = sup.gtk => cmdq' = cmdq
    BY <1>1, <1>2, <1>5, GroupQueueLemma
  <1>7. Leaving' = Leaving
    BY <1>6 DEF Leaving
  <1>8. CommandsOfKeys'
    <2>1. sup.alive /\ Leaving => cmdq'[1].cmd = "disconnect"
      <3>1. Leaving => 1 \in DOMAIN cmdq
        <4>1. Leaving => cmdq # <<>>
          BY PendingEmpty DEF Leaving
        <4> QED
          BY <1>5, <4>1, PendingTail
      <3> QED
        BY <1>6, <3>1 DEF InstallInv, Installation, CommandsOfKeys
    <2> QED
      BY <1>3, <1>4, <1>6, <1>7, <2>1 DEF InstallInv, Installation, CommandsOfKeys
  <1>9. LastKeys'
    BY <1>4, <1>6, <1>7 DEF InstallInv, Installation, LastKeys
  <1>10. CommandsOrdered'
    BY <1>4, <1>6 DEF InstallInv, Installation, CommandsOrdered
  <1>11. (Wpa1Rekey \/ FlagsMeanKeys)' /\ CompleteMeansKeys'
    BY <1>1, <1>2, <1>3, <1>4, <1>6, <1>7, GroupFlagsLemma
  <1> QED
    BY <1>8, <1>9, <1>10, <1>11 DEF InstallInv, Installation

\* The station handles the first message 3 of a handshake, with a group key or not.
LEMMA Message3Install ==
    ASSUME PInv, InstallInv, NEW m \in ToSet(toSta), m.n = 3, ReplayOk(m), MicOk(m),
           HandlePtk3(m), sup.alive, UNCHANGED <<kernel, env>>
    PROVE  InstallInv'
  <1> DEFINE c == Command("ptk", sup.ptk, 0)
  <1>1. /\ TypeOK /\ cmdq \in Seq(Commands) /\ sup.gtk \in Nat /\ kernel.gtk \in Nat
        /\ m.gtk \in Nat /\ given \in Seq(Keys) /\ sup.ptk \in Keys
        /\ m.gtk = 0 <=> "wpa1" \in env
    <2>1. /\ TypeOK /\ given \in Seq(Keys) /\ sup.ptk \in Keys
      BY DEF PInv, TypeOK, Supplicants
    <2>2. cmdq \in Seq(Commands) /\ sup.gtk \in Nat /\ kernel.gtk \in Nat
      BY <2>1, FlagTypes
    <2>3. m.gtk \in Nat /\ (m.gtk = 0 <=> "wpa1" \in env)
      BY ToStation DEF PInv, Protocol, GroupKeysOrdered
    <2> QED
      BY <2>1, <2>2, <2>3
  <1>2. sup.ptk # NoKey
    <2>1. sup.ptk = Ptk(SupPmk, sup.anonce, sup.snonce)
      BY DEF MicOk, PInv, Protocol, StationPtk
    <2> QED
      BY <2>1 DEF Ptk, NoKey
  <1>3. c \in Commands /\ c.cmd = "ptk" /\ c.ptk = sup.ptk
    BY <1>1, CommandTypes
  <1> HIDE DEF c
  <1>4. CASE Message3Repeated
    <2>1. /\ sup' = [sup EXCEPT !.replay_counter = m.ctr, !.have_replay = TRUE]
          /\ UNCHANGED <<nhs, cmdq, given>>
      BY <1>4 DEF HandlePtk3, Message3Repeated
    <2>2. /\ sup'.alive = sup.alive /\ sup'.gtk = sup.gtk /\ sup'.wait_for_gtk = sup.wait_for_gtk
          /\ sup'.ptk_complete = sup.ptk_complete /\ sup'.ptk = sup.ptk
      BY <1>1, <2>1 DEF TypeOK, Supplicants
    <2> QED
      BY <1>1, <2>1, <2>2, SameInstallLemma
  <1>5. CASE ~Message3Repeated
    <2> DEFINE q == IF m.gtk = 0 THEN cmdq ELSE cmdq \o GroupCmds(m.gtk)
    <2>1. /\ given' = Append(given, sup.ptk) /\ cmdq' = Append(q, c) /\ ~sup.ptk_complete
          /\ sup' = [sup EXCEPT !.replay_counter = m.ctr, !.have_replay = TRUE,
                        !.ptk_complete = TRUE, !.timeout = FALSE,
                        !.wait_for_gtk = @ \/ m.gtk = 0,
                        !.gtk = IF m.gtk = 0 THEN @ ELSE m.gtk]
      BY <1>5 DEF HandlePtk3, Message3Repeated, c
    <2>2. /\ sup'.alive = sup.alive /\ sup'.ptk_complete = TRUE /\ sup'.ptk = sup.ptk
          /\ sup'.gtk = IF m.gtk = 0 THEN sup.gtk ELSE m.gtk
          /\ sup'.wait_for_gtk <=> sup.wait_for_gtk \/ m.gtk = 0
          /\ m.gtk # 0 => sup'.wait_for_gtk = sup.wait_for_gtk
      BY <1>1, <2>1 DEF TypeOK, Supplicants
    <2>3. given' # <<>>
      BY <1>1, <2>1
    <2>4. /\ q \in Seq(Commands)
          /\ Carry(cmdq) => Carry(q)
          /\ LastGtk(cmdq, kernel.gtk, sup.gtk) => LastGtk(q, kernel.gtk, sup'.gtk)
          /\ Ordered(cmdq, kernel.gtk, sup.gtk) => Ordered(q, kernel.gtk, sup'.gtk)
          /\ Pending(q, "disconnect") = Pending(cmdq, "disconnect")
          /\ Pending(q, "set_station") = Pending(cmdq, "set_station")
          /\ \A k \in DOMAIN cmdq : k \in DOMAIN q /\ q[k] = cmdq[k]
          /\ sup'.gtk = sup.gtk => q = cmdq
      <3>1. CASE m.gtk = 0
        BY <1>1, <2>2, <3>1
      <3>2. CASE m.gtk # 0
        <4>1. sup.gtk <= m.gtk /\ q = cmdq \o GroupCmds(m.gtk) /\ sup'.gtk = m.gtk
          BY <2>2, <3>2, NewerGroupKey
        <4> QED
          BY <1>1, <3>2, <4>1, GroupQueueLemma
      <3> QED
        BY <3>1, <3>2
    <2> HIDE DEF q
    <2>5. sup'.gtk \in Nat
      BY <1>1, <2>2
    <2>6. /\ Carry(q) => Carry(cmdq')
          /\ LastPtk(cmdq', kernel.ptk, sup.ptk)
          /\ LastGtk(q, kernel.gtk, sup'.gtk) => LastGtk(cmdq', kernel.gtk, sup'.gtk)
          /\ Ordered(q, kernel.gtk, sup'.gtk) => Ordered(cmdq', kernel.gtk, sup'.gtk)
      BY <1>1, <1>2, <1>3, <2>1, <2>4, <2>5, AppendSummary
    <2>7. /\ Pending(cmdq', "disconnect") = Pending(q, "disconnect")
          /\ Pending(cmdq', "set_station") = Pending(q, "set_station")
          /\ Pending(cmdq', "gtk") = Pending(q, "gtk")
          /\ \A k \in DOMAIN q : k \in DOMAIN cmdq' /\ cmdq'[k] = q[k]
      BY <1>3, <2>1, <2>4, PendingAppend
    <2>8. Leaving' = Leaving
      BY <2>4, <2>7 DEF Leaving
    <2>9. CommandsOfKeys'
      <3>1. Leaving => cmdq'[1].cmd = "disconnect"
        <4>1. Leaving => cmdq # <<>>
          BY PendingEmpty DEF Leaving
        <4>2. Leaving => 1 \in DOMAIN cmdq
          BY <1>1, <4>1, PendingTail
        <4> QED
          BY <2>4, <2>7, <4>2 DEF InstallInv, Installation, CommandsOfKeys
      <3> QED
        BY <2>3, <2>4, <2>6, <2>8, <3>1 DEF InstallInv, Installation, CommandsOfKeys
    <2>10. LastKeys'
      BY <2>2, <2>4, <2>6, <2>8 DEF InstallInv, Installation, LastKeys
    <2>11. CommandsOrdered'
      BY <2>4, <2>6 DEF InstallInv, Installation, CommandsOrdered
    <2>12. given = <<>> => sup.gtk = 0
      BY DEF InstallInv, Installation, CommandsOfKeys
    <2>13. (Wpa1Rekey \/ FlagsMeanKeys)' /\ CompleteMeansKeys'
      <3>1. CASE m.gtk # 0
        <4>1. nhs' = GroupPending(nhs, m.gtk)
          BY <1>5, <3>1 DEF HandlePtk3
        <4>2. m.gtk = sup.gtk => Pending(cmdq', "gtk") = Pending(cmdq, "gtk")
          BY <2>2, <2>4, <2>7, <3>1
        <4>3. given = <<>> => "wpa1" \notin env
          BY <1>1, <3>1
        <4>4. Pending(cmdq', "set_station") = Pending(cmdq, "set_station")
          BY <2>4, <2>7
        <4>5. sup'.alive = sup.alive /\ sup'.wait_for_gtk = sup.wait_for_gtk
          BY <2>2, <3>1
        <4> QED
          BY <1>1, <2>3, <2>8, <2>12, <3>1, <4>1, <4>2, <4>3, <4>4, <4>5, GroupFlagsLemma
      <3>2. CASE m.gtk = 0 /\ Wpa1Rekey
        BY <3>2 DEF Wpa1Rekey, CompleteMeansKeys
      <3>3. CASE m.gtk = 0 /\ ~Wpa1Rekey
        <4>1. "rekey" \notin env
          BY <1>1, <3>3 DEF Wpa1Rekey
        <4>2. given = <<>>
          BY <2>1, <4>1 DEF PInv, Protocol, NoRekeying
        <4>3. /\ \A k \in DOMAIN cmdq : cmdq[k].cmd = "disconnect"
              /\ ~nhs.ptk_installed /\ ~nhs.complete
              /\ ~Leaving
          BY <4>2 DEF InstallInv, Installation, CommandsOfKeys
        <4>4. Pending(cmdq, "set_station") = {} /\ Pending(cmdq, "gtk") = {}
          BY <4>3 DEF Pending
        <4>5. nhs' = [nhs EXCEPT !.gtk_installed = FALSE, !.group_timeout = TRUE]
          BY <1>5, <3>3 DEF HandlePtk3
        <4>6. /\ nhs'.ptk_installed = nhs.ptk_installed /\ nhs'.complete = nhs.complete
              /\ nhs'.gtk_installed = FALSE /\ nhs'.completes = nhs.completes
          BY <1>1, <4>5, FlagTypes DEF Handshakes
        <4>7. q = cmdq
          BY <3>3 DEF q
        <4>8. FlagsMeanKeys
          BY <3>3 DEF InstallInv, Installation
        <4>9. FlagsMeanKeys'
          BY <2>2, <2>7, <2>8, <3>3, <4>3, <4>4, <4>6, <4>7, <4>8 DEF FlagsMeanKeys
        <4>10. CompleteMeansKeys'
          BY <3>3, <4>3, <4>6 DEF InstallInv, CompleteMeansKeys
        <4> QED
          BY <4>9, <4>10
      <3> QED
        BY <3>1, <3>2, <3>3
    <2> QED
      BY <2>9, <2>10, <2>11, <2>13 DEF InstallInv, Installation
  <1> QED
    BY <1>4, <1>5

\* Every step keeps the installation part, and never goes back to an older group key.
LEMMA NextInstallInv ==
    PInv /\ InstallInv /\ [Next]_vars =>
        InstallInv' /\ (kernel' # NoKeys => kernel'.gtk >= kernel.gtk)
  <1> SUFFICES ASSUME PInv, InstallInv, [Next]_vars
               PROVE  InstallInv' /\ (kernel' # NoKeys => kernel'.gtk >= kernel.gtk)
    OBVIOUS
  <1>1. TypeOK /\ kernel.gtk \in Nat /\ kernel.gtk >= kernel.gtk /\ sup \in Supplicants
    BY FlagTypes DEF PInv, TypeOK
  <1>2. CASE KeyAnswer
    BY <1>1, <1>2, KeyAnswerInstall
  <1>3. CASE KeyError
    <2>1. kernel' = kernel \/ kernel' = NoKeys
      BY <1>3 DEF KeyError
    <2> QED
      BY <1>1, <1>3, <2>1, KeyErrorInstall
  <1>4. CASE SupTimeout
    BY <1>1, <1>4, SupTimeoutInstall DEF SupTimeout
  <1>5. CASE GroupTimeout
    BY <1>1, <1>5, GroupTimeoutInstall DEF GroupTimeout
  <1>6. CASE SupStart
    <2>1. UNCHANGED <<nhs, cmdq, kernel, given, env>>
      BY <1>6 DEF SupStart, histVars
    <2>2. \/ sup' = [sup EXCEPT !.started = TRUE]
          \/ HandlePtk1(sup.early)
      BY <1>6 DEF SupStart
    <2>3. /\ sup'.alive = sup.alive /\ sup'.gtk = sup.gtk /\ sup'.wait_for_gtk = sup.wait_for_gtk
          /\ sup'.ptk_complete => sup.ptk_complete /\ sup'.ptk = sup.ptk
      BY <1>1, <2>2 DEF HandlePtk1, DerivePtk, Supplicants
    <2> QED
      BY <1>1, <2>1, <2>3, SameInstallLemma
  <1>7. CASE SupRx
    <2> DEFINE m == Head(toSta)
    <2>1. m \in ToSet(toSta) /\ UNCHANGED env
      BY <1>7, SetOfTail DEF SupRx, PInv, TypeOK
    <2>2. CASE ~sup.alive \/ ~sup.started \/
               UNCHANGED <<sup, nhs, toAp, cmdq, kernel, nonces, given>>
      <3>1. /\ UNCHANGED <<nhs, cmdq, kernel, given>>
            /\ sup' = sup \/ sup' = [sup EXCEPT !.early = IF @ = NoMsg THEN Head(toSta) ELSE @]
        BY <1>7, <2>2 DEF SupRx
      <3>2. /\ sup'.alive = sup.alive /\ sup'.gtk = sup.gtk
            /\ sup'.wait_for_gtk = sup.wait_for_gtk
            /\ sup'.ptk_complete = sup.ptk_complete /\ sup'.ptk = sup.ptk
        BY <1>1, <3>1 DEF Supplicants
      <3> QED
        BY <1>1, <2>1, <3>1, <3>2, SameInstallLemma
    <2>3. CASE /\ HandlePtk1(m) \/ HandlePtk1Again(m)
               /\ UNCHANGED <<nhs, cmdq, kernel, given>>
      <3>1. /\ sup'.alive = sup.alive /\ sup'.gtk = sup.gtk
            /\ sup'.wait_for_gtk = sup.wait_for_gtk
            /\ sup'.ptk_complete => sup.ptk_complete /\ sup'.ptk = sup.ptk
        BY <1>1, <2>3 DEF HandlePtk1, HandlePtk1Again, DerivePtk, Supplicants
      <3> QED
        BY <1>1, <2>1, <2>3, <3>1, SameInstallLemma
    <2>4. CASE RekeyFailed /\ UNCHANGED given
      <3>1. /\ sup'.alive = FALSE /\ sup'.gtk = sup.gtk
            /\ sup'.wait_for_gtk = sup.wait_for_gtk /\ cmdq' = <<>> /\ kernel' = NoKeys
        BY <1>1, <2>4 DEF RekeyFailed, Supplicants
      <3>2. /\ nhs'.group_timeout = FALSE /\ nhs'.complete = nhs.complete
            /\ nhs'.completes = nhs.completes /\ nhs'.ptk_installed = nhs.ptk_installed
        BY <1>1, <2>4, FlagTypes DEF RekeyFailed, Handshakes
      <3>3. given = <<>> => ~nhs'.ptk_installed
        BY <3>2 DEF InstallInv, Installation, CommandsOfKeys
      <3> QED
        BY <1>1, <2>1, <2>4, <3>1, <3>2, <3>3, GoneLemma
    <2>5. CASE /\ m.n = 3 /\ ReplayOk(m) /\ MicOk(m) /\ HandlePtk3(m) /\ sup.alive
               /\ UNCHANGED kernel
      BY <1>1, <2>1, <2>5, Message3Install
    <2>6. CASE /\ m.n = 5 /\ ReplayOk(m) /\ sup.ptk_complete /\ HandleGtk1(m) /\ sup.alive
               /\ UNCHANGED <<kernel, given>>
      BY <1>1, <2>1, <2>6, GroupInstall
    <2> QED
      BY <1>7, <2>2, <2>3, <2>4, <2>5, <2>6 DEF SupRx, KeyHandle
  <1>8. CASE UNCHANGED <<sup, nhs, cmdq, kernel, given, env>>
    BY <1>1, <1>8, SameInstallLemma
  <1>9. CASE AutStart \/ AutTimeout \/ AutRx \/ ApRekey \/ ApRepeat \/ ApGroup \/ Fault
    BY <1>8, <1>9 DEF AutStart, AutTimeout, AutRx, ApRekey, ApRepeat, ApGroup, Fault, histVars
  <1>10. CASE UNCHANGED vars
    BY <1>8, <1>10 DEF vars, histVars
  <1> QED
    BY <1>2, <1>3, <1>4, <1>5, <1>6, <1>7, <1>9, <1>10 DEF Next

\* Once nothing is under way the kernel is up to date.
LEMMA UpToDate == PInv /\ InstallInv => KernelUpToDate
  <1> SUFFICES ASSUME PInv, InstallInv, cmdq = <<>>, sup.alive, aut.ptk_complete
               PROVE  kernel.ptk = Last(apGiven) /\ kernel.gtk = sup.gtk
    BY DEF KernelUpToDate
  <1>1. sup.ptk_complete /\ sup.ptk = Last(apGiven)
    BY DEF PInv, Protocol, BothComplete
  <1>2. \A x : Pending(cmdq, x) = {}
    BY PendingEmpty
  <1>3. LastPtk(cmdq, kernel.ptk, sup.ptk) /\ LastGtk(cmdq, kernel.gtk, sup.gtk)
    BY <1>1, <1>2 DEF InstallInv, Installation, LastKeys, Leaving
  <1> QED
    BY <1>1, <1>2, <1>3 DEF LastPtk, LastGtk

\* The initial state: nothing is installed.
LEMMA InitInstallInv == Init => InstallInv
  <1> SUFFICES ASSUME Init PROVE InstallInv
    OBVIOUS
  <1>1. /\ cmdq = <<>> /\ kernel = NoKeys /\ given = <<>> /\ sup.gtk = 0
        /\ ~sup.ptk_complete /\ ~nhs.complete /\ nhs.completes = 0
        /\ ~nhs.ptk_installed /\ ~nhs.group_timeout
    BY DEF Init
  <1>2. NoKeys.gtk = 0 /\ Carry(<<>>) /\ Ordered(<<>>, 0, 0) /\ ~Leaving
        /\ \A k \in DOMAIN <<>> : FALSE
    BY <1>1, PendingEmpty DEF NoKeys, Leaving
  <1>3. LastGtk(<<>>, 0, 0)
    BY PendingEmpty DEF LastGtk
  <1>4. CommandsOfKeys
    BY <1>1, <1>2 DEF CommandsOfKeys
  <1>5. LastKeys /\ CommandsOrdered
    BY <1>1, <1>2, <1>3 DEF LastKeys, CommandsOrdered
  <1>6. FlagsMeanKeys /\ CompleteMeansKeys
    BY <1>1 DEF FlagsMeanKeys, CompleteMeansKeys
  <1> QED
    BY <1>4, <1>5, <1>6 DEF InstallInv, Installation

\* Every step of the installation is one that the protocol part allows.
THEOREM InstallInvariant == Spec => []InstallInv
  BY InitInstallInv, ProtocolInvariant, NextInstallInv, PTL DEF Spec

\* For any number of retries, faults and rekeys and in every environment: both sides and
\* their kernels have the same keys, and netdev reports completion once, when the kernel
\* has them.
THEOREM InvariantTheorem == Spec => []IInv
  <1>1. PInv /\ InstallInv /\ NoReinstallation => IInv
    BY UpToDate DEF IInv, Inv, PInv, InstallInv
  <1> QED
    BY <1>1, ProtocolInvariant, InstallInvariant, NoReinstallationTheorem, PTL

\* While the station is connected its kernel never goes back to an older group key.
THEOREM GroupKeysAdvanceTheorem == Spec => GroupKeysAdvance
  <1>1. PInv /\ InstallInv /\ [Next]_vars => [kernel' # NoKeys => kernel'.gtk >= kernel.gtk]_kernel
    BY NextInstallInv
  <1> QED
    BY <1>1, ProtocolInvariant, InstallInvariant, PTL DEF Spec, GroupKeysAdvance
=============================================================================
