---------------------------- MODULE StationProofs ----------------------------
(***************************************************************************)
(* Proofs about Station, for every set of access points and networks and   *)
(* every calm environment.                                                 *)
(*                                                                         *)
(* A handler is a function of the world.  Its contract is a relation       *)
(* between the world it is given and the one it leaves, field by field; the *)
(* contracts of handlers that call others follow from those of the others. *)
(* An action is sound because the contract of its handler is.              *)
(***************************************************************************)
EXTENDS Station, FiniteSetTheorems, TLAPS

-----------------------------------------------------------------------------
(* Names and numbers. *)

LEMMA ScanNames ==
    /\ "quick" \in Scans /\ "roam" \in Scans /\ "dbus" \in Scans /\ "hidden" \in Scans
    /\ "periodic" \notin Scans
    /\ \A k \in Scans : k \in {"quick", "roam", "dbus", "hidden"}
  BY DEF Scans

LEMMA StateNames ==
    /\ "connecting" \in States /\ "connected" \in States /\ "disconnecting" \in States
    /\ "roaming" \in States /\ "gone" \in States
    /\ "quick" \in States /\ "full" \in States /\ "disconnected" \in States
  BY DEF States, Idle, Autoconnecting

LEMMA NetworkFacts ==
    /\ 0 \notin Bsses /\ 0 \notin Networks
    /\ \A b \in Bsses : NetworkOf[b] \in Networks /\ NetworkOf[b] # 0
  BY BssAssumption DEF Networks

\* A set of access points that is not empty has a best one.
LEMMA LeastIn ==
    ASSUME NEW S, S \subseteq Nat, S # {}
    PROVE  Least(S) \in S
  <1> DEFINE R == OpToRel(<, Nat)
  <1>1. IsWellFoundedOn(R, Nat)
    BY NatLessThanWellFounded
  <1>2. \A x, y \in Nat : x < y => <<x, y>> \in R
    BY DEF R, OpToRel
  <1> HIDE DEF R
  <1>3. \E x \in S : \A y \in S : ~(<<y, x>> \in R)
    BY <1>1, WFMin, Zenon
  <1>4. PICK x \in S : \A y \in S : ~(<<y, x>> \in R)
    BY <1>3, Zenon
  <1>5. \A y \in S : ~(y < x)
    BY <1>2, <1>4, Zenon
  <1>6. \A y \in S : x <= y
    BY <1>5
  <1> QED
    BY <1>6 DEF Least

LEMMA BestBss ==
    ASSUME NEW S, S \subseteq Bsses, S # {}
    PROVE  Least(S) \in Bsses
  <1>1. S \subseteq Nat
    BY BssAssumption
  <1>2. Least(S) \in S
    BY <1>1, LeastIn
  <1> QED
    BY <1>2

-----------------------------------------------------------------------------
(* Frames: what a handler leaves alone. *)

SamePlace(w, v) ==
    /\ v.st.state = w.st.state /\ v.st.network = w.st.network /\ v.st.bss = w.st.bss
    /\ v.st.netconfig = w.st.netconfig
SameCalls(w, v) ==
    /\ v.st.autoconnect = w.st.autoconnect
    /\ v.st.connect_pending = w.st.connect_pending
    /\ v.st.connect_pending_bss = w.st.connect_pending_bss
    /\ v.st.pending_freed = w.st.pending_freed
    /\ v.st.disconnect_pending = w.st.disconnect_pending
    /\ v.st.scan_pending = w.st.scan_pending
    /\ v.st.hidden_pending = w.st.hidden_pending
    /\ v.st.subset = w.st.subset /\ v.st.fault = w.st.fault
SameRoam(w, v) ==
    /\ v.st.preparing_roam = w.st.preparing_roam /\ v.st.signal_low = w.st.signal_low
    /\ v.st.timer = w.st.timer
SameQuick(w, v) == v.sc.quick = w.sc.quick /\ v.st.id.quick = w.st.id.quick
SameRoamScan(w, v) == v.sc.roam = w.sc.roam /\ v.st.id.roam = w.st.id.roam
SameDbus(w, v) == v.sc.dbus = w.sc.dbus /\ v.st.id.dbus = w.st.id.dbus
SameHidden(w, v) == v.sc.hidden = w.sc.hidden /\ v.st.id.hidden = w.st.id.hidden
SamePeriodic(w, v) == v.sc.periodic = w.sc.periodic
SameScans(w, v) ==
    /\ SameQuick(w, v) /\ SameRoamScan(w, v) /\ SameDbus(w, v) /\ SameHidden(w, v)
    /\ SamePeriodic(w, v)

\* Of an interface: everything but conn, cb and up.
SameWatches(m, n) ==
    /\ n.disc = m.disc /\ n.ending = m.ending /\ n.nr = m.nr /\ n.ds = m.ds
    /\ n.parsed = m.parsed /\ n.preauth = m.preauth

\* The networks may change.
OnlyNets(w, v) ==
    /\ v \in Worlds /\ v.net = w.net
    /\ SamePlace(w, v) /\ SameCalls(w, v) /\ SameRoam(w, v) /\ SameScans(w, v)

LEMMA OnlyNetsRefl ==
    ASSUME NEW w \in Worlds
    PROVE  OnlyNets(w, w)
  BY DEF OnlyNets, SamePlace, SameCalls, SameRoam, SameScans, SameQuick, SameRoamScan,
         SameDbus, SameHidden, SamePeriodic

-----------------------------------------------------------------------------
(* Scans. *)

\* The scan k is in the phase p, and its id is set or not.
ScanIs(w, v, k, p, b) ==
    /\ v \in Worlds /\ v.net = w.net
    /\ SamePlace(w, v) /\ SameCalls(w, v) /\ SameRoam(w, v) /\ SamePeriodic(w, v)
    /\ IF k = "quick" THEN v.sc.quick = p /\ v.st.id.quick = b ELSE SameQuick(w, v)
    /\ IF k = "roam" THEN v.sc.roam = p /\ v.st.id.roam = b ELSE SameRoamScan(w, v)
    /\ IF k = "dbus" THEN v.sc.dbus = p /\ v.st.id.dbus = b ELSE SameDbus(w, v)
    /\ IF k = "hidden" THEN v.sc.hidden = p /\ v.st.id.hidden = b ELSE SameHidden(w, v)

LEMMA ScanUpdate ==
    ASSUME NEW w \in Worlds, NEW k \in Scans,
           NEW p \in {"none", "queued", "triggered"}, NEW b \in BOOLEAN
    PROVE  ScanIs(w, [w EXCEPT !.sc[k] = p, !.st.id[k] = b], k, p, b)
  <1> DEFINE v == [w EXCEPT !.sc[k] = p, !.st.id[k] = b]
  <1>1. v \in Worlds /\ v.net = w.net
    BY ScanNames DEF Worlds
  <1>2. SamePlace(w, v) /\ SameCalls(w, v) /\ SameRoam(w, v)
    BY ScanNames DEF Worlds, SamePlace, SameCalls, SameRoam
  <1>3. v.sc = [w.sc EXCEPT ![k] = p] /\ v.st.id = [w.st.id EXCEPT ![k] = b]
    BY ScanNames DEF Worlds
  <1>4. /\ w.sc \in [Scans \cup {"periodic"} -> {"none", "queued", "triggered", "on"}]
        /\ w.st.id \in [Scans -> BOOLEAN]
    BY DEF Worlds
  <1> HIDE DEF v
  <1>5. SamePeriodic(w, v)
    BY <1>3, <1>4, ScanNames DEF SamePeriodic
  <1>6. IF k = "quick" THEN v.sc.quick = p /\ v.st.id.quick = b ELSE SameQuick(w, v)
    BY <1>3, <1>4, ScanNames DEF SameQuick
  <1>7. IF k = "roam" THEN v.sc.roam = p /\ v.st.id.roam = b ELSE SameRoamScan(w, v)
    BY <1>3, <1>4, ScanNames DEF SameRoamScan
  <1>8. IF k = "dbus" THEN v.sc.dbus = p /\ v.st.id.dbus = b ELSE SameDbus(w, v)
    BY <1>3, <1>4, ScanNames DEF SameDbus
  <1>9. IF k = "hidden" THEN v.sc.hidden = p /\ v.st.id.hidden = b ELSE SameHidden(w, v)
    BY <1>3, <1>4, ScanNames DEF SameHidden
  <1>10. ScanIs(w, v, k, p, b)
    BY <1>1, <1>2, <1>5, <1>6, <1>7, <1>8, <1>9 DEF ScanIs
  <1> QED
    BY <1>10 DEF v

LEMMA ScanStartFacts ==
    ASSUME NEW w \in Worlds, NEW k \in Scans
    PROVE  ScanIs(w, ScanStart(w, k), k, "queued", TRUE)
  BY ScanUpdate DEF ScanStart

LEMMA ScanCancelFacts ==
    ASSUME NEW w \in Worlds, NEW k \in Scans
    PROVE  /\ w.sc[k] = "none" => ScanCancel(w, k) = w
           /\ w.sc[k] # "none" => ScanIs(w, ScanCancel(w, k), k, "none", FALSE)
  BY ScanUpdate DEF ScanCancel

-----------------------------------------------------------------------------
(* States. *)

\* Everything but the state, the quick scan and the periodic scan.
EnterFrame(w, v) ==
    /\ v \in Worlds /\ v.net = w.net
    /\ v.st.network = w.st.network /\ v.st.bss = w.st.bss /\ v.st.netconfig = w.st.netconfig
    /\ SameCalls(w, v) /\ SameRoam(w, v)
    /\ SameRoamScan(w, v) /\ SameDbus(w, v) /\ SameHidden(w, v)

\* The states that are entered and left with the periodic scan off, without a change to
\* it, or to look for a network.
Off(w, v, s) == EnterFrame(w, v) /\ SameQuick(w, v) /\ v.st.state = s /\ v.sc.periodic = "none"
Pass(w, v, s) == EnterFrame(w, v) /\ SameQuick(w, v) /\ SamePeriodic(w, v) /\ v.st.state = s
Full(w, v) == EnterFrame(w, v) /\ SameQuick(w, v) /\ v.st.state = "full" /\ v.sc.periodic = "on"
Quick(w, v) ==
    /\ EnterFrame(w, v) /\ SamePeriodic(w, v)
    /\ v.st.state = "quick" /\ v.sc.quick = "queued" /\ v.st.id.quick = TRUE

LEMMA StateUpdate ==
    ASSUME NEW w \in Worlds, NEW s \in States
    PROVE  Pass(w, [w EXCEPT !.st.state = s], s)
  <1> DEFINE v == [w EXCEPT !.st.state = s]
  <1>1. v \in Worlds /\ v.net = w.net /\ v.sc = w.sc /\ v.st.id = w.st.id /\ v.st.state = s
    BY DEF Worlds
  <1>2. /\ v.st.network = w.st.network /\ v.st.bss = w.st.bss /\ v.st.netconfig = w.st.netconfig
        /\ SameCalls(w, v) /\ SameRoam(w, v)
    BY DEF Worlds, SameCalls, SameRoam
  <1> HIDE DEF v
  <1>3. Pass(w, v, s)
    BY <1>1, <1>2 DEF Pass, EnterFrame, SameQuick, SameRoamScan, SameDbus, SameHidden,
                      SamePeriodic
  <1> QED
    BY <1>3 DEF v

LEMMA PeriodicUpdate ==
    ASSUME NEW w \in Worlds, NEW p \in {"none", "on"}
    PROVE  LET v == [w EXCEPT !.sc.periodic = p]
           IN  /\ v \in Worlds /\ v.net = w.net /\ v.st = w.st
               /\ SameQuick(w, v) /\ SameRoamScan(w, v) /\ SameDbus(w, v) /\ SameHidden(w, v)
               /\ v.sc.periodic = p
  <1> DEFINE v == [w EXCEPT !.sc.periodic = p]
  <1>1. v \in Worlds /\ v.net = w.net /\ v.st = w.st
    BY ScanNames DEF Worlds
  <1>2. v.sc = [w.sc EXCEPT !.periodic = p]
    BY DEF Worlds
  <1>3. w.sc \in [Scans \cup {"periodic"} -> {"none", "queued", "triggered", "on"}]
    BY DEF Worlds
  <1> HIDE DEF v
  <1>4. /\ SameQuick(w, v) /\ SameRoamScan(w, v) /\ SameDbus(w, v) /\ SameHidden(w, v)
        /\ v.sc.periodic = p
    BY <1>1, <1>2, <1>3, ScanNames DEF SameQuick, SameRoamScan, SameDbus, SameHidden
  <1> QED
    BY <1>1, <1>4 DEF v

LEMMA EnterOff ==
    ASSUME NEW w \in Worlds, NEW s \in {"disconnected", "connecting", "connected"}
    PROVE  Off(w, EnterState(w, s), s)
  <1> DEFINE u == [w EXCEPT !.st.state = s]
             v == [u EXCEPT !.sc.periodic = "none"]
  <1>1. EnterState(w, s) = v
    BY DEF EnterState
  <1>2. Pass(w, u, s)
    BY StateUpdate, StateNames
  <1> HIDE DEF u
  <1>3. /\ v \in Worlds /\ v.net = u.net /\ v.st = u.st
        /\ SameQuick(u, v) /\ SameRoamScan(u, v) /\ SameDbus(u, v) /\ SameHidden(u, v)
        /\ v.sc.periodic = "none"
    BY <1>2, PeriodicUpdate DEF Pass, EnterFrame
  <1> HIDE DEF v
  <1>4. Off(w, v, s)
    BY <1>2, <1>3 DEF Pass, Off, EnterFrame, SameCalls, SameRoam, SameQuick, SameRoamScan,
                      SameDbus, SameHidden
  <1> QED
    BY <1>1, <1>4

LEMMA EnterPass ==
    ASSUME NEW w \in Worlds, NEW s \in {"disconnecting", "roaming"}
    PROVE  Pass(w, EnterState(w, s), s)
  <1>1. EnterState(w, s) = [w EXCEPT !.st.state = s]
    BY DEF EnterState
  <1> QED
    BY <1>1, StateUpdate, StateNames

LEMMA EnterFull ==
    ASSUME NEW w \in Worlds
    PROVE  Full(w, EnterState(w, "full"))
  <1> DEFINE u == [w EXCEPT !.st.state = "full"]
             v == [u EXCEPT !.sc.periodic = "on"]
  <1>1. EnterState(w, "full") = v
    BY DEF EnterState
  <1>2. Pass(w, u, "full")
    BY StateUpdate, StateNames
  <1> HIDE DEF u
  <1>3. /\ v \in Worlds /\ v.net = u.net /\ v.st = u.st
        /\ SameQuick(u, v) /\ SameRoamScan(u, v) /\ SameDbus(u, v) /\ SameHidden(u, v)
        /\ v.sc.periodic = "on"
    BY <1>2, PeriodicUpdate DEF Pass, EnterFrame
  <1> HIDE DEF v
  <1>4. Full(w, v)
    BY <1>2, <1>3 DEF Pass, Full, EnterFrame, SameCalls, SameRoam, SameQuick, SameRoamScan,
                      SameDbus, SameHidden
  <1> QED
    BY <1>1, <1>4

LEMMA EnterQuick ==
    ASSUME NEW w \in Worlds
    PROVE  Full(w, EnterState(w, "quick")) \/ Quick(w, EnterState(w, "quick"))
  <1>1. CASE w.nets.known = {}
    <2>1. EnterState(w, "quick") = EnterState(w, "full")
      BY <1>1 DEF EnterState
    <2> QED
      BY <2>1, EnterFull
  <1>2. CASE w.nets.known # {}
    <2> DEFINE u == [w EXCEPT !.st.state = "quick"]
               v == ScanStart(u, "quick")
    <2>1. EnterState(w, "quick") = v
      BY <1>2 DEF EnterState
    <2>2. Pass(w, u, "quick")
      BY StateUpdate, StateNames
    <2> HIDE DEF u
    <2>3. ScanIs(u, v, "quick", "queued", TRUE)
      BY <2>2, ScanStartFacts, ScanNames DEF Pass, EnterFrame
    <2> HIDE DEF v
    <2>4. Quick(w, v)
      BY <2>2, <2>3 DEF Pass, Quick, EnterFrame, ScanIs, SamePlace, SameCalls, SameRoam,
                        SameQuick, SameRoamScan, SameDbus, SameHidden, SamePeriodic
    <2> QED
      BY <2>1, <2>4
  <1> QED
    BY <1>1, <1>2

\* station_roam_state_clear(): a roam scan is cancelled unless its id was lost.
RoamCleared(w, v) ==
    /\ v \in Worlds /\ v.net = w.net
    /\ SameCalls(w, v)
    /\ SameQuick(w, v) /\ SameDbus(w, v) /\ SameHidden(w, v) /\ SamePeriodic(w, v)
    /\ v.st.timer = FALSE /\ v.st.preparing_roam = FALSE /\ v.st.signal_low = FALSE
    /\ w.st.id.roam \/ w.sc.roam = "none" => v.sc.roam = "none"
    /\ (w.st.id.roam <=> w.sc.roam # "none") => ~v.st.id.roam

LEMMA RoamStateClearFacts ==
    ASSUME NEW w \in Worlds
    PROVE  RoamCleared(w, RoamStateClear(w)) /\ SamePlace(w, RoamStateClear(w))
  <1> DEFINE u == [w EXCEPT !.st = [@ EXCEPT !.timer = FALSE, !.preparing_roam = FALSE,
                                            !.roam_scan_full = FALSE, !.signal_low = FALSE,
                                            !.roam_freqs = FALSE]]
  <1>a. u.net = w.net /\ u.st.id = w.st.id /\ u.sc = w.sc
    BY DEF Worlds
  <1>b. u \in Worlds
    BY ZenonT(60) DEF Worlds
  <1>1. u \in Worlds /\ u.net = w.net /\ u.st.id = w.st.id /\ u.sc = w.sc
    BY <1>a, <1>b
  <1>2. /\ SameCalls(w, u) /\ SamePlace(w, u)
        /\ u.st.timer = FALSE /\ u.st.preparing_roam = FALSE /\ u.st.signal_low = FALSE
    BY DEF Worlds, SameCalls, SamePlace
  <1>3. RoamStateClear(w) = IF w.st.id.roam THEN ScanCancel(u, "roam") ELSE u
    BY DEF RoamStateClear
  <1> HIDE DEF u
  <1>4. CASE w.st.id.roam /\ w.sc.roam # "none"
    <2> DEFINE v == ScanCancel(u, "roam")
    <2>1. ScanIs(u, v, "roam", "none", FALSE)
      BY <1>1, <1>4, ScanCancelFacts, ScanNames
    <2>2. RoamStateClear(w) = v
      BY <1>3, <1>4
    <2> HIDE DEF v
    <2>3. RoamCleared(w, v) /\ SamePlace(w, v)
      BY <1>1, <1>2, <1>4, <2>1 DEF RoamCleared, ScanIs, SamePlace, SameCalls, SameRoam,
                        SameQuick, SameRoamScan, SameDbus, SameHidden, SamePeriodic
    <2> QED
      BY <2>2, <2>3
  <1>5. CASE ~(w.st.id.roam /\ w.sc.roam # "none")
    <2>1. RoamStateClear(w) = u
      BY <1>1, <1>3, <1>5, ScanCancelFacts, ScanNames
    <2>2. RoamCleared(w, u)
      BY <1>1, <1>2, <1>5 DEF RoamCleared, SameQuick, SameDbus, SameHidden, SamePeriodic
    <2> QED
      BY <2>1, <2>2, <1>2
  <1> QED
    BY <1>4, <1>5

\* station_reset_connection_state() after netconfig_reset().
ConnectionReset(w, v) ==
    /\ v \in Worlds /\ v.net = w.net /\ v.st.state = w.st.state
    /\ v.st.netconfig = FALSE /\ v.st.network = 0 /\ v.st.bss = 0
    /\ SameCalls(w, v)
    /\ SameQuick(w, v) /\ SameDbus(w, v) /\ SameHidden(w, v) /\ SamePeriodic(w, v)
    /\ RoamCleared(w, v) \/ (w.st.network = 0 /\ SameRoam(w, v) /\ SameRoamScan(w, v))

LEMMA ResetFacts ==
    ASSUME NEW w \in Worlds, w.st.bss # 0 <=> w.st.network # 0
    PROVE  ConnectionReset(w, ResetConnectionState(NetconfigReset(w)))
  <1> DEFINE u == NetconfigReset(w)
  <1>1. /\ u \in Worlds /\ u.net = w.net /\ u.sc = w.sc /\ u.st.id = w.st.id
        /\ u.st.netconfig = FALSE /\ u.st.state = w.st.state
        /\ u.st.network = w.st.network /\ u.st.bss = w.st.bss
    BY DEF NetconfigReset, Worlds
  <1>2. SameCalls(w, u) /\ SameRoam(w, u)
    BY DEF NetconfigReset, Worlds, SameCalls, SameRoam
  <1> HIDE DEF u
  <1>3. CASE w.st.network = 0
    <2>1. ResetConnectionState(u) = u
      BY <1>1, <1>3 DEF ResetConnectionState
    <2>2. ConnectionReset(w, u)
      BY <1>1, <1>2, <1>3 DEF ConnectionReset, SameQuick, SameRoamScan, SameDbus, SameHidden,
                              SamePeriodic
    <2> QED
      BY <2>1, <2>2 DEF u
  <1>4. CASE w.st.network # 0
    <2> DEFINE x == RoamStateClear(u)
               v == [x EXCEPT !.st = [@ EXCEPT !.network = 0, !.bss = 0]]
    <2>1. ResetConnectionState(u) = v
      BY <1>1, <1>4 DEF ResetConnectionState
    <2>2. RoamCleared(u, x) /\ SamePlace(u, x)
      BY <1>1, RoamStateClearFacts
    <2> HIDE DEF x
    <2>3. x \in Worlds
      BY <2>2 DEF RoamCleared
    <2>4. /\ v \in Worlds /\ v.net = x.net /\ v.sc = x.sc /\ v.st.id = x.st.id
          /\ v.st.network = 0 /\ v.st.bss = 0 /\ v.st.state = x.st.state
          /\ v.st.netconfig = x.st.netconfig
      BY <2>3 DEF Worlds, Maybe
    <2>5. SameCalls(x, v) /\ SameRoam(x, v)
      BY <2>3 DEF Worlds, SameCalls, SameRoam
    <2> HIDE DEF v
    <2>6. RoamCleared(w, v)
      BY <1>1, <1>2, <2>2, <2>4, <2>5
         DEF RoamCleared, SameCalls, SameRoam, SameQuick, SameDbus, SameHidden, SamePeriodic
    <2>7. ConnectionReset(w, v)
      BY <1>1, <2>2, <2>4, <2>6 DEF RoamCleared, ConnectionReset, SamePlace
    <2> QED
      BY <2>1, <2>7 DEF u
  <1> QED
    BY <1>3, <1>4

\* station_disassociated(): autoconnect looks for a network.
Dissociated(w, v) ==
    /\ v \in Worlds /\ v.net = w.net
    /\ v.st.netconfig = FALSE /\ v.st.network = 0 /\ v.st.bss = 0
    /\ SameCalls(w, v) /\ SameDbus(w, v) /\ SameHidden(w, v)
    /\ \/ /\ v.st.state = "disconnected" /\ ~w.st.autoconnect /\ SameQuick(w, v)
          /\ v.sc.periodic = "none"
       \/ /\ v.st.state = "full" /\ w.st.autoconnect /\ SameQuick(w, v)
          /\ v.sc.periodic = "on"
       \/ /\ v.st.state = "quick" /\ w.st.autoconnect
          /\ v.sc.quick = "queued" /\ v.st.id.quick = TRUE /\ v.sc.periodic = "none"
    /\ \/ /\ v.st.timer = FALSE /\ v.st.preparing_roam = FALSE /\ v.st.signal_low = FALSE
          /\ w.st.id.roam \/ w.sc.roam = "none" => v.sc.roam = "none"
          /\ (w.st.id.roam <=> w.sc.roam # "none") => ~v.st.id.roam
       \/ w.st.network = 0 /\ SameRoam(w, v) /\ SameRoamScan(w, v)

LEMMA DisassociatedFacts ==
    ASSUME NEW w \in Worlds, w.st.bss # 0 <=> w.st.network # 0
    PROVE  Dissociated(w, Disassociated(w))
  <1> DEFINE u == ResetConnectionState(NetconfigReset(w))
             x == EnterState(u, "disconnected")
             y == EnterState(x, "quick")
  <1>1. ConnectionReset(w, u)
    BY ResetFacts
  <1>2. Disassociated(w) = IF w.st.autoconnect THEN y ELSE x
    BY DEF Disassociated
  <1> HIDE DEF u
  <1>3. Off(u, x, "disconnected")
    BY <1>1, EnterOff DEF ConnectionReset
  <1> HIDE DEF x
  <1>4. Full(x, y) \/ Quick(x, y)
    BY <1>3, EnterQuick DEF Off, EnterFrame
  <1> HIDE DEF y
  <1>5. CASE ~w.st.autoconnect
    <2>1. Dissociated(w, x)
      BY <1>1, <1>3, <1>5
         DEF ConnectionReset, RoamCleared, Off, EnterFrame, Dissociated, SameCalls, SameRoam,
             SameQuick, SameRoamScan, SameDbus, SameHidden, SamePeriodic
    <2> QED
      BY <1>2, <1>5, <2>1
  <1>6. CASE w.st.autoconnect /\ Full(x, y)
    <2>1. EnterFrame(u, x) /\ EnterFrame(x, y)
      BY <1>3, <1>6 DEF Off, Full
    <2>2. /\ y \in Worlds /\ y.net = w.net
          /\ y.st.netconfig = FALSE /\ y.st.network = 0 /\ y.st.bss = 0
          /\ SameCalls(w, y) /\ SameDbus(w, y) /\ SameHidden(w, y)
      BY <1>1, <2>1 DEF ConnectionReset, EnterFrame, SameCalls, SameDbus, SameHidden
    <2>3. \/ /\ y.st.timer = FALSE /\ y.st.preparing_roam = FALSE /\ y.st.signal_low = FALSE
             /\ w.st.id.roam \/ w.sc.roam = "none" => y.sc.roam = "none"
             /\ (w.st.id.roam <=> w.sc.roam # "none") => ~y.st.id.roam
          \/ w.st.network = 0 /\ SameRoam(w, y) /\ SameRoamScan(w, y)
      BY <1>1, <2>1 DEF ConnectionReset, RoamCleared, EnterFrame, SameRoam, SameRoamScan
    <2>4. \/ /\ y.st.state = "full" /\ SameQuick(w, y) /\ y.sc.periodic = "on"
          \/ /\ y.st.state = "quick" /\ y.sc.quick = "queued" /\ y.st.id.quick = TRUE
             /\ y.sc.periodic = "none"
      BY <1>1, <1>3, <1>6 DEF ConnectionReset, Off, Full, SameQuick, SamePeriodic
    <2>5. Dissociated(w, y)
      BY <1>6, <2>2, <2>3, <2>4 DEF Dissociated
    <2> QED
      BY <1>2, <1>6, <2>5
  <1>7. CASE w.st.autoconnect /\ Quick(x, y)
    <2>1. EnterFrame(u, x) /\ EnterFrame(x, y)
      BY <1>3, <1>7 DEF Off, Quick
    <2>2. /\ y \in Worlds /\ y.net = w.net
          /\ y.st.netconfig = FALSE /\ y.st.network = 0 /\ y.st.bss = 0
          /\ SameCalls(w, y) /\ SameDbus(w, y) /\ SameHidden(w, y)
      BY <1>1, <2>1 DEF ConnectionReset, EnterFrame, SameCalls, SameDbus, SameHidden
    <2>3. \/ /\ y.st.timer = FALSE /\ y.st.preparing_roam = FALSE /\ y.st.signal_low = FALSE
             /\ w.st.id.roam \/ w.sc.roam = "none" => y.sc.roam = "none"
             /\ (w.st.id.roam <=> w.sc.roam # "none") => ~y.st.id.roam
          \/ w.st.network = 0 /\ SameRoam(w, y) /\ SameRoamScan(w, y)
      BY <1>1, <2>1 DEF ConnectionReset, RoamCleared, EnterFrame, SameRoam, SameRoamScan
    <2>4. \/ /\ y.st.state = "full" /\ SameQuick(w, y) /\ y.sc.periodic = "on"
          \/ /\ y.st.state = "quick" /\ y.sc.quick = "queued" /\ y.st.id.quick = TRUE
             /\ y.sc.periodic = "none"
      BY <1>1, <1>3, <1>7 DEF ConnectionReset, Off, Quick, SameQuick, SamePeriodic
    <2>5. Dissociated(w, y)
      BY <1>7, <2>2, <2>3, <2>4 DEF Dissociated
    <2> QED
      BY <1>2, <1>7, <2>5
  <1> QED
    BY <1>4, <1>5, <1>6, <1>7

-----------------------------------------------------------------------------
(* Updates that only touch what is known of networks, and the flags of a    *)
(* roam that no invariant is about.                                         *)

NetsRecords ==
    [seen : SUBSET Bsses, known : SUBSET Networks, blacklist : SUBSET Bsses,
     temporary : SUBSET Bsses, ask_passphrase : SUBSET Networks]

LEMMA NetsUpdate ==
    ASSUME NEW w \in Worlds, NEW x \in NetsRecords
    PROVE  OnlyNets(w, [w EXCEPT !.nets = x])
  <1> DEFINE v == [w EXCEPT !.nets = x]
  <1>1. v \in Worlds
    BY DEF Worlds, NetsRecords
  <1>2. v.st = w.st /\ v.net = w.net /\ v.sc = w.sc
    BY DEF Worlds
  <1> HIDE DEF v
  <1>3. OnlyNets(w, v)
    BY <1>1, <1>2 DEF OnlyNets, SamePlace, SameCalls, SameRoam, SameQuick, SameRoamScan,
                      SameDbus, SameHidden, SamePeriodic, SameScans
  <1> QED
    BY <1>3 DEF v

LEMMA NetsType ==
    ASSUME NEW w \in Worlds
    PROVE  w.nets \in NetsRecords
  BY DEF Worlds, NetsRecords

LEMMA SeenUpdate ==
    ASSUME NEW w \in Worlds, NEW b \in Bsses
    PROVE  OnlyNets(w, [w EXCEPT !.nets.seen = @ \cup {b}])
  <1>1. [w.nets EXCEPT !.seen = @ \cup {b}] \in NetsRecords
    BY NetsType DEF NetsRecords
  <1> QED
    BY <1>1, NetsUpdate

LEMMA AskUpdate ==
    ASSUME NEW w \in Worlds, NEW n
    PROVE  OnlyNets(w, [w EXCEPT !.nets.ask_passphrase = @ \ {n}])
  <1>1. [w.nets EXCEPT !.ask_passphrase = @ \ {n}] \in NetsRecords
    BY NetsType DEF NetsRecords
  <1> QED
    BY <1>1, NetsUpdate

LEMMA KnownUpdate ==
    ASSUME NEW w \in Worlds, NEW n
    PROVE  OnlyNets(w, [w EXCEPT !.nets.known = @ \ {n}])
  <1>1. [w.nets EXCEPT !.known = @ \ {n}] \in NetsRecords
    BY NetsType DEF NetsRecords
  <1> QED
    BY <1>1, NetsUpdate

LEMMA BlacklistUpdate ==
    ASSUME NEW w \in Worlds, NEW b
    PROVE  OnlyNets(w, [w EXCEPT !.nets.blacklist = @ \ {b}])
  <1>1. [w.nets EXCEPT !.blacklist = @ \ {b}] \in NetsRecords
    BY NetsType DEF NetsRecords
  <1> QED
    BY <1>1, NetsUpdate

LEMMA BlacklistFacts ==
    ASSUME NEW w \in Worlds, w.st.bss \in Bsses, NEW result
    PROVE  OnlyNets(w, Blacklist(w, result))
  <1>1. [w.nets EXCEPT !.temporary = @ \cup {w.st.bss}] \in NetsRecords
    BY NetsType DEF NetsRecords
  <1>2. [w.nets EXCEPT !.blacklist = @ \cup {w.st.bss}] \in NetsRecords
    BY NetsType DEF NetsRecords
  <1>3. OnlyNets(w, [w EXCEPT !.nets.temporary = @ \cup {w.st.bss}])
    BY <1>1, NetsUpdate
  <1>4. OnlyNets(w, [w EXCEPT !.nets.blacklist = @ \cup {w.st.bss}])
    BY <1>2, NetsUpdate
  <1> QED
    BY <1>3, <1>4, OnlyNetsRefl DEF Blacklist

LEMMA ConnectFailedNets ==
    ASSUME NEW w \in Worlds, w.st.network \in Networks, NEW result
    PROVE  OnlyNets(w, NetworkConnectFailed(w, result))
  <1>1. [w.nets EXCEPT !.temporary = {b \in @ : NetworkOf[b] # w.st.network},
                       !.ask_passphrase = IF result \in {"handshake", "badpass"}
                                          THEN @ \cup {w.st.network} ELSE @] \in NetsRecords
    BY NetsType DEF NetsRecords
  <1> QED
    BY <1>1, NetsUpdate DEF NetworkConnectFailed

LEMMA ConnectedNets ==
    ASSUME NEW w \in Worlds, w.st.network \in Networks
    PROVE  OnlyNets(w, NetworkConnected(w))
  <1>1. [w.nets EXCEPT !.known = @ \cup {w.st.network},
                       !.temporary = {b \in @ : NetworkOf[b] # w.st.network}] \in NetsRecords
    BY NetsType DEF NetsRecords
  <1> QED
    BY <1>1, NetsUpdate DEF NetworkConnected

LEMMA FlagUpdates ==
    ASSUME NEW w \in Worlds, NEW b \in BOOLEAN
    PROVE  /\ OnlyNets(w, [w EXCEPT !.st.roam_scan_full = b])
           /\ OnlyNets(w, [w EXCEPT !.st.ap_directed_roaming = b])
           /\ OnlyNets(w, [w EXCEPT !.st.roam_freqs = b])
  <1>1. OnlyNets(w, [w EXCEPT !.st.roam_scan_full = b])
    <2> DEFINE v == [w EXCEPT !.st.roam_scan_full = b]
    <2>1. v \in Worlds /\ v.net = w.net /\ v.sc = w.sc /\ v.st.id = w.st.id
      BY DEF Worlds
    <2>2. SamePlace(w, v) /\ SameCalls(w, v) /\ SameRoam(w, v)
      BY DEF Worlds, SamePlace, SameCalls, SameRoam
    <2> HIDE DEF v
    <2>3. OnlyNets(w, v)
      BY <2>1, <2>2 DEF OnlyNets, SameScans, SameQuick, SameRoamScan, SameDbus, SameHidden,
                        SamePeriodic
    <2> QED
      BY <2>3 DEF v
  <1>2. OnlyNets(w, [w EXCEPT !.st.ap_directed_roaming = b])
    <2> DEFINE v == [w EXCEPT !.st.ap_directed_roaming = b]
    <2>1. v \in Worlds /\ v.net = w.net /\ v.sc = w.sc /\ v.st.id = w.st.id
      BY DEF Worlds
    <2>2. SamePlace(w, v) /\ SameCalls(w, v) /\ SameRoam(w, v)
      BY DEF Worlds, SamePlace, SameCalls, SameRoam
    <2> HIDE DEF v
    <2>3. OnlyNets(w, v)
      BY <2>1, <2>2 DEF OnlyNets, SameScans, SameQuick, SameRoamScan, SameDbus, SameHidden,
                        SamePeriodic
    <2> QED
      BY <2>3 DEF v
  <1>3. OnlyNets(w, [w EXCEPT !.st.roam_freqs = b])
    <2> DEFINE v == [w EXCEPT !.st.roam_freqs = b]
    <2>1. v \in Worlds /\ v.net = w.net /\ v.sc = w.sc /\ v.st.id = w.st.id
      BY DEF Worlds
    <2>2. SamePlace(w, v) /\ SameCalls(w, v) /\ SameRoam(w, v)
      BY DEF Worlds, SamePlace, SameCalls, SameRoam
    <2> HIDE DEF v
    <2>3. OnlyNets(w, v)
      BY <2>1, <2>2 DEF OnlyNets, SameScans, SameQuick, SameRoamScan, SameDbus, SameHidden,
                        SamePeriodic
    <2> QED
      BY <2>3 DEF v
  <1> QED
    BY <1>1, <1>2, <1>3

LEMMA OnlyNetsTrans ==
    ASSUME NEW u, NEW v, NEW w, OnlyNets(u, v), OnlyNets(v, w)
    PROVE  OnlyNets(u, w)
  BY DEF OnlyNets, SamePlace, SameCalls, SameRoam, SameQuick, SameRoamScan, SameDbus,
         SameHidden, SamePeriodic, SameScans

LEMMA OnlyNetsSound ==
    ASSUME NEW w, NEW v, Sound(w), OnlyNets(w, v)
    PROVE  Sound(v)
  <1>1. v \in Worlds
    BY DEF OnlyNets
  <1>3. Interface(v) /\ Placed(v)
    BY DEF Sound, OnlyNets, SamePlace, SameCalls, Interface, Placed
  <1>4. Waiting(v) /\ Scanning(v)
    BY DEF Sound, OnlyNets, SamePlace, SameCalls, SameScans, SameQuick, SameRoamScan,
                SameDbus, SameHidden, SamePeriodic, Waiting, Scanning
  <1>5. Roaming(v) /\ RoamId(v)
    BY DEF Sound, OnlyNets, SamePlace, SameRoam, SameScans, SameRoamScan, Roaming, RoamId,
           ScanOwner, ReportOwner, DsOwner, PreauthOwner
  <1> QED
    BY <1>1, <1>3, <1>4, <1>5 DEF Sound

-----------------------------------------------------------------------------
(* The interface. *)

SameLink(m, n) == n.conn = m.conn /\ n.cb = m.cb /\ n.up = m.up

\* Only the interface changes.
OnlyNet(w, v) == v \in Worlds /\ v.st = w.st /\ v.sc = w.sc

\* __station_connect_network().
Connects(w, v, b) ==
    /\ v \in Worlds
    /\ v.net.conn = b /\ v.net.cb = "connect" /\ v.net.up = w.net.up /\ SameWatches(w.net, v.net)
    /\ v.st.state = w.st.state /\ v.st.netconfig = w.st.netconfig
    /\ v.st.bss = b /\ v.st.network = NetworkOf[b]
    /\ SameCalls(w, v) /\ SameRoam(w, v) /\ SameScans(w, v)

LEMMA ConnectNetworkFacts ==
    ASSUME NEW w \in Worlds, NEW b \in Bsses
    PROVE  Connects(w, ConnectNetwork(w, b), b)
  <1> DEFINE v == ConnectNetwork(w, b)
  <1>1. v.sc = w.sc /\ v.st.id = w.st.id /\ v.st.state = w.st.state
        /\ v.st.netconfig = w.st.netconfig /\ v.st.bss = b /\ v.st.network = NetworkOf[b]
    BY DEF ConnectNetwork, Worlds
  <1>2. SameCalls(w, v) /\ SameRoam(w, v)
    BY DEF ConnectNetwork, Worlds, SameCalls, SameRoam
  <1>3. v.net.conn = b /\ v.net.cb = "connect" /\ v.net.up = w.net.up /\ SameWatches(w.net, v.net)
    BY DEF ConnectNetwork, Worlds, SameWatches
  <1>4. v \in Worlds
    BY NetworkFacts DEF ConnectNetwork, Worlds, Maybe
  <1> HIDE DEF v
  <1>5. Connects(w, v, b)
    BY <1>1, <1>2, <1>3, <1>4 DEF Connects, SameScans, SameQuick, SameRoamScan, SameDbus,
                                  SameHidden, SamePeriodic
  <1> QED
    BY <1>5 DEF v

\* A neighbour report is asked for, or answered.
ReportIs(w, v, r) ==
    /\ OnlyNet(w, v) /\ SameLink(w.net, v.net)
    /\ v.net.disc = w.net.disc /\ v.net.ending = w.net.ending /\ v.net.ds = w.net.ds
    /\ v.net.parsed = w.net.parsed /\ v.net.preauth = w.net.preauth
    /\ v.net.nr = r

LEMMA ReportUpdate ==
    ASSUME NEW w \in Worlds, NEW r \in {"none", "early", "roam"}
    PROVE  ReportIs(w, [w EXCEPT !.net.nr = r], r)
  <1> DEFINE v == [w EXCEPT !.net.nr = r]
  <1>1. OnlyNet(w, v)
    BY DEF OnlyNet, Worlds
  <1>2. /\ SameLink(w.net, v.net)
        /\ v.net.disc = w.net.disc /\ v.net.ending = w.net.ending /\ v.net.ds = w.net.ds
        /\ v.net.parsed = w.net.parsed /\ v.net.preauth = w.net.preauth
        /\ v.net.nr = r
    BY DEF SameLink, Worlds
  <1> QED
    BY <1>1, <1>2 DEF ReportIs

\* netdev_neighbor_report_req().
LEMMA RequestFacts ==
    ASSUME NEW w \in Worlds, NEW cb \in {"early", "roam"}
    PROVE  \/ NeighborReportReq(w, cb) = w
           \/ /\ ReportIs(w, NeighborReportReq(w, cb), cb) /\ w.net.nr = "none" /\ w.net.up # 0
              /\ NeighborReportReq(w, cb) # w
  <1> DEFINE v == [w EXCEPT !.net.nr = cb]
  <1>1. ReportIs(w, v, cb)
    BY ReportUpdate
  <1>2. NeighborReportReq(w, cb) =
            IF Has("nr") /\ w.net.nr = "none" /\ w.net.up # 0 THEN v ELSE w
    BY DEF NeighborReportReq
  <1> HIDE DEF v
  <1>3. CASE Has("nr") /\ w.net.nr = "none" /\ w.net.up # 0
    <2>1. v # w
      BY <1>1, <1>3 DEF ReportIs
    <2> QED
      BY <1>1, <1>2, <1>3, <2>1
  <1>4. CASE ~(Has("nr") /\ w.net.nr = "none" /\ w.net.up # 0)
    <2>1. NeighborReportReq(w, cb) = w
      BY <1>2, <1>4
    <2> QED
      BY <2>1
  <1> QED
    BY <1>3, <1>4

\* netdev_connect_free(), when no roam waits for a neighbour report.
Freed(w, v) ==
    /\ OnlyNet(w, v)
    /\ v.net.conn = 0 /\ v.net.up = 0 /\ v.net.cb = w.net.cb /\ v.net.disc = w.net.disc
    /\ v.net.ending = FALSE /\ v.net.nr = "none" /\ v.net.ds = 0 /\ v.net.parsed = FALSE
    /\ v.net.preauth = 0

LEMMA NetFreeFacts ==
    ASSUME NEW w \in Worlds, w.net.nr # "roam"
    PROVE  Freed(w, NetFree(w))
  <1> DEFINE v == [w EXCEPT !.net = [@ EXCEPT !.conn = 0, !.up = 0, !.ending = FALSE,
                                            !.nr = "none", !.ds = 0, !.parsed = FALSE,
                                            !.preauth = 0]]
  <1>1. NetFree(w) = v
    BY DEF NetFree
  <1>2. v \in Worlds
    BY ZenonT(60) DEF Worlds, Maybe
  <1>3. v.st = w.st /\ v.sc = w.sc
    BY DEF Worlds
  <1>4. /\ v.net.conn = 0 /\ v.net.up = 0 /\ v.net.cb = w.net.cb /\ v.net.disc = w.net.disc
        /\ v.net.ending = FALSE /\ v.net.nr = "none" /\ v.net.ds = 0 /\ v.net.parsed = FALSE
        /\ v.net.preauth = 0
    BY DEF Worlds
  <1> QED
    BY <1>1, <1>2, <1>3, <1>4 DEF Freed, OnlyNet

\* The answer to a disconnect, or who waits for it.
DiscIs(w, v, d) ==
    /\ OnlyNet(w, v) /\ SameLink(w.net, v.net)
    /\ v.net.disc = d /\ v.net.ending = w.net.ending /\ v.net.nr = w.net.nr
    /\ v.net.ds = w.net.ds /\ v.net.parsed = w.net.parsed /\ v.net.preauth = w.net.preauth

LEMMA DiscUpdate ==
    ASSUME NEW w \in Worlds, NEW d \in {"none", "user", "onconnect", "reconnect", "free"}
    PROVE  DiscIs(w, [w EXCEPT !.net.disc = d], d)
  <1> DEFINE v == [w EXCEPT !.net.disc = d]
  <1>1. OnlyNet(w, v)
    BY DEF OnlyNet, Worlds
  <1>2. /\ SameLink(w.net, v.net)
        /\ v.net.disc = d /\ v.net.ending = w.net.ending /\ v.net.nr = w.net.nr
        /\ v.net.ds = w.net.ds /\ v.net.parsed = w.net.parsed /\ v.net.preauth = w.net.preauth
    BY DEF SameLink, Worlds
  <1> QED
    BY <1>1, <1>2 DEF DiscIs

\* station_connect_dbus_reply().
Replied1(w, v) ==
    /\ v \in Worlds /\ v.net = w.net /\ v.sc = w.sc /\ v.st.id = w.st.id
    /\ SamePlace(w, v) /\ SameRoam(w, v)
    /\ v.st.connect_pending = FALSE
    /\ v.st.autoconnect = w.st.autoconnect
    /\ v.st.connect_pending_bss = w.st.connect_pending_bss
    /\ v.st.pending_freed = w.st.pending_freed
    /\ v.st.disconnect_pending = w.st.disconnect_pending
    /\ v.st.scan_pending = w.st.scan_pending
    /\ v.st.hidden_pending = w.st.hidden_pending
    /\ v.st.subset = w.st.subset /\ v.st.fault = w.st.fault

LEMMA ConnectReplyFacts ==
    ASSUME NEW w \in Worlds, NEW result
    PROVE  Replied1(w, ConnectReply(w, result))
  <1> DEFINE v == ConnectReply(w, result)
  <1>1. v \in Worlds
    BY DEF ConnectReply, Worlds
  <1>2. v.net = w.net /\ v.sc = w.sc /\ v.st.id = w.st.id /\ SamePlace(w, v) /\ SameRoam(w, v)
    BY DEF ConnectReply, Worlds, SamePlace, SameRoam
  <1>3. /\ v.st.connect_pending = FALSE
        /\ v.st.autoconnect = w.st.autoconnect
        /\ v.st.connect_pending_bss = w.st.connect_pending_bss
        /\ v.st.pending_freed = w.st.pending_freed
        /\ v.st.disconnect_pending = w.st.disconnect_pending
        /\ v.st.scan_pending = w.st.scan_pending
        /\ v.st.hidden_pending = w.st.hidden_pending
        /\ v.st.subset = w.st.subset /\ v.st.fault = w.st.fault
    BY DEF ConnectReply, Worlds
  <1> HIDE DEF v
  <1>4. Replied1(w, v)
    BY <1>1, <1>2, <1>3 DEF Replied1
  <1> QED
    BY <1>4 DEF v

\* network_bss_select().
LEMMA SelectFacts ==
    ASSUME NEW w \in Worlds, NEW n, NEW fallback
    PROVE  /\ Select(w, n, fallback) \in Maybe
           /\ fallback /\ (\E b \in w.nets.seen : NetworkOf[b] = n) => Select(w, n, fallback) # 0
  <1> DEFINE seen == {b \in w.nets.seen : NetworkOf[b] = n}
             good == seen \ (w.nets.blacklist \cup w.nets.temporary)
  <1>1. seen \subseteq Bsses /\ good \subseteq Bsses
    BY DEF Worlds
  <1>2. seen # {} => Least(seen) \in Bsses
    BY <1>1, BestBss
  <1>3. good # {} => Least(good) \in Bsses
    BY <1>1, BestBss
  <1>4. Select(w, n, fallback) = IF good # {} THEN Least(good)
                                 ELSE IF fallback /\ seen # {} THEN Least(seen) ELSE 0
    BY DEF Select
  <1>5. (\E b \in w.nets.seen : NetworkOf[b] = n) => seen # {}
    OBVIOUS
  <1> HIDE DEF seen, good
  <1> QED
    BY <1>2, <1>3, <1>4, <1>5, NetworkFacts DEF Maybe

-----------------------------------------------------------------------------
(* Steps. *)

\* Sound, but for the id of a roam scan whose callback has not returned.
Lax(w) ==
    /\ w \in Worlds
    /\ Interface(w) /\ Placed(w) /\ Waiting(w) /\ Scanning(w) /\ Roaming(w)

LEMMA CalmFacts ==
    ASSUME Calm
    PROVE  /\ ~Has("hasty") /\ ~Has("abort")
           /\ Has("low") =>
                 /\ ~Has("connect") /\ ~Has("hidden") /\ ~Has("disconnect") /\ ~Has("forget")
                 /\ ~Has("down") /\ ~Has("drop") /\ ~Has("ending") /\ ~Has("rekey")
                 /\ ~Has("netconfig")
           /\ Has("btm") => ~Has("rekey") /\ ~Has("netconfig")
           /\ Has("rekey") => ~Has("netconfig")
           /\ Has("connect") \/ Has("hidden") => ~Has("scan") /\ ~Has("unusable")
  <1>1. /\ \A x \in {"hasty", "abort"} : x \notin env
        /\ Has("low") => \A x \in {"connect", "hidden", "disconnect", "forget", "down", "drop",
                                   "ending", "rekey", "netconfig"} : x \notin env
    BY DEF Calm
  <1> QED
    BY <1>1 DEF Calm, Has

\* What the contract of the interface allows.
NetStep(m, n) ==
    \/ /\ n.conn = m.conn /\ n.up = m.up /\ n.ending = m.ending
       /\ n.disc # "none" <=> m.disc # "none"
    \/ /\ m.conn = 0 /\ m.disc = "none"
       /\ n.conn \in Bsses /\ n.up = 0 /\ n.disc = "none" /\ n.ending = m.ending
    \/ /\ m.conn # 0 /\ m.disc = "none"
       /\ n.conn = 0 /\ n.up = m.conn /\ n.disc = "none" /\ n.ending = m.ending
    \/ /\ m.conn # 0 \/ m.up # 0
       /\ m.disc = "none"
       /\ n.conn \in Maybe /\ n.up = 0 /\ n.ending = FALSE /\ n.disc = "none"
    \/ /\ m.conn # 0 \/ m.up # 0
       /\ m.disc = "none" /\ ~m.ending
       /\ n.ending = TRUE /\ n.conn = m.conn /\ n.up = m.up /\ n.disc = "none"
    \/ /\ m.conn # 0 \/ m.up # 0
       /\ m.disc = "none" /\ ~m.ending
       /\ n.conn = 0 /\ n.up = 0 /\ n.disc # "none" /\ n.ending = m.ending
    \/ /\ m.disc # "none"
       /\ n.disc = "none" /\ n.conn \in Maybe /\ n.up = m.up /\ n.ending = m.ending

\* No connection that nobody asked for; a user's Disconnect that meets a failed quick scan
\* is the exception.
Asked(w, v) ==
    v.net.conn = w.net.conn \/ v.net.conn = 0 \/ w.st.autoconnect \/ v.st.connect_pending
    \/ w.st.network # 0 \/ (Has("disconnect") /\ Has("scanfail"))

Good(w, v) == Sound(v) /\ NetStep(w.net, v.net) /\ Asked(w, v)

LEMMA QuietStep ==
    ASSUME NEW w, NEW v, Sound(v), v.net = w.net
    PROVE  Good(w, v)
  BY DEF Good, NetStep, Asked

LEMMA OnlyNetsStep ==
    ASSUME NEW w, NEW v, Sound(w), OnlyNets(w, v)
    PROVE  Good(w, v)
  BY OnlyNetsSound, QuietStep DEF OnlyNets

LEMMA AfterNets ==
    ASSUME NEW u, NEW w, NEW v, OnlyNets(u, w), Good(w, v)
    PROVE  Good(u, v)
  BY DEF OnlyNets, Good, Asked, SamePlace, SameCalls

\* station_dbus_scan().
LEMMA DbusScanGood ==
    ASSUME NEW w, Sound(w), Has("scan"), w.st.state # "gone"
    PROVE  Good(w, [ScanStart(w, "dbus")
                 EXCEPT !.st = [@ EXCEPT !.subset = 0, !.scan_pending = TRUE]])
  <1> DEFINE u == ScanStart(w, "dbus")
             v == [u EXCEPT !.st = [@ EXCEPT !.subset = 0, !.scan_pending = TRUE]]
  <1>1. ScanIs(w, u, "dbus", "queued", TRUE)
    BY ScanStartFacts, ScanNames DEF Sound
  <1> HIDE DEF u
  <1>2. u \in Worlds
    BY <1>1 DEF ScanIs
  <1>3. 0 \in 0 .. Subsets
    BY DEF Subsets
  <1>v1. v.net = u.net /\ v.sc = u.sc /\ v.st.id = u.st.id
    BY <1>2 DEF Worlds
  <1>v2. v \in Worlds
    BY <1>2, <1>3 DEF Worlds
  <1>v3. SamePlace(u, v) /\ SameRoam(u, v)
    BY <1>2 DEF Worlds, SamePlace, SameRoam
  <1>v4. /\ v.st.autoconnect = u.st.autoconnect
          /\ v.st.connect_pending = u.st.connect_pending
          /\ v.st.connect_pending_bss = u.st.connect_pending_bss
          /\ v.st.pending_freed = u.st.pending_freed
          /\ v.st.disconnect_pending = u.st.disconnect_pending /\ v.st.scan_pending = TRUE
          /\ v.st.hidden_pending = u.st.hidden_pending /\ v.st.subset = 0
          /\ v.st.fault = u.st.fault
    BY <1>2 DEF Worlds
  <1> HIDE DEF v
  <1>4. Sound(v)
    <2> USE <1>1, <1>v1, <1>v3, <1>v4 DEF ScanIs, Subsets, SamePlace, SameCalls, SameRoam,
                                          SameQuick, SameRoamScan, SameDbus, SameHidden,
                                          SamePeriodic, SameScans, OnlyNet, SameLink,
                                          SameWatches, Sound, Interface, Placed, Waiting,
                                          Scanning, Roaming, RoamId, ScanOwner, ReportOwner,
                                          DsOwner, PreauthOwner, Idle, Autoconnecting
    <2>1. Interface(v) /\ Placed(v)
      OBVIOUS
    <2>2. Waiting(v)
      OBVIOUS
    <2>3. Scanning(v)
      OBVIOUS
    <2>4. Roaming(v) /\ RoamId(v)
      OBVIOUS
    <2> QED
      BY <1>v2, <2>1, <2>2, <2>3, <2>4
  <1>5. Good(w, v)
    BY <1>1, <1>v1, <1>4, QuietStep DEF ScanIs
  <1> QED
    BY <1>5 DEF u, v

\* station_dbus_connect_hidden_network().
LEMMA ConnectHiddenGood ==
    ASSUME NEW w, Sound(w), Has("hidden"), w.st.state # "gone"
    PROVE  Good(w, [ScanStart(w, "hidden") EXCEPT !.st.hidden_pending = TRUE])
  <1> DEFINE u == ScanStart(w, "hidden")
             v == [u EXCEPT !.st.hidden_pending = TRUE]
  <1>1. ScanIs(w, u, "hidden", "queued", TRUE)
    BY ScanStartFacts, ScanNames DEF Sound
  <1> HIDE DEF u
  <1>2. u \in Worlds
    BY <1>1 DEF ScanIs
  <1>v1. v.net = u.net /\ v.sc = u.sc /\ v.st.id = u.st.id
    BY <1>2 DEF Worlds
  <1>v2. v \in Worlds
    BY <1>2 DEF Worlds
  <1>v3. SamePlace(u, v) /\ SameRoam(u, v)
    BY <1>2 DEF Worlds, SamePlace, SameRoam
  <1>v4. /\ v.st.autoconnect = u.st.autoconnect
          /\ v.st.connect_pending = u.st.connect_pending
          /\ v.st.connect_pending_bss = u.st.connect_pending_bss
          /\ v.st.pending_freed = u.st.pending_freed
          /\ v.st.disconnect_pending = u.st.disconnect_pending
          /\ v.st.scan_pending = u.st.scan_pending /\ v.st.hidden_pending = TRUE
          /\ v.st.subset = u.st.subset /\ v.st.fault = u.st.fault
    BY <1>2 DEF Worlds
  <1> HIDE DEF v
  <1>4. Sound(v)
    <2> USE <1>1, <1>v1, <1>v3, <1>v4 DEF ScanIs, SamePlace, SameCalls, SameRoam, SameQuick,
                                          SameRoamScan, SameDbus, SameHidden, SamePeriodic,
                                          SameScans, OnlyNet, SameLink, SameWatches, Sound,
                                          Interface, Placed, Waiting, Scanning, Roaming,
                                          RoamId, ScanOwner, ReportOwner, DsOwner,
                                          PreauthOwner, Idle, Autoconnecting
    <2>1. Interface(v) /\ Placed(v)
      OBVIOUS
    <2>2. Waiting(v)
      OBVIOUS
    <2>3. Scanning(v)
      OBVIOUS
    <2>4. Roaming(v) /\ RoamId(v)
      OBVIOUS
    <2> QED
      BY <1>v2, <2>1, <2>2, <2>3, <2>4
  <1>5. Good(w, v)
    BY <1>1, <1>v1, <1>4, QuietStep DEF ScanIs
  <1> QED
    BY <1>5 DEF u, v

\* The scan k is given the radio.
LEMMA ScanTriggeredGood ==
    ASSUME NEW w, Sound(w), NEW k \in Scans, w.sc[k] = "queued"
    PROVE  Good(w, [w EXCEPT !.sc[k] = "triggered", !.st.scan_pending = @ /\ k # "dbus"])
  <1> DEFINE v == [w EXCEPT !.sc[k] = "triggered", !.st.scan_pending = @ /\ k # "dbus"]
  <1>1. w \in Worlds
    BY DEF Sound
  <1>2. v.net = w.net /\ v.st.id = w.st.id
    BY <1>1 DEF Worlds
  <1>3. v.sc = [w.sc EXCEPT ![k] = "triggered"]
    BY <1>1 DEF Worlds
  <1>4. v \in Worlds
    BY <1>1, ScanNames, ZenonT(60) DEF Worlds
  <1>5. SamePlace(w, v) /\ SameRoam(w, v)
    BY <1>1 DEF Worlds, SamePlace, SameRoam
  <1>6. /\ v.st.autoconnect = w.st.autoconnect /\ v.st.connect_pending = w.st.connect_pending
        /\ v.st.connect_pending_bss = w.st.connect_pending_bss
        /\ v.st.pending_freed = w.st.pending_freed
        /\ v.st.disconnect_pending = w.st.disconnect_pending
        /\ v.st.hidden_pending = w.st.hidden_pending
        /\ v.st.subset = w.st.subset /\ v.st.fault = w.st.fault
    BY <1>1 DEF Worlds
  <1>7. v.st.scan_pending = (w.st.scan_pending /\ k # "dbus")
    BY <1>1 DEF Worlds
  <1>8. /\ w.sc \in [Scans \cup {"periodic"} -> {"none", "queued", "triggered", "on"}]
    BY <1>1 DEF Worlds
  <1> HIDE DEF v
  <1>9. /\ v.sc.periodic = w.sc.periodic
        /\ v.sc.quick = IF k = "quick" THEN "triggered" ELSE w.sc.quick
        /\ v.sc.roam = IF k = "roam" THEN "triggered" ELSE w.sc.roam
        /\ v.sc.dbus = IF k = "dbus" THEN "triggered" ELSE w.sc.dbus
        /\ v.sc.hidden = IF k = "hidden" THEN "triggered" ELSE w.sc.hidden
    BY <1>3, <1>8, ScanNames
  <1>10. Sound(v)
    <2> USE <1>2, <1>5, <1>6, <1>7, <1>9 DEF SamePlace, SameCalls, SameRoam, SameQuick,
                                             SameRoamScan, SameDbus, SameHidden, SamePeriodic,
                                             SameScans, OnlyNet, SameLink, SameWatches, Sound,
                                             Interface, Placed, Waiting, Scanning, Roaming,
                                             RoamId, ScanOwner, ReportOwner, DsOwner,
                                             PreauthOwner, Idle, Autoconnecting
    <2>1. Interface(v) /\ Placed(v)
      OBVIOUS
    <2>2. Waiting(v)
      BY ZenonT(60)
    <2>3. Scanning(v)
      OBVIOUS
    <2>4. Roaming(v) /\ RoamId(v)
      OBVIOUS
    <2> QED
      BY <1>4, <2>1, <2>2, <2>3, <2>4
  <1>11. Good(w, v)
    BY <1>2, <1>10, QuietStep
  <1> QED
    BY <1>11 DEF v

\* netdev ends the connection by itself.
LEMMA NetEndsGood ==
    ASSUME NEW w, Sound(w), Has("ending"), ~w.net.ending, w.net.disc = "none",
           w.net.conn # 0 \/ w.net.up # 0
    PROVE  Good(w, [w EXCEPT !.net.ending = TRUE])
  <1> DEFINE v == [w EXCEPT !.net.ending = TRUE]
  <1>1. w \in Worlds
    BY DEF Sound
  <1>2. OnlyNet(w, v)
    BY <1>1 DEF OnlyNet, Worlds
  <1>3. /\ SameLink(w.net, v.net) /\ v.net.disc = w.net.disc /\ v.net.ending = TRUE
        /\ v.net.nr = w.net.nr /\ v.net.ds = w.net.ds
        /\ v.net.parsed = w.net.parsed /\ v.net.preauth = w.net.preauth
    BY <1>1 DEF SameLink, Worlds
  <1>4. v \in Worlds
    BY <1>2 DEF OnlyNet
  <1> HIDE DEF v
  <1>5. Sound(v)
    <2> USE <1>2, <1>3 DEF SamePlace, SameCalls, SameRoam, SameQuick, SameRoamScan, SameDbus,
                           SameHidden, SamePeriodic, SameScans, OnlyNet, SameLink,
                           SameWatches, Sound, Interface, Placed, Waiting, Scanning, Roaming,
                           RoamId, ScanOwner, ReportOwner, DsOwner, PreauthOwner, Idle,
                           Autoconnecting
    <2>1. Interface(v) /\ Placed(v)
      OBVIOUS
    <2>2. Waiting(v)
      OBVIOUS
    <2>3. Scanning(v)
      OBVIOUS
    <2>4. Roaming(v) /\ RoamId(v)
      OBVIOUS
    <2> QED
      BY <1>4, <2>1, <2>2, <2>3, <2>4
  <1>6. Good(w, v)
    BY <1>3, <1>5 DEF Good, NetStep, Asked, SameLink
  <1> QED
    BY <1>6 DEF v

-----------------------------------------------------------------------------
(* The end of a connection. *)

\* A world whose connection has just ended: station_disassociated() makes it sound.
Cut(w) ==
    /\ w \in Worlds
    /\ w.net.conn = 0 /\ w.net.up = 0 /\ w.net.disc = "none" /\ w.net.ending = FALSE
    /\ w.net.nr = "none" /\ w.net.ds = 0 /\ w.net.parsed = FALSE /\ w.net.preauth = 0
    /\ ~w.st.fault /\ (w.st.bss # 0 <=> w.st.network # 0)
    /\ ~w.st.connect_pending /\ w.st.connect_pending_bss = 0 /\ ~w.st.pending_freed
    /\ ~w.st.disconnect_pending
    /\ w.st.scan_pending => w.sc.dbus = "queued"
    /\ w.st.hidden_pending <=> w.sc.hidden # "none"
    /\ "on" \notin {w.sc.quick, w.sc.roam, w.sc.dbus, w.sc.hidden}
    /\ w.st.id.quick <=> w.sc.quick # "none"
    /\ w.st.id.dbus <=> w.sc.dbus # "none"
    /\ w.st.id.hidden <=> w.sc.hidden # "none"
    /\ w.sc.dbus # "none" => Has("scan") /\ w.st.subset < Subsets
    /\ w.sc.hidden # "none" => Has("hidden")
    /\ ~w.st.autoconnect => Has("disconnect")
    /\ w.sc.roam = "none" \/ ~Has("low")
    /\ Has("low") \/ (w.st.id.roam <=> w.sc.roam # "none")
    /\ w.st.bss = 0 =>
          ~w.st.preparing_roam /\ ~w.st.timer /\ ~w.st.signal_low /\ w.sc.roam = "none"

LEMMA CutSound ==
    ASSUME NEW w, Cut(w)
    PROVE  Sound(Disassociated(w)) /\ Disassociated(w).net = w.net
  <1> DEFINE v == Disassociated(w)
  <1>1. Dissociated(w, v)
    BY DisassociatedFacts DEF Cut
  <1> HIDE DEF v
  <1>2. v \in Worlds /\ v.net = w.net
    BY <1>1 DEF Dissociated
  <1>3. Sound(v)
    <2> USE <1>1 DEF Dissociated, Cut, SamePlace, SameCalls, SameRoam, SameQuick,
                     SameRoamScan, SameDbus, SameHidden, SamePeriodic, SameScans, OnlyNet,
                     SameLink, SameWatches, Sound, Interface, Placed, Waiting, Scanning,
                     Roaming, RoamId, ScanOwner, ReportOwner, DsOwner, PreauthOwner, Idle,
                     Autoconnecting
    <2>1. Interface(v) /\ Placed(v)
      OBVIOUS
    <2>2. Waiting(v)
      OBVIOUS
    <2>3. Scanning(v)
      OBVIOUS
    <2>4. Roaming(v) /\ RoamId(v)
      OBVIOUS
    <2> QED
      BY <1>2, <2>1, <2>2, <2>3, <2>4
  <1> QED
    BY <1>2, <1>3 DEF v

\* station_disconnect_event(), once the connection is freed.
LEMMA NetLostGood ==
    ASSUME NEW w, Sound(w), Calm, w.net.up # 0, Has("drop") \/ w.net.ending
    PROVE  Good(w, DisconnectEvent(NetFree(w)))
  <1> DEFINE u == NetFree(w)
  <1>1. w \in Worlds /\ w.net.nr # "roam" /\ ~Has("low")
    BY CalmFacts DEF Sound, Interface, Roaming
  <1>2. Freed(w, u)
    BY <1>1, NetFreeFacts
  <1> HIDE DEF u
  <1>3. Cut(u)
    BY <1>1, <1>2 DEF Freed, OnlyNet, Cut, Sound, Interface, Placed, Waiting, Scanning,
                      Roaming, RoamId, ScanOwner, ReportOwner, DsOwner, PreauthOwner, Idle,
                      Autoconnecting
  <1>4. DisconnectEvent(u) = Disassociated(u)
    BY <1>3 DEF DisconnectEvent, Cut
  <1>5. Sound(Disassociated(u)) /\ Disassociated(u).net = u.net
    BY <1>3, CutSound
  <1>6. Good(w, Disassociated(u))
    BY <1>2, <1>5 DEF Good, NetStep, Asked, Freed, Sound, Interface, Maybe
  <1> QED
    BY <1>4, <1>6 DEF u

-----------------------------------------------------------------------------
(* Roams. *)

\* station_roam_timeout_rearm(), with no timer armed.
Rearmed(w, v) ==
    /\ v \in Worlds /\ v.net = w.net /\ v.sc = w.sc /\ v.st.id = w.st.id
    /\ SamePlace(w, v) /\ SameCalls(w, v)
    /\ v.st.preparing_roam = w.st.preparing_roam /\ v.st.signal_low = w.st.signal_low
    /\ v.st.timer = TRUE

LEMMA RearmFacts ==
    ASSUME NEW w \in Worlds, ~w.st.timer
    PROVE  Rearmed(w, RoamTimeoutRearm(w))
  <1> DEFINE v == [w EXCEPT !.st.timer = TRUE]
  <1>1. w \in Worlds /\ RoamTimeoutRearm(w) = v
    BY DEF RoamTimeoutRearm
  <1>v1. v.net = w.net /\ v.sc = w.sc /\ v.st.id = w.st.id
    BY <1>1 DEF Worlds
  <1>v2. v \in Worlds
    BY <1>1 DEF Worlds
  <1>v3. SamePlace(w, v) /\ SameCalls(w, v)
    BY <1>1 DEF Worlds, SamePlace, SameCalls
  <1>v4. /\ v.st.preparing_roam = w.st.preparing_roam /\ v.st.signal_low = w.st.signal_low
          /\ v.st.timer = TRUE
    BY <1>1 DEF Worlds
  <1> HIDE DEF v
  <1>2. Rearmed(w, v)
    BY <1>v1, <1>v2, <1>v3, <1>v4 DEF Rearmed
  <1> QED
    BY <1>1, <1>2

\* station_roam_retry(), with no timer armed.
Retried(w, v) ==
    /\ v \in Worlds /\ v.net = w.net /\ v.sc = w.sc /\ v.st.id = w.st.id
    /\ SamePlace(w, v) /\ SameCalls(w, v)
    /\ v.st.preparing_roam = FALSE /\ v.st.signal_low = w.st.signal_low
    /\ v.st.timer <=> w.st.signal_low

LEMMA RoamRetryFacts ==
    ASSUME NEW w \in Worlds, ~w.st.timer
    PROVE  Retried(w, RoamRetry(w))
  <1> DEFINE u == [w EXCEPT !.st = [@ EXCEPT !.preparing_roam = FALSE,
                                             !.roam_scan_full = FALSE,
                                             !.ap_directed_roaming = FALSE]]
  <1>1. w \in Worlds /\ RoamRetry(w) = IF w.st.signal_low THEN RoamTimeoutRearm(u) ELSE u
    BY DEF RoamRetry
  <1>u1. u.net = w.net /\ u.sc = w.sc /\ u.st.id = w.st.id
    BY <1>1 DEF Worlds
  <1>u2. u \in Worlds
    BY <1>1, ZenonT(60) DEF Worlds
  <1>u3. SamePlace(w, u) /\ SameCalls(w, u)
    BY <1>1 DEF Worlds, SamePlace, SameCalls
  <1>u4. /\ u.st.preparing_roam = FALSE /\ u.st.signal_low = w.st.signal_low
          /\ u.st.timer = w.st.timer
    BY <1>1 DEF Worlds
  <1> HIDE DEF u
  <1>2. CASE w.st.signal_low
    <2>1. Rearmed(u, RoamTimeoutRearm(u))
      BY <1>u2, <1>u4, RearmFacts
    <2>2. Retried(w, RoamTimeoutRearm(u))
      BY <1>2, <2>1, <1>u1, <1>u2, <1>u3, <1>u4 DEF Rearmed, Retried, SamePlace, SameCalls
    <2> QED
      BY <1>1, <1>2, <2>2
  <1>3. CASE ~w.st.signal_low
    <2>1. Retried(w, u)
      BY <1>3, <1>u1, <1>u2, <1>u3, <1>u4 DEF Retried
    <2> QED
      BY <1>1, <1>3, <2>1
  <1> QED
    BY <1>2, <1>3

\* station_roam_scan().
LEMMA RoamScanFacts ==
    ASSUME NEW w \in Worlds, NEW full \in BOOLEAN
    PROVE  ScanIs(w, RoamScan(w, full), "roam", "queued", TRUE)
  <1> DEFINE u == [w EXCEPT !.st.roam_scan_full = @ \/ full]
  <1>1. w.st.roam_scan_full \in BOOLEAN
    BY DEF Worlds
  <1>2. OnlyNets(w, u)
    <2>1. (w.st.roam_scan_full \/ full) \in BOOLEAN
      BY <1>1
    <2> QED
      BY <2>1, FlagUpdates
  <1>3. RoamScan(w, full) = ScanStart(u, "roam")
    BY DEF RoamScan
  <1> HIDE DEF u
  <1>4. ScanIs(u, ScanStart(u, "roam"), "roam", "queued", TRUE)
    BY <1>2, ScanStartFacts, ScanNames DEF OnlyNets
  <1>5. ScanIs(w, ScanStart(u, "roam"), "roam", "queued", TRUE)
    BY <1>2, <1>4 DEF ScanIs, OnlyNets, SamePlace, SameCalls, SameRoam, SameQuick,
                      SameRoamScan, SameDbus, SameHidden, SamePeriodic, SameScans
  <1> QED
    BY <1>3, <1>5

\* station_roam_failed(), of a roam that was being prepared: another scan, or none.
Failed(w, v) ==
    \/ ScanIs(w, v, "roam", "queued", TRUE) /\ w.st.signal_low
    \/ Retried(w, v)

LEMMA RoamFailedFacts ==
    ASSUME NEW w \in Worlds, ~w.st.timer, w.st.state # "roaming", w.sc.roam = "none"
    PROVE  Failed(w, RoamFailed(w))
  <1>1. CASE ~w.st.ap_directed_roaming /\ w.st.signal_low /\ ~w.st.roam_scan_full
    <2>1. RoamFailed(w) = RoamScan(w, TRUE)
      BY <1>1, ScanCancelFacts, ScanNames DEF RoamFailed
    <2>2. ScanIs(w, RoamScan(w, TRUE), "roam", "queued", TRUE)
      BY RoamScanFacts
    <2> QED
      BY <1>1, <2>1, <2>2 DEF Failed
  <1>2. CASE ~(~w.st.ap_directed_roaming /\ w.st.signal_low /\ ~w.st.roam_scan_full)
    <2>1. RoamFailed(w) = RoamRetry(w)
      BY <1>2 DEF RoamFailed
    <2> QED
      BY <2>1, RoamRetryFacts DEF Failed
  <1> QED
    BY <1>1, <1>2

\* station_roam_scan_known_freqs(), for a station that has a BSS.
LEMMA RoamScanKnownFacts ==
    ASSUME NEW w \in Worlds, ~w.st.timer, w.st.state # "roaming", w.sc.roam = "none",
           w.st.bss # 0
    PROVE  \/ ScanIs(w, RoamScanKnown(w), "roam", "queued", TRUE)
           \/ Failed(w, RoamScanKnown(w))
  <1>1. RoamScanKnown(w) = RoamFailed(w) \/ RoamScanKnown(w) = RoamScan(w, FALSE)
    BY DEF RoamScanKnown
  <1>2. ScanIs(w, RoamScan(w, FALSE), "roam", "queued", TRUE)
    BY RoamScanFacts
  <1> QED
    BY <1>1, <1>2, RoamFailedFacts

\* A roam that is being prepared and for which nothing is under way any more.
Bereft(w) ==
    /\ w \in Worlds
    /\ Interface(w) /\ Placed(w) /\ Waiting(w) /\ Scanning(w)
    /\ w.st.preparing_roam /\ w.st.state = "connected" /\ ~w.st.timer
    /\ Has("low") \/ Has("btm")
    /\ ~ScanOwner(w) /\ ~ReportOwner(w) /\ ~DsOwner(w) /\ ~PreauthOwner(w)
    /\ w.st.signal_low => Has("low")
    /\ w.net.ds # 0 => Has("low")

\* What is left of a step of the roam: everything but the id of its scan.
LaxGood(w, v) == Lax(v) /\ NetStep(w.net, v.net) /\ Asked(w, v)

LEMMA LaxQuiet ==
    ASSUME NEW w, NEW v, Lax(v), v.net = w.net
    PROVE  LaxGood(w, v)
  BY DEF LaxGood, NetStep, Asked

LEMMA BereftScan ==
    ASSUME NEW w, NEW v, Bereft(w), ScanIs(w, v, "roam", "queued", TRUE)
    PROVE  LaxGood(w, v) /\ RoamId(v)
  <1>1. v \in Worlds /\ v.net = w.net
    BY DEF ScanIs
  <1>2. Lax(v)
    <2> USE <1>1 DEF Bereft, ScanIs, SamePlace, SameCalls, SameRoam, SameQuick, SameRoamScan,
                     SameDbus, SameHidden, SamePeriodic, SameScans, OnlyNet, SameLink,
                     SameWatches, Sound, Lax, Interface, Placed, Waiting, Scanning, Roaming,
                     RoamId, ScanOwner, ReportOwner, DsOwner, PreauthOwner, Idle,
                     Autoconnecting
    <2>1. Interface(v) /\ Placed(v)
      OBVIOUS
    <2>2. Waiting(v)
      OBVIOUS
    <2>3. Scanning(v)
      OBVIOUS
    <2>4. Roaming(v) 
      OBVIOUS
    <2> QED
      BY <1>1, <2>1, <2>2, <2>3, <2>4
  <1>3. RoamId(v)
    BY DEF ScanIs, RoamId
  <1> QED
    BY <1>1, <1>2, <1>3, LaxQuiet

LEMMA BereftRetry ==
    ASSUME NEW w, NEW v, Bereft(w), Retried(w, v)
    PROVE  /\ LaxGood(w, v) /\ v.sc.roam = "none"
           /\ Has("low") \/ ~w.st.id.roam => RoamId(v)
  <1>1. v \in Worlds /\ v.net = w.net /\ v.sc.roam = "none"
    BY DEF Retried, Bereft, ScanOwner
  <1>2. Lax(v)
    <2> USE <1>1 DEF Bereft, Retried, SamePlace, SameCalls, SameRoam, SameQuick, SameRoamScan,
                     SameDbus, SameHidden, SamePeriodic, SameScans, OnlyNet, SameLink,
                     SameWatches, Sound, Lax, Interface, Placed, Waiting, Scanning, Roaming,
                     RoamId, ScanOwner, ReportOwner, DsOwner, PreauthOwner, Idle,
                     Autoconnecting
    <2>1. Interface(v) /\ Placed(v)
      OBVIOUS
    <2>2. Waiting(v)
      OBVIOUS
    <2>3. Scanning(v)
      OBVIOUS
    <2>4. Roaming(v) 
      OBVIOUS
    <2> QED
      BY <1>1, <2>1, <2>2, <2>3, <2>4
  <1>3. Has("low") \/ ~w.st.id.roam => RoamId(v)
    BY <1>1 DEF Retried, RoamId
  <1> QED
    BY <1>1, <1>2, <1>3, LaxQuiet

LEMMA BereftFailed ==
    ASSUME NEW w, NEW v, Bereft(w), Failed(w, v)
    PROVE  /\ LaxGood(w, v) /\ (Has("low") \/ v.sc.roam = "none")
           /\ Has("low") \/ ~w.st.id.roam => RoamId(v)
  BY BereftScan, BereftRetry DEF Failed, Bereft

\* netdev_reassociate() and the fast transitions.
Moved(w, v, b) ==
    /\ v \in Worlds
    /\ v.net.conn = b /\ v.net.cb = "roam" /\ v.net.up = 0 /\ SameWatches(w.net, v.net)
    /\ v.st.state = "roaming" /\ v.st.bss = b /\ v.st.network = w.st.network
    /\ v.st.netconfig = w.st.netconfig
    /\ v.st.preparing_roam = FALSE /\ v.st.signal_low = w.st.signal_low
    /\ v.st.timer = w.st.timer
    /\ SameCalls(w, v) /\ SameScans(w, v)

LEMMA MoveFacts ==
    ASSUME NEW w \in Worlds, NEW b \in Bsses, w.net.up # 0
    PROVE  Moved(w, Move(w, b), b)
  <1> DEFINE u == [w EXCEPT !.net = [@ EXCEPT !.conn = b, !.cb = "roam", !.up = 0],
                            !.st = [@ EXCEPT !.bss = b, !.preparing_roam = FALSE]]
             v == EnterState(u, "roaming")
  <1>1. Move(w, b) = v
    BY DEF Move
  <1>2. u.sc = w.sc /\ u.st.id = w.st.id
    BY DEF Worlds
  <1>3. u \in Worlds
    BY ZenonT(60) DEF Worlds, Maybe
  <1>4. SameCalls(w, u)
    BY DEF Worlds, SameCalls
  <1>5. /\ u.st.bss = b /\ u.st.network = w.st.network /\ u.st.netconfig = w.st.netconfig
        /\ u.st.preparing_roam = FALSE /\ u.st.signal_low = w.st.signal_low
        /\ u.st.timer = w.st.timer
    BY DEF Worlds
  <1>6. u.net.conn = b /\ u.net.cb = "roam" /\ u.net.up = 0 /\ SameWatches(w.net, u.net)
    BY DEF Worlds, SameWatches
  <1> HIDE DEF u
  <1>7. Pass(u, v, "roaming")
    BY <1>3, EnterPass
  <1> HIDE DEF v
  <1>8. Moved(w, v, b)
    BY <1>2, <1>4, <1>5, <1>6, <1>7 DEF Pass, EnterFrame, Moved, SamePlace, SameCalls,
                                        SameRoam, SameQuick, SameRoamScan, SameDbus,
                                        SameHidden, SamePeriodic, SameScans
  <1> QED
    BY <1>1, <1>8

LEMMA BereftMoved ==
    ASSUME NEW w, Bereft(w), NEW b \in Bsses, NetworkOf[b] = w.st.network
    PROVE  LaxGood(w, Move(w, b)) /\ Move(w, b).sc.roam = "none"
           /\ (Has("low") \/ ~w.st.id.roam => RoamId(Move(w, b)))
  <1> DEFINE v == Move(w, b)
  <1>1. w.net.up # 0 /\ w \in Worlds /\ b # 0 /\ w.net.disc = "none"
    BY NetworkFacts DEF Bereft, Placed, Interface
  <1>2. Moved(w, v, b)
    BY <1>1, MoveFacts
  <1> HIDE DEF v
  <1>3. v \in Worlds
    BY <1>2 DEF Moved
  <1>4. Lax(v)
    <2> USE <1>1, <1>2 DEF Bereft, Moved, SamePlace, SameCalls, SameRoam, SameQuick,
                           SameRoamScan, SameDbus, SameHidden, SamePeriodic, SameScans,
                           OnlyNet, SameLink, SameWatches, Sound, Lax, Interface, Placed,
                           Waiting, Scanning, Roaming, RoamId, ScanOwner, ReportOwner,
                           DsOwner, PreauthOwner, Idle, Autoconnecting
    <2>1. Interface(v) /\ Placed(v)
      OBVIOUS
    <2>2. Waiting(v)
      OBVIOUS
    <2>3. Scanning(v)
      OBVIOUS
    <2>4. Roaming(v) 
      OBVIOUS
    <2> QED
      BY <1>3, <2>1, <2>2, <2>3, <2>4
  <1>5. NetStep(w.net, v.net) /\ Asked(w, v)
    BY <1>1, <1>2 DEF Bereft, Placed, Interface, Moved, NetStep, Asked, SameWatches
  <1>6. v.sc.roam = "none" /\ (Has("low") \/ ~w.st.id.roam => RoamId(v))
    BY <1>2 DEF Bereft, ScanOwner, Moved, SameScans, SameRoamScan, RoamId
  <1> QED
    BY <1>4, <1>5, <1>6 DEF v, LaxGood

\* A fast transition over the DS, or a preauthentication, is asked for.
LEMMA BereftDs ==
    ASSUME NEW w, Bereft(w), NEW b \in Bsses, NetworkOf[b] = w.st.network, w.net.ds = 0,
           Has("low")
    PROVE  LaxGood(w, [w EXCEPT !.net.ds = b]) /\ [w EXCEPT !.net.ds = b].sc.roam = "none"
  <1> DEFINE v == [w EXCEPT !.net.ds = b]
  <1>1. w \in Worlds /\ w.net.up # 0 /\ b # 0
    BY NetworkFacts DEF Bereft, Placed
  <1>2. OnlyNet(w, v)
    BY <1>1 DEF OnlyNet, Worlds, Maybe
  <1>3. /\ SameLink(w.net, v.net) /\ v.net.disc = w.net.disc /\ v.net.ending = w.net.ending
        /\ v.net.nr = w.net.nr /\ v.net.ds = b
        /\ v.net.parsed = w.net.parsed /\ v.net.preauth = w.net.preauth
    BY <1>1 DEF SameLink, Worlds
  <1>4. v \in Worlds
    BY <1>2 DEF OnlyNet
  <1> HIDE DEF v
  <1>5. Lax(v)
    <2> USE <1>1, <1>2, <1>3 DEF Bereft, SamePlace, SameCalls, SameRoam, SameQuick,
                                 SameRoamScan, SameDbus, SameHidden, SamePeriodic, SameScans,
                                 OnlyNet, SameLink, SameWatches, Sound, Lax, Interface,
                                 Placed, Waiting, Scanning, Roaming, RoamId, ScanOwner,
                                 ReportOwner, DsOwner, PreauthOwner, Idle, Autoconnecting
    <2>1. Interface(v) /\ Placed(v)
      OBVIOUS
    <2>2. Waiting(v)
      OBVIOUS
    <2>3. Scanning(v)
      OBVIOUS
    <2>4. Roaming(v) 
      OBVIOUS
    <2> QED
      BY <1>4, <2>1, <2>2, <2>3, <2>4
  <1>6. NetStep(w.net, v.net) /\ Asked(w, v)
    BY <1>3 DEF NetStep, Asked, SameLink
  <1>7. v.sc.roam = "none"
    BY <1>2 DEF OnlyNet, Bereft, ScanOwner
  <1> QED
    BY <1>5, <1>6, <1>7 DEF v, LaxGood

LEMMA BereftPreauth ==
    ASSUME NEW w, Bereft(w), NEW b \in Bsses, NetworkOf[b] = w.st.network
    PROVE  LaxGood(w, [w EXCEPT !.net.preauth = b])
           /\ [w EXCEPT !.net.preauth = b].sc.roam = "none"
  <1> DEFINE v == [w EXCEPT !.net.preauth = b]
  <1>1. w \in Worlds /\ w.net.up # 0 /\ b # 0
    BY NetworkFacts DEF Bereft, Placed
  <1>2. OnlyNet(w, v)
    BY <1>1 DEF OnlyNet, Worlds, Maybe
  <1>3. /\ SameLink(w.net, v.net) /\ v.net.disc = w.net.disc /\ v.net.ending = w.net.ending
        /\ v.net.nr = w.net.nr /\ v.net.ds = w.net.ds
        /\ v.net.parsed = w.net.parsed /\ v.net.preauth = b
    BY <1>1 DEF SameLink, Worlds
  <1>4. v \in Worlds
    BY <1>2 DEF OnlyNet
  <1> HIDE DEF v
  <1>5. Lax(v)
    <2> USE <1>1, <1>2, <1>3 DEF Bereft, SamePlace, SameCalls, SameRoam, SameQuick,
                                 SameRoamScan, SameDbus, SameHidden, SamePeriodic, SameScans,
                                 OnlyNet, SameLink, SameWatches, Sound, Lax, Interface,
                                 Placed, Waiting, Scanning, Roaming, RoamId, ScanOwner,
                                 ReportOwner, DsOwner, PreauthOwner, Idle, Autoconnecting
    <2>1. Interface(v) /\ Placed(v)
      OBVIOUS
    <2>2. Waiting(v)
      OBVIOUS
    <2>3. Scanning(v)
      OBVIOUS
    <2>4. Roaming(v) 
      OBVIOUS
    <2> QED
      BY <1>4, <2>1, <2>2, <2>3, <2>4
  <1>6. NetStep(w.net, v.net) /\ Asked(w, v)
    BY <1>3 DEF NetStep, Asked, SameLink
  <1>7. v.sc.roam = "none"
    BY <1>2 DEF OnlyNet, Bereft, ScanOwner
  <1> QED
    BY <1>5, <1>6, <1>7 DEF v, LaxGood

-----------------------------------------------------------------------------
(* The callbacks of roam scans. *)

\* A request is off the queue before its callback runs, and its id is cleared after it.
LEMMA DoneFacts ==
    ASSUME NEW w \in Worlds, NEW k \in Scans
    PROVE  ScanIs(w, [w EXCEPT !.sc[k] = "none"], k, "none", w.st.id[k])
  <1> DEFINE v == [w EXCEPT !.sc[k] = "none"]
  <1>1. v \in Worlds
    BY ScanNames DEF Worlds
  <1>2. v.net = w.net /\ v.st = w.st
    BY DEF Worlds
  <1>3. v.sc = [w.sc EXCEPT ![k] = "none"]
    BY DEF Worlds
  <1>4. w.sc \in [Scans \cup {"periodic"} -> {"none", "queued", "triggered", "on"}]
    BY DEF Worlds
  <1> HIDE DEF v
  <1>5. ScanIs(w, v, k, "none", w.st.id[k])
    BY <1>1, <1>2, <1>3, <1>4, ScanNames DEF ScanIs, SamePlace, SameCalls, SameRoam,
                                             SameQuick, SameRoamScan, SameDbus, SameHidden,
                                             SamePeriodic, SameScans
  <1> QED
    BY <1>5 DEF v

LEMMA DestroyFacts ==
    ASSUME NEW w \in Worlds, NEW k \in Scans
    PROVE  ScanIs(w, [w EXCEPT !.st.id[k] = FALSE], k, w.sc[k], FALSE)
  <1> DEFINE v == [w EXCEPT !.st.id[k] = FALSE]
  <1>1. v \in Worlds
    BY DEF Worlds
  <1>2. v.net = w.net /\ v.sc = w.sc
    BY DEF Worlds
  <1>3. v.st.id = [w.st.id EXCEPT ![k] = FALSE]
    BY DEF Worlds
  <1>4. SamePlace(w, v) /\ SameCalls(w, v) /\ SameRoam(w, v)
    BY DEF Worlds, SamePlace, SameCalls, SameRoam
  <1>5. w.st.id \in [Scans -> BOOLEAN]
    BY DEF Worlds
  <1> HIDE DEF v
  <1>6. ScanIs(w, v, k, w.sc[k], FALSE)
    BY <1>1, <1>2, <1>3, <1>4, <1>5, ScanNames
       DEF ScanIs, SameQuick, SameRoamScan, SameDbus, SameHidden, SamePeriodic
  <1> QED
    BY <1>6 DEF v

\* A step is as good from a world with the same interface, place and calls.
LEMMA AfterSame ==
    ASSUME NEW u, NEW w, NEW v, w.net = u.net, SamePlace(u, w), SameCalls(u, w), Good(w, v)
    PROVE  Good(u, v)
  BY DEF Good, Asked, SamePlace, SameCalls

LEMMA LaxAfterSame ==
    ASSUME NEW u, NEW w, NEW v, w.net = u.net, SamePlace(u, w), SameCalls(u, w), LaxGood(w, v)
    PROVE  LaxGood(u, v)
  BY DEF LaxGood, Asked, SamePlace, SameCalls

LEMMA LaxIsGood ==
    ASSUME NEW w, NEW v, LaxGood(w, v), RoamId(v)
    PROVE  Good(w, v)
  BY DEF LaxGood, Good, Lax, Sound

\* station_roam_scan_destroy().
LEMMA RoamScanEnds ==
    ASSUME NEW w, NEW v, LaxGood(w, v), Has("low") \/ v.sc.roam = "none"
    PROVE  Good(w, ScanDestroy(v, "roam"))
  <1> DEFINE d == ScanDestroy(v, "roam")
  <1>1. ScanIs(v, d, "roam", v.sc.roam, FALSE)
    BY DestroyFacts, ScanNames DEF ScanDestroy, LaxGood, Lax
  <1> HIDE DEF d
  <1>2. d \in Worlds /\ d.net = v.net
    BY <1>1 DEF ScanIs
  <1>3. Sound(d)
    <2> USE <1>1 DEF LaxGood, ScanIs, SamePlace, SameCalls, SameRoam, SameQuick, SameRoamScan,
                     SameDbus, SameHidden, SamePeriodic, SameScans, OnlyNet, SameLink,
                     SameWatches, Sound, Lax, Interface, Placed, Waiting, Scanning, Roaming,
                     RoamId, ScanOwner, ReportOwner, DsOwner, PreauthOwner, Idle,
                     Autoconnecting
    <2>1. Interface(d) /\ Placed(d)
      OBVIOUS
    <2>2. Waiting(d)
      OBVIOUS
    <2>3. Scanning(d)
      OBVIOUS
    <2>4. Roaming(d) /\ RoamId(d)
      OBVIOUS
    <2> QED
      BY <1>2, <2>1, <2>2, <2>3, <2>4
  <1>4. NetStep(w.net, d.net) /\ Asked(w, d)
    BY <1>1 DEF ScanIs, LaxGood, Asked, SameCalls
  <1> QED
    BY <1>3, <1>4 DEF Good, d

LEMMA BereftNets ==
    ASSUME NEW w, NEW v, Bereft(w), OnlyNets(w, v)
    PROVE  Bereft(v) /\ v.st.id.roam = w.st.id.roam /\ v.st.network = w.st.network
           /\ v.st.signal_low = w.st.signal_low
  BY DEF Bereft, OnlyNets, SamePlace, SameCalls, SameRoam, SameQuick, SameRoamScan, SameDbus,
         SameHidden, SamePeriodic, SameScans, Interface, Placed, Waiting, Scanning, ScanOwner,
         ReportOwner, DsOwner, PreauthOwner

LEMMA BereftDone ==
    ASSUME NEW w, NEW u, Sound(w), w.sc.roam # "none",
           ScanIs(w, u, "roam", "none", w.st.id.roam)
    PROVE  Bereft(u)
  BY DEF Bereft, ScanIs, SamePlace, SameCalls, SameRoam, SameQuick, SameRoamScan, SameDbus,
         SameHidden, SamePeriodic, SameScans, Sound, Interface, Placed, Waiting, Scanning,
         Roaming, ScanOwner, ReportOwner, DsOwner, PreauthOwner

\* station_transition_start().
LEMMA TransitionGood ==
    ASSUME NEW w, Bereft(w), NEW b \in Bsses, NetworkOf[b] = w.st.network
    PROVE  /\ LaxGood(w, TransitionStart(w, b))
           /\ Has("low") \/ TransitionStart(w, b).sc.roam = "none"
  <1> DEFINE go == [w EXCEPT !.st.ap_directed_roaming = FALSE]
  <1>1. w \in Worlds
    BY DEF Bereft
  <1>2. OnlyNets(w, go)
    BY <1>1, FlagUpdates
  <1>3. \/ /\ TransitionStart(w, b) = [go EXCEPT !.net.ds = b]
           /\ w.st.signal_low /\ w.net.ds = 0
        \/ TransitionStart(w, b) = RoamRetry(go)
        \/ TransitionStart(w, b) = RoamFailed(go)
        \/ TransitionStart(w, b) = [go EXCEPT !.net.preauth = b]
        \/ TransitionStart(w, b) = Move(go, b)
    BY DEF TransitionStart
  <1> HIDE DEF go
  <1>4. Bereft(go) /\ go.st.network = w.st.network /\ go.net = w.net
    BY <1>2, BereftNets DEF OnlyNets
  <1>5. go.net = w.net /\ SamePlace(w, go) /\ SameCalls(w, go)
    BY <1>2 DEF OnlyNets
  <1>6. CASE /\ TransitionStart(w, b) = [go EXCEPT !.net.ds = b]
             /\ w.st.signal_low /\ w.net.ds = 0
    <2>1. Has("low")
      BY <1>6 DEF Bereft
    <2> QED
      BY <1>4, <1>5, <1>6, <2>1, BereftDs, LaxAfterSame
  <1>7. CASE TransitionStart(w, b) = RoamRetry(go)
    <2>1. Retried(go, RoamRetry(go))
      BY <1>4, RoamRetryFacts DEF Bereft
    <2> QED
      BY <1>4, <1>5, <1>7, <2>1, BereftRetry, LaxAfterSame
  <1>8. CASE TransitionStart(w, b) = [go EXCEPT !.net.preauth = b]
    BY <1>4, <1>5, <1>8, BereftPreauth, LaxAfterSame
  <1>9. CASE TransitionStart(w, b) = Move(go, b)
    BY <1>4, <1>5, <1>9, BereftMoved, LaxAfterSame
  <1>10. CASE TransitionStart(w, b) = RoamFailed(go)
    <2>1. Failed(go, RoamFailed(go))
      BY <1>4, RoamFailedFacts DEF Bereft, ScanOwner
    <2> QED
      BY <1>4, <1>5, <1>10, <2>1, BereftFailed, LaxAfterSame
  <1> QED
    BY <1>3, <1>6, <1>7, <1>8, <1>9, <1>10

\* station_roam_scan_notify(), station_roam_scan_destroy().
LEMMA RoamScanResultsGood ==
    ASSUME NEW w, Sound(w), w.sc.roam # "none",
           NEW b \in RoamTargets([w EXCEPT !.sc["roam"] = "none"]) \cup {0}
    PROVE  Good(w, ScanDestroy(RoamScanNotify([w EXCEPT !.sc["roam"] = "none"], b), "roam"))
  <1> DEFINE u == [w EXCEPT !.sc["roam"] = "none"]
             v == RoamScanNotify(u, b)
  <1>1. ScanIs(w, u, "roam", "none", w.st.id.roam)
    BY DoneFacts, ScanNames DEF Sound
  <1>2. b = 0 \/ (b \in Bsses /\ NetworkOf[b] = u.st.network)
    BY DEF RoamTargets
  <1> HIDE DEF u
  <1>3. Bereft(u) /\ u.net = w.net /\ SamePlace(w, u) /\ SameCalls(w, u)
    BY <1>1, BereftDone DEF ScanIs
  <1>4. u \in Worlds /\ u.st.network # 0 /\ u.net.up # 0 /\ u.st.state # "roaming"
        /\ u.sc.roam = "none" /\ ~u.st.timer
    BY <1>3 DEF Bereft, Placed, ScanOwner
  <1>5. LaxGood(u, v) /\ (Has("low") \/ v.sc.roam = "none")
    <2>1. CASE b = 0
      <3>1. v = RoamFailed(u)
        BY <1>4, <2>1 DEF RoamScanNotify
      <3>2. Failed(u, RoamFailed(u))
        BY <1>4, RoamFailedFacts
      <3> QED
        BY <1>3, <3>1, <3>2, BereftFailed
    <2>2. CASE b # 0
      <3> DEFINE x == [u EXCEPT !.nets.seen = @ \cup {b}]
      <3>1. v = TransitionStart(x, b)
        BY <1>4, <2>2 DEF RoamScanNotify
      <3>2. OnlyNets(u, x) /\ b \in Bsses
        BY <1>2, <1>4, <2>2, SeenUpdate
      <3> HIDE DEF x
      <3>3. Bereft(x) /\ x.st.network = u.st.network
        BY <1>3, <3>2, BereftNets
      <3>4. LaxGood(x, v) /\ (Has("low") \/ v.sc.roam = "none")
        BY <1>2, <2>2, <3>1, <3>3, TransitionGood
      <3> QED
        BY <3>2, <3>4, LaxAfterSame DEF OnlyNets
    <2> QED
      BY <2>1, <2>2
  <1> HIDE DEF v
  <1>6. Good(u, ScanDestroy(v, "roam"))
    BY <1>5, RoamScanEnds
  <1>7. Good(w, ScanDestroy(v, "roam"))
    BY <1>3, <1>6, AfterSame
  <1> QED
    BY <1>7 DEF u, v

\* station_roam_scan_triggered(), of a scan that could not be started.
LEMMA RoamScanFailsGood ==
    ASSUME NEW w, Sound(w), w.sc.roam # "none"
    PROVE  Good(w, ScanDestroy(RoamFailed([w EXCEPT !.sc["roam"] = "none"]), "roam"))
  <1> DEFINE u == [w EXCEPT !.sc["roam"] = "none"]
  <1>1. ScanIs(w, u, "roam", "none", w.st.id.roam)
    BY DoneFacts, ScanNames DEF Sound
  <1> HIDE DEF u
  <1>2. Bereft(u) /\ u.net = w.net /\ SamePlace(w, u) /\ SameCalls(w, u)
    BY <1>1, BereftDone DEF ScanIs
  <1>3. Failed(u, RoamFailed(u))
    BY <1>2, RoamFailedFacts DEF Bereft, ScanOwner
  <1>4. LaxGood(u, RoamFailed(u)) /\ (Has("low") \/ RoamFailed(u).sc.roam = "none")
    BY <1>2, <1>3, BereftFailed
  <1>5. Good(u, ScanDestroy(RoamFailed(u), "roam"))
    BY <1>4, RoamScanEnds
  <1>6. Good(w, ScanDestroy(RoamFailed(u), "roam"))
    BY <1>2, <1>5, AfterSame
  <1> QED
    BY <1>6 DEF u

-----------------------------------------------------------------------------
(* The other answers a roam waits for. *)

\* station_early_neighbor_report_cb().
LEMMA EarlyReportGood ==
    ASSUME NEW w, Sound(w), w.net.nr = "early", NEW b \in BOOLEAN
    PROVE  Good(w, [[w EXCEPT !.net.nr = "none"] EXCEPT !.st.roam_freqs = b])
  <1> DEFINE u == [w EXCEPT !.net.nr = "none"]
             v == [u EXCEPT !.st.roam_freqs = b]
  <1>1. ReportIs(w, u, "none")
    BY ReportUpdate DEF Sound
  <1> HIDE DEF u
  <1>2. u \in Worlds
    BY <1>1 DEF ReportIs, OnlyNet
  <1>3. Sound(u)
    <2> USE <1>1 DEF ReportIs, SamePlace, SameCalls, SameRoam, SameQuick, SameRoamScan,
                     SameDbus, SameHidden, SamePeriodic, SameScans, OnlyNet, SameLink,
                     SameWatches, Sound, Lax, Interface, Placed, Waiting, Scanning, Roaming,
                     RoamId, ScanOwner, ReportOwner, DsOwner, PreauthOwner, Idle,
                     Autoconnecting
    <2>1. Interface(u) /\ Placed(u)
      OBVIOUS
    <2>2. Waiting(u)
      OBVIOUS
    <2>3. Scanning(u)
      OBVIOUS
    <2>4. Roaming(u) /\ RoamId(u)
      OBVIOUS
    <2> QED
      BY <1>2, <2>1, <2>2, <2>3, <2>4
  <1>4. OnlyNets(u, v)
    BY <1>2, FlagUpdates
  <1> HIDE DEF v
  <1>5. Sound(v) /\ v.net = u.net
    BY <1>3, <1>4, OnlyNetsSound DEF OnlyNets
  <1>6. Good(w, v)
    BY <1>1, <1>5 DEF Good, ReportIs, SameLink, NetStep, Asked
  <1> QED
    BY <1>6 DEF u, v

\* station_neighbor_report_cb().
LEMMA ReportGood ==
    ASSUME NEW w, Sound(w), w.net.nr = "roam", NEW result \in {"report", "empty", "error"}
    PROVE  Good(w, NeighborReportCb([w EXCEPT !.net.nr = "none"], result))
  <1> DEFINE u == [w EXCEPT !.net.nr = "none"]
  <1>1. ReportIs(w, u, "none")
    BY ReportUpdate DEF Sound
  <1> HIDE DEF u
  <1>2. Bereft(u) /\ Has("low")
    BY <1>1 DEF Bereft, ReportIs, OnlyNet, SameLink, SameWatches, Sound, Interface, Placed,
                Waiting, Scanning, Roaming, ScanOwner, ReportOwner, DsOwner, PreauthOwner
  <1>3. u \in Worlds /\ ~u.st.timer /\ u.st.state # "roaming" /\ u.sc.roam = "none"
        /\ u.st.bss # 0 /\ u.st.preparing_roam
    BY <1>2 DEF Bereft, Placed, ScanOwner
  <1>4. \/ ScanIs(u, NeighborReportCb(u, result), "roam", "queued", TRUE)
        \/ Failed(u, NeighborReportCb(u, result))
    <2>1. \/ NeighborReportCb(u, result) = RoamScanKnown(u)
          \/ NeighborReportCb(u, result) = RoamScan(u, result = "empty")
      BY <1>3 DEF NeighborReportCb
    <2>2. ScanIs(u, RoamScan(u, result = "empty"), "roam", "queued", TRUE)
      BY <1>3, RoamScanFacts
    <2> QED
      BY <1>3, <2>1, <2>2, RoamScanKnownFacts
  <1>5. LaxGood(u, NeighborReportCb(u, result)) /\ RoamId(NeighborReportCb(u, result))
    BY <1>2, <1>4, BereftScan, BereftFailed
  <1>6. Good(u, NeighborReportCb(u, result))
    BY <1>5, LaxIsGood
  <1>7. Good(w, NeighborReportCb(u, result))
    BY <1>1, <1>6 DEF Good, ReportIs, OnlyNet, SameLink, SameWatches, NetStep, Asked
  <1> QED
    BY <1>7 DEF u

\* station_fast_transition_ds_cb().
LEMMA TransitionDsGood ==
    ASSUME NEW w, Sound(w), w.net.ds # 0, ~w.net.parsed
    PROVE  /\ Good(w, Move([w EXCEPT !.net.ds = 0], w.net.ds))
           /\ Good(w, RoamRetry([w EXCEPT !.net.parsed = TRUE]))
           /\ Good(w, RoamRetry([w EXCEPT !.net.ds = 0]))
  <1> DEFINE u == [w EXCEPT !.net.ds = 0]
             x == [w EXCEPT !.net.parsed = TRUE]
  <1>1. w \in Worlds
    BY DEF Sound
  <1>2. OnlyNet(w, u) /\ OnlyNet(w, x)
    BY <1>1, ZenonT(60) DEF OnlyNet, Worlds, Maybe
  <1>3. /\ SameLink(w.net, u.net) /\ u.net.disc = w.net.disc /\ u.net.ending = w.net.ending
        /\ u.net.nr = w.net.nr /\ u.net.ds = 0
        /\ u.net.parsed = w.net.parsed /\ u.net.preauth = w.net.preauth
    BY <1>1 DEF SameLink, Worlds
  <1>4. /\ SameLink(w.net, x.net) /\ x.net.disc = w.net.disc /\ x.net.ending = w.net.ending
        /\ x.net.nr = w.net.nr /\ x.net.ds = w.net.ds
        /\ x.net.parsed = TRUE /\ x.net.preauth = w.net.preauth
    BY <1>1 DEF SameLink, Worlds
  <1> HIDE DEF u, x
  <1>5. Bereft(u) /\ Has("low")
    BY <1>2, <1>3 DEF Bereft, OnlyNet, SameLink, SameWatches, Sound, Interface, Placed,
                      Waiting, Scanning, Roaming, ScanOwner, ReportOwner, DsOwner,
                      PreauthOwner
  <1>6. Bereft(x)
    BY <1>2, <1>4 DEF Bereft, OnlyNet, SameLink, SameWatches, Sound, Interface, Placed,
                      Waiting, Scanning, Roaming, ScanOwner, ReportOwner, DsOwner,
                      PreauthOwner
  <1>7. w.net.ds \in Bsses /\ NetworkOf[w.net.ds] = u.st.network
    BY <1>2 DEF OnlyNet, Sound, Roaming, DsOwner, Worlds, Maybe
  <1>8. Good(u, Move(u, w.net.ds))
    BY <1>5, <1>7, BereftMoved, LaxIsGood
  <1>9. Good(u, RoamRetry(u))
    <2>1. Retried(u, RoamRetry(u))
      BY <1>5, RoamRetryFacts DEF Bereft
    <2> QED
      BY <1>5, <2>1, BereftRetry, LaxIsGood
  <1>10. Good(x, RoamRetry(x))
    <2>1. Retried(x, RoamRetry(x))
      BY <1>6, RoamRetryFacts DEF Bereft
    <2> QED
      BY <1>5, <1>6, <2>1, BereftRetry, LaxIsGood
  <1>11. Good(w, Move(u, w.net.ds)) /\ Good(w, RoamRetry(u))
    BY <1>2, <1>3, <1>8, <1>9 DEF Good, OnlyNet, SameLink, SameWatches, NetStep, Asked
  <1>12. Good(w, RoamRetry(x))
    BY <1>2, <1>4, <1>10 DEF Good, OnlyNet, SameLink, SameWatches, NetStep, Asked
  <1> QED
    BY <1>11, <1>12 DEF u, x

\* station_preauthenticate_cb().
LEMMA PreauthGood ==
    ASSUME NEW w, Sound(w), w.net.preauth # 0
    PROVE  /\ ~w.st.preparing_roam => Good(w, [w EXCEPT !.net.preauth = 0])
           /\ w.st.preparing_roam =>
                 /\ Good(w, Move([w EXCEPT !.net.preauth = 0], w.net.preauth))
                 /\ Good(w, RoamFailed([w EXCEPT !.net.preauth = 0]))
  <1> DEFINE u == [w EXCEPT !.net.preauth = 0]
  <1>1. w \in Worlds
    BY DEF Sound
  <1>2. OnlyNet(w, u)
    BY <1>1 DEF OnlyNet, Worlds, Maybe
  <1>3. /\ SameLink(w.net, u.net) /\ u.net.disc = w.net.disc /\ u.net.ending = w.net.ending
        /\ u.net.nr = w.net.nr /\ u.net.ds = w.net.ds
        /\ u.net.parsed = w.net.parsed /\ u.net.preauth = 0
    BY <1>1 DEF SameLink, Worlds
  <1> HIDE DEF u
  <1>4. CASE ~w.st.preparing_roam
    <2>1. u \in Worlds
      BY <1>2 DEF OnlyNet
    <2>2. Sound(u)
      <3> USE <1>2, <1>3, <1>4 DEF SamePlace, SameCalls, SameRoam, SameQuick, SameRoamScan,
                                   SameDbus, SameHidden, SamePeriodic, SameScans, OnlyNet,
                                   SameLink, SameWatches, Sound, Lax, Interface, Placed,
                                   Waiting, Scanning, Roaming, RoamId, ScanOwner, ReportOwner,
                                   DsOwner, PreauthOwner, Idle, Autoconnecting
      <3>1. Interface(u) /\ Placed(u)
        OBVIOUS
      <3>2. Waiting(u)
        OBVIOUS
      <3>3. Scanning(u)
        OBVIOUS
      <3>4. Roaming(u) /\ RoamId(u)
        OBVIOUS
      <3> QED
        BY <2>1, <3>1, <3>2, <3>3, <3>4
    <2>3. Good(w, u)
      BY <1>3, <2>2 DEF Good, SameLink, NetStep, Asked
    <2> QED
      BY <1>4, <2>3 DEF u
  <1>5. CASE w.st.preparing_roam
    <2>1. Bereft(u) /\ (Has("low") \/ ~u.st.id.roam)
      BY <1>2, <1>3, <1>5 DEF Bereft, OnlyNet, SameLink, SameWatches, Sound, Interface,
                              Placed, Waiting, Scanning, Roaming, RoamId, ScanOwner,
                              ReportOwner, DsOwner, PreauthOwner
    <2>2. w.net.preauth \in Bsses /\ NetworkOf[w.net.preauth] = u.st.network
      BY <1>2, <1>5 DEF OnlyNet, Sound, Roaming, PreauthOwner, Worlds, Maybe
    <2>3. Good(u, Move(u, w.net.preauth))
      BY <2>1, <2>2, BereftMoved, LaxIsGood
    <2>4. Good(u, RoamFailed(u))
      <3>1. Failed(u, RoamFailed(u))
        BY <2>1, RoamFailedFacts DEF Bereft, ScanOwner
      <3> QED
        BY <2>1, <3>1, BereftFailed, LaxIsGood
    <2>5. Good(w, Move(u, w.net.preauth)) /\ Good(w, RoamFailed(u))
      BY <1>2, <1>3, <2>3, <2>4 DEF Good, OnlyNet, SameLink, SameWatches, NetStep, Asked
    <2> QED
      BY <1>5, <2>5 DEF u
  <1> QED
    BY <1>4, <1>5

-----------------------------------------------------------------------------
(* Signals, timers, and other events. *)

\* station_low_rssi().
LEMMA LowRssiGood ==
    ASSUME NEW w, Sound(w), Calm, Has("low"), w.net.up # 0, ~w.st.signal_low
    PROVE  LET u == [w EXCEPT !.st.signal_low = TRUE]
           IN  Good(w, u) /\ (~w.st.preparing_roam => Good(w, RoamTimeoutRearm(u)))
  <1> DEFINE u == [w EXCEPT !.st.signal_low = TRUE]
  <1>1. w \in Worlds
    BY DEF Sound
  <1>2. w.st.state = "connected" /\ ~w.st.timer
    BY CalmFacts, StateNames DEF Sound, Interface, Placed, Roaming, Worlds, States, Idle,
                                 Autoconnecting
  <1>u1. u.net = w.net /\ u.sc = w.sc /\ u.st.id = w.st.id
    BY <1>1 DEF Worlds
  <1>u2. u \in Worlds
    BY <1>1 DEF Worlds
  <1>u3. SamePlace(w, u) /\ SameCalls(w, u)
    BY <1>1 DEF Worlds, SamePlace, SameCalls
  <1>u4. /\ u.st.preparing_roam = w.st.preparing_roam /\ u.st.signal_low = TRUE
          /\ u.st.timer = w.st.timer
    BY <1>1 DEF Worlds
  <1> HIDE DEF u
  <1>3. Sound(u)
    <2> USE <1>2, <1>u1, <1>u3, <1>u4 DEF SamePlace, SameCalls, SameRoam, SameQuick,
                                          SameRoamScan, SameDbus, SameHidden, SamePeriodic,
                                          SameScans, OnlyNet, SameLink, SameWatches, Sound,
                                          Lax, Interface, Placed, Waiting, Scanning, Roaming,
                                          RoamId, ScanOwner, ReportOwner, DsOwner,
                                          PreauthOwner, Idle, Autoconnecting
    <2>1. Interface(u) /\ Placed(u)
      OBVIOUS
    <2>2. Waiting(u)
      OBVIOUS
    <2>3. Scanning(u)
      OBVIOUS
    <2>4. Roaming(u) /\ RoamId(u)
      OBVIOUS
    <2> QED
      BY <1>u2, <2>1, <2>2, <2>3, <2>4
  <1>4. Good(w, u)
    BY <1>3, <1>u1, QuietStep
  <1>5. ASSUME ~w.st.preparing_roam
        PROVE  Good(w, RoamTimeoutRearm(u))
    <2> DEFINE v == RoamTimeoutRearm(u)
    <2>1. Rearmed(u, v)
      BY <1>2, <1>u2, <1>u4, RearmFacts
    <2> HIDE DEF v
    <2>2. v \in Worlds /\ v.net = w.net
      BY <1>u1, <2>1 DEF Rearmed
    <2>3. w.st.preparing_roam = FALSE
      BY <1>1, <1>5 DEF Worlds
    <2>4. Sound(v)
      <3> USE <1>2, <1>5, <1>u1, <1>u3, <1>u4, <2>1, <2>3
         DEF Rearmed, SamePlace, SameCalls, SameRoam, SameQuick, SameRoamScan, SameDbus,
             SameHidden, SamePeriodic, SameScans, OnlyNet, SameLink, SameWatches, Sound, Lax,
             Interface, Placed, Waiting, Scanning, Roaming, RoamId, ScanOwner, ReportOwner,
             DsOwner, PreauthOwner, Idle, Autoconnecting
      <3>1. Interface(v) /\ Placed(v)
        OBVIOUS
      <3>2. Waiting(v)
        OBVIOUS
      <3>3. Scanning(v)
        OBVIOUS
      <3>4. Roaming(v) /\ RoamId(v)
        OBVIOUS
      <3> QED
        BY <2>2, <3>1, <3>2, <3>3, <3>4
    <2> QED
      BY <2>2, <2>4, QuietStep DEF v
  <1> QED
    BY <1>4, <1>5 DEF u

\* station_ok_rssi().
LEMMA OkRssiGood ==
    ASSUME NEW w, Sound(w)
    PROVE  Good(w, [w EXCEPT !.st = [@ EXCEPT !.timer = FALSE, !.signal_low = FALSE]])
  <1> DEFINE u == [w EXCEPT !.st = [@ EXCEPT !.timer = FALSE, !.signal_low = FALSE]]
  <1>1. w \in Worlds
    BY DEF Sound
  <1>u1. u.net = w.net /\ u.sc = w.sc /\ u.st.id = w.st.id
    BY <1>1 DEF Worlds
  <1>u2. u \in Worlds
    BY <1>1, ZenonT(60) DEF Worlds
  <1>u3. SamePlace(w, u) /\ SameCalls(w, u)
    BY <1>1 DEF Worlds, SamePlace, SameCalls
  <1>u4. /\ u.st.preparing_roam = w.st.preparing_roam /\ u.st.signal_low = FALSE
          /\ u.st.timer = FALSE
    BY <1>1 DEF Worlds
  <1> HIDE DEF u
  <1>2. Sound(u)
    <2> USE <1>u1, <1>u3, <1>u4 DEF SamePlace, SameCalls, SameRoam, SameQuick, SameRoamScan,
                                    SameDbus, SameHidden, SamePeriodic, SameScans, OnlyNet,
                                    SameLink, SameWatches, Sound, Lax, Interface, Placed,
                                    Waiting, Scanning, Roaming, RoamId, ScanOwner,
                                    ReportOwner, DsOwner, PreauthOwner, Idle, Autoconnecting
    <2>1. Interface(u) /\ Placed(u)
      OBVIOUS
    <2>2. Waiting(u)
      OBVIOUS
    <2>3. Scanning(u)
      OBVIOUS
    <2>4. Roaming(u) /\ RoamId(u)
      OBVIOUS
    <2> QED
      BY <1>u2, <2>1, <2>2, <2>3, <2>4
  <1>3. Good(w, u)
    BY <1>2, <1>u1, QuietStep
  <1> QED
    BY <1>3 DEF u

\* station_roam_trigger_cb().
LEMMA RoamTriggerGood ==
    ASSUME NEW w, Sound(w), w.st.timer
    PROVE  LET u == [w EXCEPT !.st = [@ EXCEPT !.timer = FALSE, !.preparing_roam = TRUE]]
               asked == NeighborReportReq(u, "roam")
           IN  /\ Good(w, RoamScan(u, FALSE))
               /\ asked # u => Good(w, asked)
               /\ Good(w, RoamScanKnown(u))
               /\ w.st.bss # 0
  <1> DEFINE u == [w EXCEPT !.st = [@ EXCEPT !.timer = FALSE, !.preparing_roam = TRUE]]
             asked == NeighborReportReq(u, "roam")
  <1>1. w \in Worlds
    BY DEF Sound
  <1>u1. u.net = w.net /\ u.sc = w.sc /\ u.st.id = w.st.id
    BY <1>1 DEF Worlds
  <1>u2. u \in Worlds
    BY <1>1, ZenonT(60) DEF Worlds
  <1>u3. SamePlace(w, u) /\ SameCalls(w, u)
    BY <1>1 DEF Worlds, SamePlace, SameCalls
  <1>u4. /\ u.st.preparing_roam = TRUE /\ u.st.signal_low = w.st.signal_low
          /\ u.st.timer = FALSE
    BY <1>1 DEF Worlds
  <1> HIDE DEF u
  <1>2. Bereft(u) /\ Has("low") /\ w.st.bss # 0
    BY <1>u1, <1>u2, <1>u3, <1>u4 DEF Bereft, SamePlace, SameCalls, SameRoam, SameQuick,
                                      SameRoamScan, SameDbus, SameHidden, SamePeriodic,
                                      SameScans, Sound, Interface, Placed, Waiting, Scanning,
                                      Roaming, ScanOwner, ReportOwner, DsOwner, PreauthOwner
  <1>3. ScanIs(u, RoamScan(u, FALSE), "roam", "queued", TRUE)
    BY <1>u2, RoamScanFacts
  <1>4. Good(u, RoamScan(u, FALSE))
    BY <1>2, <1>3, BereftScan, LaxIsGood
  <1>5. \/ ScanIs(u, RoamScanKnown(u), "roam", "queued", TRUE)
        \/ Failed(u, RoamScanKnown(u))
    BY <1>2, RoamScanKnownFacts DEF Bereft, Placed, ScanOwner
  <1>6. Good(u, RoamScanKnown(u))
    BY <1>2, <1>5, BereftScan, BereftFailed, LaxIsGood
  <1>7. ASSUME asked # u
        PROVE  Good(u, asked)
    <2>1. ReportIs(u, asked, "roam") /\ u.net.up # 0
      BY <1>7, <1>u2, RequestFacts
    <2> HIDE DEF asked
    <2>2. asked \in Worlds
      BY <2>1 DEF ReportIs, OnlyNet
    <2>3. Sound(asked)
      <3> USE <1>2, <2>1 DEF Bereft, ReportIs, SamePlace, SameCalls, SameRoam, SameQuick,
                             SameRoamScan, SameDbus, SameHidden, SamePeriodic, SameScans,
                             OnlyNet, SameLink, SameWatches, Sound, Lax, Interface, Placed,
                             Waiting, Scanning, Roaming, RoamId, ScanOwner, ReportOwner,
                             DsOwner, PreauthOwner, Idle, Autoconnecting
      <3>1. Interface(asked) /\ Placed(asked)
        OBVIOUS
      <3>2. Waiting(asked)
        OBVIOUS
      <3>3. Scanning(asked)
        OBVIOUS
      <3>4. Roaming(asked) /\ RoamId(asked)
        OBVIOUS
      <3> QED
        BY <2>2, <3>1, <3>2, <3>3, <3>4
    <2> QED
      BY <2>1, <2>3 DEF Good, ReportIs, SameLink, NetStep, Asked
  <1>8. u.net = w.net /\ SamePlace(w, u) /\ SameCalls(w, u)
    BY <1>u1, <1>u3
  <1>9. /\ Good(w, RoamScan(u, FALSE)) /\ Good(w, RoamScanKnown(u))
        /\ asked # u => Good(w, asked)
    BY <1>4, <1>6, <1>7, <1>8, AfterSame
  <1> QED
    BY <1>2, <1>9 DEF u

\* station_ap_directed_roam().
LEMMA ApDirectedGood ==
    ASSUME NEW w, Sound(w), Calm, Has("btm"), ~w.st.preparing_roam, w.st.state # "roaming",
           w.net.up # 0, w.st.bss # 0
    PROVE  LET u == [w EXCEPT !.st = [@ EXCEPT !.ap_directed_roaming = TRUE,
                                               !.preparing_roam = TRUE, !.timer = FALSE]]
           IN  Good(w, NeighborReportCb(u, "report")) /\ Good(w, RoamScan(u, TRUE))
  <1> DEFINE u == [w EXCEPT !.st = [@ EXCEPT !.ap_directed_roaming = TRUE,
                                             !.preparing_roam = TRUE, !.timer = FALSE]]
  <1>1. w \in Worlds
    BY DEF Sound
  <1>2. w.st.state = "connected"
    BY <1>1, CalmFacts DEF Sound, Interface, Placed, Worlds, States, Idle, Autoconnecting
  <1>u1. u.net = w.net /\ u.sc = w.sc /\ u.st.id = w.st.id
    BY <1>1 DEF Worlds
  <1>u2. u \in Worlds
    BY <1>1 DEF Worlds
  <1>u3. SamePlace(w, u) /\ SameCalls(w, u)
    BY <1>1 DEF Worlds, SamePlace, SameCalls
  <1>u4. /\ u.st.preparing_roam = TRUE /\ u.st.signal_low = w.st.signal_low
          /\ u.st.timer = FALSE
    BY <1>1 DEF Worlds
  <1> HIDE DEF u
  <1>3. Bereft(u)
    BY <1>2, <1>u1, <1>u2, <1>u3, <1>u4 DEF Bereft, SamePlace, SameCalls, SameRoam, SameQuick,
                                            SameRoamScan, SameDbus, SameHidden, SamePeriodic,
                                            SameScans, Sound, Interface, Placed, Waiting,
                                            Scanning, Roaming, ScanOwner, ReportOwner,
                                            DsOwner, PreauthOwner
  <1>4. u.net = w.net /\ SamePlace(w, u) /\ SameCalls(w, u)
    BY <1>u1, <1>u3
  <1>5. NeighborReportCb(u, "report") = RoamScan(u, FALSE)
    <2>1. ("report" = "empty") = FALSE
      OBVIOUS
    <2>2. NeighborReportCb(u, "report") = RoamScan(u, "report" = "empty")
      BY <1>u3, <1>u4 DEF NeighborReportCb, SamePlace
    <2> QED
      BY <2>1, <2>2
  <1>6. ASSUME NEW full \in BOOLEAN
        PROVE  Good(w, RoamScan(u, full))
    <2>1. ScanIs(u, RoamScan(u, full), "roam", "queued", TRUE)
      BY <1>u2, RoamScanFacts
    <2>2. Good(u, RoamScan(u, full))
      BY <1>3, <2>1, BereftScan, LaxIsGood
    <2> QED
      BY <1>4, <2>2, AfterSame
  <1>7. Good(w, RoamScan(u, TRUE)) /\ Good(w, RoamScan(u, FALSE))
    BY <1>6
  <1> QED
    BY <1>5, <1>7 DEF u

\* station_netconfig_event_handler().
LEMMA NetconfigGood ==
    ASSUME NEW w, Sound(w), w.st.netconfig
    PROVE  Good(w, EnterState(NetconfigReset(w), "connected"))
  <1> DEFINE u == [w EXCEPT !.st.netconfig = FALSE]
             v == EnterState(u, "connected")
  <1>1. w \in Worlds /\ NetconfigReset(w) = u
    BY DEF Sound, NetconfigReset
  <1>u1. u.net = w.net /\ u.sc = w.sc /\ u.st.id = w.st.id
    BY <1>1 DEF Worlds
  <1>u2. u \in Worlds
    BY <1>1 DEF Worlds
  <1>u3. SameCalls(w, u) /\ SameRoam(w, u)
    BY <1>1 DEF Worlds, SameCalls, SameRoam
  <1>u4. /\ u.st.state = w.st.state /\ u.st.network = w.st.network /\ u.st.bss = w.st.bss
          /\ u.st.netconfig = FALSE
    BY <1>1 DEF Worlds
  <1> HIDE DEF u
  <1>2. Off(u, v, "connected")
    BY <1>u2, EnterOff
  <1> HIDE DEF v
  <1>3. v \in Worlds /\ v.net = w.net
    BY <1>2, <1>u1 DEF Off, EnterFrame
  <1>4. Sound(v)
    <2> USE <1>2, <1>u1, <1>u3, <1>u4 DEF Off, EnterFrame, SamePlace, SameCalls, SameRoam,
                                          SameQuick, SameRoamScan, SameDbus, SameHidden,
                                          SamePeriodic, SameScans, OnlyNet, SameLink,
                                          SameWatches, Sound, Lax, Interface, Placed, Waiting,
                                          Scanning, Roaming, RoamId, ScanOwner, ReportOwner,
                                          DsOwner, PreauthOwner, Idle, Autoconnecting
    <2>1. Interface(v) /\ Placed(v)
      OBVIOUS
    <2>2. Waiting(v)
      OBVIOUS
    <2>3. Scanning(v)
      OBVIOUS
    <2>4. Roaming(v) /\ RoamId(v)
      OBVIOUS
    <2> QED
      BY <1>3, <2>1, <2>2, <2>3, <2>4
  <1>5. Good(w, v)
    BY <1>3, <1>4, QuietStep
  <1> QED
    BY <1>1, <1>5 DEF v

-----------------------------------------------------------------------------
(* Answers of the interface. *)

\* A connection is up, and its caller is told.
CameUp(w, v) ==
    /\ v \in Worlds
    /\ v.net.conn = 0 /\ v.net.up = w.net.conn /\ v.net.cb = w.net.cb
    /\ v.net.disc = w.net.disc /\ v.net.ending = w.net.ending /\ v.net.ds = w.net.ds
    /\ v.net.parsed = w.net.parsed /\ v.net.preauth = w.net.preauth
    /\ v.net.nr = w.net.nr \/ v.net.nr = "early"

LEMMA UpUpdate ==
    ASSUME NEW w \in Worlds
    PROVE  LET u == [w EXCEPT !.net = [@ EXCEPT !.conn = 0, !.up = w.net.conn]]
           IN  CameUp(w, u) /\ OnlyNet(w, u)
  <1> DEFINE u == [w EXCEPT !.net = [@ EXCEPT !.conn = 0, !.up = w.net.conn]]
  <1>1. u \in Worlds
    BY DEF Worlds, Maybe
  <1>2. u.st = w.st /\ u.sc = w.sc
    BY DEF Worlds
  <1>3. /\ u.net.conn = 0 /\ u.net.up = w.net.conn /\ u.net.cb = w.net.cb
        /\ u.net.disc = w.net.disc /\ u.net.ending = w.net.ending /\ u.net.ds = w.net.ds
        /\ u.net.parsed = w.net.parsed /\ u.net.preauth = w.net.preauth
        /\ u.net.nr = w.net.nr
    BY DEF Worlds
  <1> QED
    BY <1>1, <1>2, <1>3 DEF CameUp, OnlyNet

\* station_connect_cb(NETDEV_RESULT_OK).
LEMMA ConnectOkGood ==
    ASSUME NEW w, Sound(w), Calm, w.net.conn # 0, ~w.net.ending, w.net.cb = "connect"
    PROVE  Good(w, ConnectOk([w EXCEPT !.net = [@ EXCEPT !.conn = 0, !.up = w.net.conn]]))
  <1> DEFINE u == [w EXCEPT !.net = [@ EXCEPT !.conn = 0, !.up = w.net.conn]]
             told == ConnectReply(u, "ok")
             asks == NeighborReportReq(told, "early")
             free == [asks EXCEPT !.nets.blacklist = @ \ {u.st.bss}]
             on == NetworkConnected(free)
             set == [on EXCEPT !.st.netconfig = TRUE]
             up == EnterState(on, "connected")
  <1>1. CameUp(w, u) /\ OnlyNet(w, u)
    BY UpUpdate DEF Sound
  <1>2. u.st.bss # 0 => ConnectOk(u) = IF Has("netconfig") THEN set ELSE up
    BY DEF ConnectOk
  <1> HIDE DEF u
  <1>3. u \in Worlds
    BY <1>1 DEF OnlyNet
  <1>4. /\ u.st.bss # 0 /\ u.st.network \in Networks /\ u.net.up = u.st.bss
        /\ u.st.state \in {"connecting", "roaming"}
        /\ Has("netconfig") => u.st.state = "connecting"
    <2>1. w \in Worlds
      BY DEF Sound
    <2>2. /\ w.st.bss # 0 /\ w.net.conn = w.st.bss /\ w.st.network # 0
          /\ w.st.state \in {"connecting", "roaming"}
          /\ Has("netconfig") => w.st.state = "connecting"
      BY <2>1, CalmFacts DEF Sound, Interface, Placed, Worlds, States, Idle, Autoconnecting
    <2>3. w.st.network \in Networks
      BY <2>1, <2>2 DEF Worlds
    <2> QED
      BY <2>2, <2>3, <1>1 DEF CameUp, OnlyNet
  <1>5. Replied1(u, told)
    BY <1>3, ConnectReplyFacts
  <1> HIDE DEF told
  <1>6. told \in Worlds
    BY <1>5 DEF Replied1
  <1>7. asks = told \/ ReportIs(told, asks, "early")
    BY <1>6, RequestFacts
  <1> HIDE DEF asks
  <1>8. asks \in Worlds
    BY <1>6, <1>7 DEF ReportIs, OnlyNet
  <1>9. OnlyNets(asks, free)
    BY <1>8, BlacklistUpdate
  <1> HIDE DEF free
  <1>10. free.st.network \in Networks /\ free \in Worlds
    BY <1>4, <1>5, <1>7, <1>9 DEF Replied1, ReportIs, OnlyNet, OnlyNets, SamePlace
  <1>11. OnlyNets(free, on)
    BY <1>10, ConnectedNets
  <1> HIDE DEF on
  <1>12. OnlyNets(asks, on)
    BY <1>9, <1>11, OnlyNetsTrans
  <1>13. CameUp(w, on)
    BY <1>1, <1>5, <1>7, <1>12 DEF CameUp, Replied1, ReportIs, SameLink, OnlyNets
  <1>14. /\ SamePlace(w, on) /\ SameRoam(w, on) /\ SameScans(w, on)
         /\ on.st.connect_pending = FALSE
         /\ on.st.autoconnect = w.st.autoconnect
         /\ on.st.connect_pending_bss = w.st.connect_pending_bss
         /\ on.st.pending_freed = w.st.pending_freed
         /\ on.st.disconnect_pending = w.st.disconnect_pending
         /\ on.st.scan_pending = w.st.scan_pending
         /\ on.st.hidden_pending = w.st.hidden_pending
         /\ on.st.subset = w.st.subset /\ on.st.fault = w.st.fault
    BY <1>1, <1>5, <1>7, <1>12 DEF OnlyNet, Replied1, ReportIs, OnlyNets, SamePlace,
                                   SameCalls, SameRoam, SameQuick, SameRoamScan, SameDbus,
                                   SameHidden, SamePeriodic, SameScans
  <1>15. u.st = w.st /\ on \in Worlds
    BY <1>1, <1>13 DEF OnlyNet, CameUp
  <1>16. CASE Has("netconfig")
    <2>s1. set.net = on.net /\ set.sc = on.sc /\ set.st.id = on.st.id
      BY <1>15 DEF Worlds
    <2>s2. set \in Worlds
      BY <1>15 DEF Worlds
    <2>s3. SameCalls(on, set) /\ SameRoam(on, set)
      BY <1>15 DEF Worlds, SameCalls, SameRoam
    <2>s4. /\ set.st.state = on.st.state /\ set.st.network = on.st.network
            /\ set.st.bss = on.st.bss /\ set.st.netconfig = TRUE
      BY <1>15 DEF Worlds
    <2> HIDE DEF set
    <2>1. Sound(set)
      <3> USE <1>4, <1>13, <1>14, <1>15, <1>16, <2>s1, <2>s3, <2>s4
         DEF CameUp, SamePlace, SameCalls, SameRoam, SameQuick, SameRoamScan, SameDbus,
             SameHidden, SamePeriodic, SameScans, OnlyNet, SameLink, SameWatches, Sound, Lax,
             Interface, Placed, Waiting, Scanning, Roaming, RoamId, ScanOwner, ReportOwner,
             DsOwner, PreauthOwner, Idle, Autoconnecting
      <3>1. Interface(set) /\ Placed(set)
        OBVIOUS
      <3>2. Waiting(set)
        OBVIOUS
      <3>3. Scanning(set)
        OBVIOUS
      <3>4. Roaming(set) /\ RoamId(set)
        OBVIOUS
      <3> QED
        BY <2>s2, <3>1, <3>2, <3>3, <3>4
    <2>2. NetStep(w.net, set.net) /\ Asked(w, set)
      BY <1>13, <2>s1 DEF CameUp, NetStep, Asked, Sound, Interface
    <2>3. Good(w, set)
      BY <2>1, <2>2 DEF Good
    <2> QED
      BY <1>2, <1>4, <1>16, <2>3 DEF u
  <1>17. CASE ~Has("netconfig")
    <2>1. Off(on, up, "connected")
      BY <1>15, EnterOff
    <2> HIDE DEF up
    <2>2. up \in Worlds /\ up.net = on.net
      BY <2>1 DEF Off, EnterFrame
    <2>3. Sound(up)
      <3> USE <1>4, <1>13, <1>14, <1>15, <1>17, <2>1
         DEF CameUp, Off, EnterFrame, SamePlace, SameCalls, SameRoam, SameQuick, SameRoamScan,
             SameDbus, SameHidden, SamePeriodic, SameScans, OnlyNet, SameLink, SameWatches,
             Sound, Lax, Interface, Placed, Waiting, Scanning, Roaming, RoamId, ScanOwner,
             ReportOwner, DsOwner, PreauthOwner, Idle, Autoconnecting
      <3>1. Interface(up) /\ Placed(up)
        OBVIOUS
      <3>2. Waiting(up)
        OBVIOUS
      <3>3. Scanning(up)
        OBVIOUS
      <3>4. Roaming(up) /\ RoamId(up)
        OBVIOUS
      <3> QED
        BY <2>2, <3>1, <3>2, <3>3, <3>4
    <2>4. NetStep(w.net, up.net) /\ Asked(w, up)
      BY <1>13, <2>2 DEF CameUp, NetStep, Asked, Sound, Interface
    <2>5. Good(w, up)
      BY <2>3, <2>4 DEF Good
    <2> QED
      BY <1>2, <1>4, <1>17, <2>5 DEF u
  <1> QED
    BY <1>16, <1>17

\* station_reassociate_cb() and station_fast_transition_cb(), of a roam that succeeded.
LEMMA RoamOkGood ==
    ASSUME NEW w, Sound(w), Calm, w.net.conn # 0, ~w.net.ending, w.net.cb = "roam"
    PROVE  Good(w, RoamCb([w EXCEPT !.net = [@ EXCEPT !.conn = 0, !.up = w.net.conn]], "ok"))
  <1> DEFINE u == [w EXCEPT !.net = [@ EXCEPT !.conn = 0, !.up = w.net.conn]]
             again == IF u.st.signal_low THEN RoamTimeoutRearm(u) ELSE u
             on == [again EXCEPT !.st = [@ EXCEPT !.roam_scan_full = FALSE,
                                                  !.roam_freqs = FALSE]]
             asks == NeighborReportReq(on, "early")
             up == EnterState(asks, "connected")
  <1>1. CameUp(w, u) /\ OnlyNet(w, u)
    BY UpUpdate DEF Sound
  <1>2. u.st.bss # 0 /\ u.st.state = "roaming" => RoamCb(u, "ok") = up
    BY DEF RoamCb, Roamed
  <1> HIDE DEF u
  <1>3. u \in Worlds /\ u.st = w.st /\ u.sc = w.sc
    BY <1>1 DEF OnlyNet
  <1>4. w.st.bss # 0 /\ w.net.conn = w.st.bss /\ w.st.state = "roaming" /\ ~w.st.timer
    <2>1. w \in Worlds
      BY DEF Sound
    <2> QED
      BY <2>1, CalmFacts DEF Sound, Interface, Placed, Roaming, Worlds, States, Idle,
                             Autoconnecting
  <1>5. /\ again \in Worlds /\ again.net = u.net /\ SameScans(w, again)
        /\ SamePlace(w, again) /\ SameCalls(w, again)
        /\ again.st.preparing_roam = w.st.preparing_roam
        /\ again.st.signal_low = w.st.signal_low
        /\ again.st.timer <=> w.st.signal_low
    <2>1. u.st.signal_low => Rearmed(u, again)
      BY <1>3, <1>4, RearmFacts
    <2>2. ~u.st.signal_low => again = u
      OBVIOUS
    <2> HIDE DEF again
    <2> QED
      BY <1>3, <1>4, <2>1, <2>2 DEF Rearmed, SamePlace, SameCalls, SameRoam, SameQuick,
                                    SameRoamScan, SameDbus, SameHidden, SamePeriodic,
                                    SameScans
  <1> HIDE DEF again
  <1>6. again \in Worlds
    BY <1>5
  <1>o1. on.net = again.net /\ on.sc = again.sc /\ on.st.id = again.st.id
    BY <1>6 DEF Worlds
  <1>o2. on \in Worlds
    BY <1>6 DEF Worlds
  <1>o3. SamePlace(again, on) /\ SameCalls(again, on) /\ SameRoam(again, on)
    BY <1>6 DEF Worlds, SamePlace, SameCalls, SameRoam
  <1> HIDE DEF on
  <1>7. asks = on \/ ReportIs(on, asks, "early")
    BY <1>o2, RequestFacts
  <1> HIDE DEF asks
  <1>8. asks \in Worlds /\ asks.st = on.st /\ asks.sc = on.sc
    BY <1>o2, <1>7 DEF ReportIs, OnlyNet
  <1>9. CameUp(w, asks)
    BY <1>1, <1>5, <1>7, <1>8, <1>o1 DEF CameUp, ReportIs, SameLink
  <1>10. Off(asks, up, "connected")
    BY <1>8, EnterOff
  <1> HIDE DEF up
  <1>11. up \in Worlds /\ up.net = asks.net
    BY <1>10 DEF Off, EnterFrame
  <1>12. Sound(up)
    <2> USE <1>4, <1>5, <1>o1, <1>o3, <1>8, <1>9, <1>10
       DEF CameUp, Off, EnterFrame, SamePlace, SameCalls, SameRoam, SameQuick, SameRoamScan,
           SameDbus, SameHidden, SamePeriodic, SameScans, OnlyNet, SameLink, SameWatches,
           Sound, Lax, Interface, Placed, Waiting, Scanning, Roaming, RoamId, ScanOwner,
           ReportOwner, DsOwner, PreauthOwner, Idle, Autoconnecting
    <2>1. Interface(up) /\ Placed(up)
      OBVIOUS
    <2>2. Waiting(up)
      OBVIOUS
    <2>3. Scanning(up)
      OBVIOUS
    <2>4. Roaming(up) /\ RoamId(up)
      OBVIOUS
    <2> QED
      BY <1>11, <2>1, <2>2, <2>3, <2>4
  <1>13. NetStep(w.net, up.net) /\ Asked(w, up)
    BY <1>9, <1>11 DEF CameUp, NetStep, Asked, Sound, Interface
  <1>14. Good(w, up)
    BY <1>12, <1>13 DEF Good
  <1> QED
    BY <1>2, <1>3, <1>4, <1>14 DEF u

\* station_connect_cb() with another result: the next BSS, or the end.
LEMMA ConnectFailsGood ==
    ASSUME NEW w, Sound(w), w.net.conn # 0, w.net.cb = "connect",
           NEW result \in {"temporary", "refused", "handshake", "badpass"}
    PROVE  Good(w, ConnectFailed(NetFree(w), result))
  <1> DEFINE u == NetFree(w)
             listed == Blacklist(u, result)
             next == Select(listed, u.st.network, FALSE)
             told == ConnectReply(listed, result)
             lost == NetworkConnectFailed(told, result)
             on == ConnectNetwork(listed, next)
  <1>1. /\ w.st.bss # 0 /\ w.net.conn = w.st.bss /\ w.net.nr # "roam" /\ w.net.disc = "none"
        /\ w.st.state \in {"connecting", "roaming"} /\ ~w.st.preparing_roam /\ w \in Worlds
        /\ w.st.network # 0
    <2>1. w \in Worlds
      BY DEF Sound
    <2> QED
      BY <2>1 DEF Sound, Interface, Placed, Roaming, ReportOwner, Worlds, States, Idle,
                  Autoconnecting
  <1>2. Freed(w, u)
    BY <1>1, NetFreeFacts
  <1>3. \/ ConnectFailed(u, result) = on /\ next # 0
        \/ ConnectFailed(u, result) = Disassociated(lost)
        \/ u.st.bss = 0
    BY DEF ConnectFailed
  <1> HIDE DEF u
  <1>4. u \in Worlds /\ u.st = w.st /\ u.sc = w.sc /\ u.st.bss \in Bsses
        /\ u.st.network \in Networks
    BY <1>1, <1>2 DEF Freed, OnlyNet, Worlds, Maybe
  <1>5. OnlyNets(u, listed)
    BY <1>4, BlacklistFacts
  <1> HIDE DEF listed
  <1>6. CASE ConnectFailed(u, result) = on /\ next # 0
    <2>1. next \in Bsses
      BY <1>5, <1>6, SelectFacts DEF OnlyNets, Maybe
    <2> HIDE DEF next
    <2>2. Connects(listed, on, next)
      BY <1>5, <2>1, ConnectNetworkFacts DEF OnlyNets
    <2> HIDE DEF on
    <2>3. on \in Worlds /\ NetworkOf[next] # 0
      BY <2>1, <2>2, NetworkFacts DEF Connects
    <2>4. Sound(on)
      <3> USE <1>1, <1>2, <1>4, <1>5, <1>6, <2>2, <2>3
         DEF Freed, OnlyNets, Connects, SamePlace, SameCalls, SameRoam, SameQuick,
             SameRoamScan, SameDbus, SameHidden, SamePeriodic, SameScans, OnlyNet, SameLink,
             SameWatches, Sound, Lax, Interface, Placed, Waiting, Scanning, Roaming, RoamId,
             ScanOwner, ReportOwner, DsOwner, PreauthOwner, Idle, Autoconnecting
      <3>1. Interface(on) /\ Placed(on)
        OBVIOUS
      <3>2. Waiting(on)
        OBVIOUS
      <3>3. Scanning(on)
        OBVIOUS
      <3>4. Roaming(on) /\ RoamId(on)
        OBVIOUS
      <3> QED
        BY <2>3, <3>1, <3>2, <3>3, <3>4
    <2>5. NetStep(w.net, on.net) /\ Asked(w, on)
      BY <1>1, <1>2, <1>5, <2>1, <2>2 DEF Freed, OnlyNets, Connects, SameWatches, NetStep,
                                          Asked, Maybe
    <2>6. Good(w, on)
      BY <2>4, <2>5 DEF Good
    <2> QED
      BY <1>6, <2>6 DEF u
  <1>7. CASE ConnectFailed(u, result) = Disassociated(lost)
    <2>1. Replied1(listed, told)
      BY <1>5, ConnectReplyFacts DEF OnlyNets
    <2> HIDE DEF told
    <2>2. told.st.network \in Networks
      BY <1>4, <1>5, <2>1 DEF OnlyNets, Replied1, SamePlace
    <2>3. OnlyNets(told, lost)
      BY <2>1, <2>2, ConnectFailedNets DEF Replied1
    <2> HIDE DEF lost
    <2>4. Cut(lost)
      BY <1>1, <1>2, <1>4, <1>5, <2>1, <2>3
         DEF Freed, OnlyNets, Replied1, Cut, SamePlace, SameCalls, SameRoam, SameQuick,
             SameRoamScan, SameDbus, SameHidden, SamePeriodic, SameScans, Sound, Interface,
             Placed, Waiting, Scanning, Roaming, RoamId, ScanOwner, ReportOwner, DsOwner,
             PreauthOwner, Idle, Autoconnecting
    <2>5. Sound(Disassociated(lost)) /\ Disassociated(lost).net = u.net
      BY <1>5, <2>1, <2>3, <2>4, CutSound DEF OnlyNets, Replied1
    <2>6. Good(w, Disassociated(lost))
      BY <1>1, <1>2, <2>5 DEF Good, NetStep, Asked, Freed, Maybe
    <2> QED
      BY <1>7, <2>6 DEF u
  <1> QED
    BY <1>1, <1>3, <1>4, <1>6, <1>7

\* The roam failed once its connection was given up.
LEMMA RoamFailsGood ==
    ASSUME NEW w, Sound(w), w.net.conn # 0, w.net.cb = "roam",
           NEW result, result # "ok"
    PROVE  Good(w, RoamCb(NetFree(w), result))
  <1> DEFINE u == NetFree(w)
  <1>1. /\ w.st.bss # 0 /\ w.net.nr # "roam" /\ w.net.disc = "none" /\ w.st.state = "roaming"
        /\ ~w.st.preparing_roam /\ w \in Worlds /\ w.st.network # 0
    <2>1. w \in Worlds
      BY DEF Sound
    <2> QED
      BY <2>1 DEF Sound, Interface, Placed, Roaming, ReportOwner, Worlds, States, Idle,
                  Autoconnecting
  <1>2. Freed(w, u)
    BY <1>1, NetFreeFacts
  <1> HIDE DEF u
  <1>3. RoamCb(u, result) = Disassociated(u)
    BY <1>1, <1>2 DEF RoamCb, RoamFailed, Freed, OnlyNet
  <1>4. Cut(u)
    BY <1>1, <1>2 DEF Freed, OnlyNet, Cut, Sound, Interface, Placed, Waiting, Scanning,
                      Roaming, RoamId, ScanOwner, ReportOwner, DsOwner, PreauthOwner, Idle,
                      Autoconnecting
  <1>5. Sound(Disassociated(u)) /\ Disassociated(u).net = u.net
    BY <1>4, CutSound
  <1>6. Good(w, Disassociated(u))
    BY <1>1, <1>2, <1>5 DEF Good, NetStep, Asked, Freed, Maybe
  <1> QED
    BY <1>3, <1>6 DEF u

-----------------------------------------------------------------------------
(* Disconnects. *)

\* station_disconnect_cb().
LEMMA UserLeftGood ==
    ASSUME NEW w, Sound(w), w.net.disc = "user"
    PROVE  Good(w, DisconnectCb([w EXCEPT !.net.disc = "none"]))
  <1> DEFINE u == [w EXCEPT !.net.disc = "none"]
             told == [u EXCEPT !.st.disconnect_pending = FALSE]
             off == EnterState(told, "disconnected")
             quick == EnterState(off, "quick")
  <1>1. DiscIs(w, u, "none")
    BY DiscUpdate DEF Sound
  <1>2. DisconnectCb(u) = IF u.st.autoconnect THEN quick ELSE off
    BY DEF DisconnectCb
  <1> HIDE DEF u
  <1>3. u \in Worlds /\ u.st = w.st /\ u.sc = w.sc
    BY <1>1 DEF DiscIs, OnlyNet
  <1>t1. told.net = u.net /\ told.sc = u.sc /\ told.st.id = u.st.id
    BY <1>3 DEF Worlds
  <1>t2. told \in Worlds
    BY <1>3 DEF Worlds
  <1>t3. SamePlace(u, told) /\ SameRoam(u, told)
    BY <1>3 DEF Worlds, SamePlace, SameRoam
  <1>t4. /\ told.st.autoconnect = u.st.autoconnect
          /\ told.st.connect_pending = u.st.connect_pending
          /\ told.st.connect_pending_bss = u.st.connect_pending_bss
          /\ told.st.pending_freed = u.st.pending_freed /\ told.st.disconnect_pending = FALSE
          /\ told.st.scan_pending = u.st.scan_pending
          /\ told.st.hidden_pending = u.st.hidden_pending /\ told.st.subset = u.st.subset
          /\ told.st.fault = u.st.fault
    BY <1>3 DEF Worlds
  <1> HIDE DEF told
  <1>4. Off(told, off, "disconnected")
    BY <1>t2, EnterOff
  <1> HIDE DEF off
  <1>5. off \in Worlds /\ off.net = u.net
    BY <1>4, <1>t1 DEF Off, EnterFrame
  <1>6. Full(off, quick) \/ Quick(off, quick)
    BY <1>5, EnterQuick
  <1> HIDE DEF quick
  <1>7. quick \in Worlds /\ quick.net = u.net
    BY <1>5, <1>6 DEF Full, Quick, EnterFrame
  <1>8. ASSUME NEW v, v.net = u.net, Sound(v)
        PROVE  Good(w, v)
    BY <1>1, <1>8 DEF Good, NetStep, Asked, DiscIs, SameLink, Sound, Interface, Worlds
  <1>9. CASE ~w.st.autoconnect
    <2>1. Sound(off)
      <3> USE <1>1, <1>3, <1>4, <1>5, <1>9, <1>t1, <1>t3, <1>t4
         DEF DiscIs, Off, EnterFrame, SamePlace, SameCalls, SameRoam, SameQuick, SameRoamScan,
             SameDbus, SameHidden, SamePeriodic, SameScans, OnlyNet, SameLink, SameWatches,
             Sound, Lax, Interface, Placed, Waiting, Scanning, Roaming, RoamId, ScanOwner,
             ReportOwner, DsOwner, PreauthOwner, Idle, Autoconnecting
      <3>1. Interface(off) /\ Placed(off)
        OBVIOUS
      <3>2. Waiting(off)
        OBVIOUS
      <3>3. Scanning(off)
        OBVIOUS
      <3>4. Roaming(off) /\ RoamId(off)
        OBVIOUS
      <3> QED
        BY <1>5, <3>1, <3>2, <3>3, <3>4
    <2>2. Good(w, off)
      BY <1>5, <1>8, <2>1
    <2> QED
      BY <1>2, <1>3, <1>9, <2>2 DEF u
  <1>10. CASE w.st.autoconnect
    <2>1. Sound(quick)
      <3> USE <1>1, <1>3, <1>4, <1>5, <1>6, <1>10, <1>t1, <1>t3, <1>t4
         DEF DiscIs, Off, Full, Quick, EnterFrame, SamePlace, SameCalls, SameRoam, SameQuick,
             SameRoamScan, SameDbus, SameHidden, SamePeriodic, SameScans, OnlyNet, SameLink,
             SameWatches, Sound, Lax, Interface, Placed, Waiting, Scanning, Roaming, RoamId,
             ScanOwner, ReportOwner, DsOwner, PreauthOwner, Idle, Autoconnecting
      <3>1. Interface(quick) /\ Placed(quick)
        OBVIOUS
      <3>2. Waiting(quick)
        OBVIOUS
      <3>3. Scanning(quick)
        OBVIOUS
      <3>4. Roaming(quick) /\ RoamId(quick)
        OBVIOUS
      <3> QED
        BY <1>7, <3>1, <3>2, <3>3, <3>4
    <2>2. Good(w, quick)
      BY <1>7, <1>8, <2>1
    <2> QED
      BY <1>2, <1>3, <1>10, <2>2 DEF u
  <1> QED
    BY <1>9, <1>10

\* station_disconnect_onconnect_cb().
LEMMA OnconnectLeftGood ==
    ASSUME NEW w, Sound(w), Calm, w.net.disc = "onconnect"
    PROVE  Good(w, OnconnectCb([w EXCEPT !.net.disc = "none"]))
  <1> DEFINE u == [w EXCEPT !.net.disc = "none"]
             b == u.st.connect_pending_bss
             idle == EnterState(u, "disconnected")
             off == [idle EXCEPT !.st = [@ EXCEPT !.connect_pending_bss = 0,
                                                  !.pending_freed = FALSE]]
             on == ConnectNetwork(off, b)
             v == EnterState(on, "connecting")
  <1>1. DiscIs(w, u, "none")
    BY DiscUpdate DEF Sound
  <1>2. ~u.st.pending_freed /\ CanConnect(u, b) => OnconnectCb(u) = v
    BY DEF OnconnectCb
  <1> HIDE DEF u
  <1>3. u \in Worlds /\ u.st = w.st /\ u.sc = w.sc
    BY <1>1 DEF DiscIs, OnlyNet
  <1>4. b \in Bsses /\ w.st.connect_pending /\ ~w.st.pending_freed
        /\ (Has("connect") \/ Has("hidden"))
        /\ w.net.conn = 0 /\ w.net.up = 0 /\ w.st.state = "disconnecting"
    BY <1>3 DEF Sound, Interface, Placed, Waiting, Worlds, Maybe
  <1>5. OnconnectCb(u) = v
    BY <1>1, <1>2, <1>3, <1>4, CalmFacts DEF CanConnect, Usable, DiscIs, SameLink
  <1> HIDE DEF b
  <1>6. Off(u, idle, "disconnected")
    BY <1>3, EnterOff
  <1> HIDE DEF idle
  <1>7. idle \in Worlds
    BY <1>6 DEF Off, EnterFrame
  <1>o1. off.net = idle.net /\ off.sc = idle.sc /\ off.st.id = idle.st.id
    BY <1>7 DEF Worlds
  <1>o2. off \in Worlds
    BY <1>7, ZenonT(60) DEF Worlds, Maybe
  <1>o3. SamePlace(idle, off) /\ SameRoam(idle, off)
    BY <1>7 DEF Worlds, SamePlace, SameRoam
  <1>o4. /\ off.st.autoconnect = idle.st.autoconnect
          /\ off.st.connect_pending = idle.st.connect_pending
          /\ off.st.connect_pending_bss = 0 /\ off.st.pending_freed = FALSE
          /\ off.st.disconnect_pending = idle.st.disconnect_pending
          /\ off.st.scan_pending = idle.st.scan_pending
          /\ off.st.hidden_pending = idle.st.hidden_pending /\ off.st.subset = idle.st.subset
          /\ off.st.fault = idle.st.fault
    BY <1>7 DEF Worlds
  <1> HIDE DEF off
  <1>8. Connects(off, on, b)
    BY <1>4, <1>o2, ConnectNetworkFacts
  <1> HIDE DEF on
  <1>9. Off(on, v, "connecting")
    BY <1>8, EnterOff DEF Connects
  <1> HIDE DEF v
  <1>10. v \in Worlds /\ v.net = on.net /\ b # 0 /\ NetworkOf[b] # 0
    BY <1>4, <1>9, NetworkFacts DEF Off, EnterFrame
  <1>11. /\ v.net.conn = b /\ v.net.cb = "connect" /\ v.net.up = 0 /\ v.net.disc = "none"
         /\ v.net.ending = w.net.ending /\ v.net.nr = w.net.nr /\ v.net.ds = w.net.ds
         /\ v.net.parsed = w.net.parsed /\ v.net.preauth = w.net.preauth
    BY <1>1, <1>4, <1>6, <1>8, <1>10, <1>o1
       DEF DiscIs, OnlyNet, SameLink, SameWatches, Off, EnterFrame, Connects
  <1>12. /\ v.st.state = "connecting" /\ v.st.bss = b /\ v.st.network = NetworkOf[b]
         /\ v.st.netconfig = w.st.netconfig /\ SameRoam(w, v)
         /\ v.st.connect_pending_bss = 0 /\ v.st.pending_freed = FALSE
         /\ v.st.autoconnect = w.st.autoconnect /\ v.st.connect_pending = w.st.connect_pending
         /\ v.st.disconnect_pending = w.st.disconnect_pending
         /\ v.st.scan_pending = w.st.scan_pending /\ v.st.hidden_pending = w.st.hidden_pending
         /\ v.st.subset = w.st.subset /\ v.st.fault = w.st.fault
    BY <1>3, <1>6, <1>8, <1>9, <1>o3, <1>o4
       DEF Off, EnterFrame, Connects, SamePlace, SameCalls, SameRoam, SameQuick, SameRoamScan,
           SameDbus, SameHidden, SamePeriodic, SameScans
  <1>13. /\ SameQuick(w, v) /\ SameRoamScan(w, v) /\ SameDbus(w, v) /\ SameHidden(w, v)
         /\ v.sc.periodic = "none"
    BY <1>3, <1>6, <1>8, <1>9, <1>o1 DEF Off, EnterFrame, Connects, SamePlace, SameCalls,
                                         SameRoam, SameQuick, SameRoamScan, SameDbus,
                                         SameHidden, SamePeriodic, SameScans
  <1>14. Sound(v)
    <2> USE <1>4, <1>10, <1>11, <1>12, <1>13
       DEF SamePlace, SameCalls, SameRoam, SameQuick, SameRoamScan, SameDbus, SameHidden,
           SamePeriodic, SameScans, OnlyNet, SameLink, SameWatches, Sound, Lax, Interface,
           Placed, Waiting, Scanning, Roaming, RoamId, ScanOwner, ReportOwner, DsOwner,
           PreauthOwner, Idle, Autoconnecting
    <2>1. Interface(v) /\ Placed(v)
      OBVIOUS
    <2>2. Waiting(v)
      OBVIOUS
    <2>3. Scanning(v)
      OBVIOUS
    <2>4. Roaming(v) /\ RoamId(v)
      OBVIOUS
    <2> QED
      BY <1>10, <2>1, <2>2, <2>3, <2>4
  <1>15. NetStep(w.net, v.net) /\ Asked(w, v)
    BY <1>4, <1>11, <1>12 DEF NetStep, Asked, Maybe
  <1>16. Good(w, v)
    BY <1>14, <1>15 DEF Good
  <1> QED
    BY <1>5, <1>16 DEF u

\* station_disconnect_reconnect_cb().
LEMMA ReconnectLeftGood ==
    ASSUME NEW w, Sound(w), Calm, w.net.disc = "reconnect"
    PROVE  Good(w, ReconnectCb([w EXCEPT !.net.disc = "none"]))
  <1> DEFINE u == [w EXCEPT !.net.disc = "none"]
             v == ConnectNetwork(u, u.st.bss)
  <1>1. DiscIs(w, u, "none")
    BY DiscUpdate DEF Sound
  <1> HIDE DEF u
  <1>2. u \in Worlds /\ u.st = w.st /\ u.sc = w.sc
    BY <1>1 DEF DiscIs, OnlyNet
  <1>3. /\ u.st.bss \in Bsses /\ w.st.network # 0 /\ w.st.network = NetworkOf[u.st.bss]
        /\ w.st.state = "roaming" /\ Has("rekey") /\ w.net.conn = 0 /\ w.net.up = 0
        /\ ~w.st.preparing_roam /\ ~Has("low")
    BY <1>2, CalmFacts DEF Sound, Interface, Placed, Roaming, Worlds, Maybe
  <1>4. ReconnectCb(u) = v \/ ReconnectCb(u) = Disassociated(u)
    BY <1>2, <1>3 DEF ReconnectCb
  <1>5. CASE ReconnectCb(u) = v
    <2>1. Connects(u, v, u.st.bss)
      BY <1>2, <1>3, ConnectNetworkFacts
    <2> HIDE DEF v
    <2>2. v \in Worlds
      BY <2>1 DEF Connects
    <2>3. Sound(v)
      <3> USE <1>1, <1>2, <1>3, <2>1 DEF DiscIs, Connects, SamePlace, SameCalls, SameRoam,
                                         SameQuick, SameRoamScan, SameDbus, SameHidden,
                                         SamePeriodic, SameScans, OnlyNet, SameLink,
                                         SameWatches, Sound, Lax, Interface, Placed, Waiting,
                                         Scanning, Roaming, RoamId, ScanOwner, ReportOwner,
                                         DsOwner, PreauthOwner, Idle, Autoconnecting
      <3>1. Interface(v) /\ Placed(v)
        OBVIOUS
      <3>2. Waiting(v)
        OBVIOUS
      <3>3. Scanning(v)
        OBVIOUS
      <3>4. Roaming(v) /\ RoamId(v)
        OBVIOUS
      <3> QED
        BY <2>2, <3>1, <3>2, <3>3, <3>4
    <2>4. NetStep(w.net, v.net) /\ Asked(w, v)
      BY <1>1, <1>3, <2>1 DEF NetStep, Asked, DiscIs, Connects, SameLink, SameWatches, Maybe
    <2> QED
      BY <1>5, <2>3, <2>4 DEF Good, u
  <1>6. CASE ReconnectCb(u) = Disassociated(u)
    <2>1. Cut(u)
      BY <1>1, <1>2, <1>3 DEF DiscIs, SameLink, Cut, Sound, Interface, Placed, Waiting,
                              Scanning, Roaming, RoamId, ScanOwner, ReportOwner, DsOwner,
                              PreauthOwner, Idle, Autoconnecting
    <2>2. Sound(Disassociated(u)) /\ Disassociated(u).net = u.net
      BY <2>1, CutSound
    <2>3. Good(w, Disassociated(u))
      BY <1>1, <1>3, <2>2 DEF Good, NetStep, Asked, DiscIs, SameLink, Maybe
    <2> QED
      BY <1>6, <2>3 DEF u
  <1> QED
    BY <1>4, <1>5, <1>6

\* Nobody waits for the disconnect of a station that was freed.
LEMMA FreeLeftGood ==
    ASSUME NEW w, Sound(w), w.net.disc = "free"
    PROVE  Good(w, [w EXCEPT !.net.disc = "none"])
  <1> DEFINE u == [w EXCEPT !.net.disc = "none"]
  <1>1. DiscIs(w, u, "none")
    BY DiscUpdate DEF Sound
  <1> HIDE DEF u
  <1>2. u \in Worlds
    BY <1>1 DEF DiscIs, OnlyNet
  <1>3. Sound(u)
    <2> USE <1>1 DEF DiscIs, SamePlace, SameCalls, SameRoam, SameQuick, SameRoamScan,
                     SameDbus, SameHidden, SamePeriodic, SameScans, OnlyNet, SameLink,
                     SameWatches, Sound, Lax, Interface, Placed, Waiting, Scanning, Roaming,
                     RoamId, ScanOwner, ReportOwner, DsOwner, PreauthOwner, Idle,
                     Autoconnecting
    <2>1. Interface(u) /\ Placed(u)
      OBVIOUS
    <2>2. Waiting(u)
      OBVIOUS
    <2>3. Scanning(u)
      OBVIOUS
    <2>4. Roaming(u) /\ RoamId(u)
      OBVIOUS
    <2> QED
      BY <1>2, <2>1, <2>2, <2>3, <2>4
  <1>4. NetStep(w.net, u.net) /\ Asked(w, u)
    BY <1>1, <1>2 DEF NetStep, Asked, DiscIs, SameLink, Maybe, Sound, Interface
  <1> QED
    BY <1>3, <1>4 DEF Good, u

\* netdev_disconnect(): the caller of a connection that was not up yet is told first.
LeftBy(w, v, d) ==
    /\ v \in Worlds
    /\ v.net.conn = 0 /\ v.net.up = 0 /\ v.net.disc = d /\ v.net.ending = FALSE
    /\ v.net.nr = "none" /\ v.net.ds = 0 /\ v.net.parsed = FALSE /\ v.net.preauth = 0
    /\ SamePlace(w, v) /\ SameRoam(w, v) /\ SameScans(w, v)
    /\ v.st.connect_pending =>
          w.st.connect_pending /\ ~(w.net.conn # 0 /\ w.net.cb = "connect")
    /\ v.st.autoconnect = w.st.autoconnect
    /\ v.st.connect_pending_bss = w.st.connect_pending_bss
    /\ v.st.pending_freed = w.st.pending_freed
    /\ v.st.disconnect_pending = w.st.disconnect_pending
    /\ v.st.scan_pending = w.st.scan_pending
    /\ v.st.hidden_pending = w.st.hidden_pending
    /\ v.st.subset = w.st.subset /\ v.st.fault = w.st.fault

LEMMA NetdevDisconnectFacts ==
    ASSUME NEW w \in Worlds, w.net.nr # "roam", CanLeave(w),
           NEW d \in {"none", "user", "onconnect", "reconnect", "free"},
           w.net.conn # 0 /\ w.net.cb = "roam" => w.st.state # "roaming"
    PROVE  LeftBy(w, NetdevDisconnect(w, d), d)
  <1> DEFINE free == NetFree(w)
             told == IF w.net.conn # 0 THEN Callback(free, w.net.cb, "aborted") ELSE free
             v == [told EXCEPT !.net.disc = d]
  <1>1. NetdevDisconnect(w, d) = v
    BY DEF NetdevDisconnect
  <1>2. Freed(w, free)
    BY NetFreeFacts
  <1> HIDE DEF free
  <1>3. free \in Worlds /\ free.st = w.st /\ free.sc = w.sc
    BY <1>2 DEF Freed, OnlyNet
  <1>4. w.net.cb \in {"connect", "roam"}
    BY DEF Worlds
  <1>5. \/ told = free /\ ~(w.net.conn # 0 /\ w.net.cb = "connect")
        \/ told = ConnectReply(free, "aborted")
    <2>1. Callback(free, "connect", "aborted") = ConnectReply(free, "aborted")
      BY DEF Callback, ConnectFailed, Blacklist
    <2>2. w.st.state # "roaming" => Callback(free, "roam", "aborted") = free
      BY <1>3 DEF Callback, RoamCb
    <2> QED
      BY <1>4, <2>1, <2>2
  <1> HIDE DEF told
  <1>6. (told = free /\ ~(w.net.conn # 0 /\ w.net.cb = "connect")) \/ Replied1(free, told)
    BY <1>3, <1>5, ConnectReplyFacts
  <1>7. told \in Worlds
    BY <1>3, <1>6 DEF Replied1
  <1>8. DiscIs(told, v, d)
    BY <1>7, DiscUpdate
  <1> HIDE DEF v
  <1>9. LeftBy(w, v, d)
    <2>1. CASE told = free /\ ~(w.net.conn # 0 /\ w.net.cb = "connect")
      BY <1>2, <1>3, <1>8, <2>1 DEF LeftBy, Freed, DiscIs, OnlyNet, SameLink, SameWatches,
                                    SamePlace, SameCalls, SameRoam, SameQuick, SameRoamScan,
                                    SameDbus, SameHidden, SamePeriodic, SameScans
    <2>2. CASE Replied1(free, told)
      BY <1>2, <1>3, <1>8, <2>2 DEF LeftBy, Freed, Replied1, DiscIs, OnlyNet, SameLink,
                                    SameWatches, SamePlace, SameCalls, SameRoam, SameQuick,
                                    SameRoamScan, SameDbus, SameHidden, SamePeriodic,
                                    SameScans
    <2> QED
      BY <1>6, <2>1, <2>2
  <1> QED
    BY <1>1, <1>9

\* station_reconnect().
LEMMA RekeyFailedGood ==
    ASSUME NEW w, Sound(w), Calm, Has("rekey"), w.net.up # 0
    PROVE  Good(w, NetdevDisconnect(EnterState(w, "roaming"), "reconnect"))
  <1> DEFINE u == EnterState(w, "roaming")
             v == NetdevDisconnect(u, "reconnect")
  <1>1. w \in Worlds
    BY DEF Sound
  <1>2. Pass(w, u, "roaming")
    BY <1>1, EnterPass
  <1> HIDE DEF u
  <1>3. u \in Worlds /\ u.net = w.net
    BY <1>2 DEF Pass, EnterFrame
  <1>4. /\ ~Has("low") /\ ~Has("btm") /\ ~Has("netconfig")
        /\ w.net.nr # "roam" /\ w.net.conn = 0 /\ w.net.preauth = 0 /\ ~w.st.preparing_roam
        /\ w.net.disc = "none"
        /\ w.st.state = "connected" \/ (w.st.state \in {"roaming", "disconnecting"} /\ w.net.ending)
    BY <1>1, CalmFacts DEF Sound, Interface, Placed, Roaming, Worlds, States, Idle,
                           Autoconnecting
  <1>5. CASE w.net.ending
    <2>1. v = u
      BY <1>3, <1>5 DEF NetdevDisconnect, CanLeave
    <2> HIDE DEF v
    <2>2. Sound(u)
      <3> USE <1>2, <1>3, <1>4, <1>5 DEF Pass, EnterFrame, SamePlace, SameCalls, SameRoam,
                                         SameQuick, SameRoamScan, SameDbus, SameHidden,
                                         SamePeriodic, SameScans, OnlyNet, SameLink,
                                         SameWatches, Sound, Lax, Interface, Placed, Waiting,
                                         Scanning, Roaming, RoamId, ScanOwner, ReportOwner,
                                         DsOwner, PreauthOwner, Idle, Autoconnecting
      <3>1. Interface(u) /\ Placed(u)
        OBVIOUS
      <3>2. Waiting(u)
        OBVIOUS
      <3>3. Scanning(u)
        OBVIOUS
      <3>4. Roaming(u) /\ RoamId(u)
        OBVIOUS
      <3> QED
        BY <1>3, <3>1, <3>2, <3>3, <3>4
    <2>3. Good(w, u)
      BY <1>3, <2>2, QuietStep
    <2> QED
      BY <2>1, <2>3 DEF u, v
  <1>6. CASE ~w.net.ending
    <2>1. CanLeave(u)
      BY <1>3, <1>4, <1>6 DEF CanLeave
    <2>2. LeftBy(u, v, "reconnect")
      BY <1>3, <1>4, <2>1, NetdevDisconnectFacts
    <2> HIDE DEF v
    <2>3. v \in Worlds
      BY <2>2 DEF LeftBy
    <2>4. Sound(v)
      <3> USE <1>2, <1>3, <1>4, <1>6, <2>2
         DEF Pass, EnterFrame, LeftBy, SamePlace, SameCalls, SameRoam, SameQuick,
             SameRoamScan, SameDbus, SameHidden, SamePeriodic, SameScans, OnlyNet, SameLink,
             SameWatches, Sound, Lax, Interface, Placed, Waiting, Scanning, Roaming, RoamId,
             ScanOwner, ReportOwner, DsOwner, PreauthOwner, Idle, Autoconnecting
      <3>1. Interface(v) /\ Placed(v)
        OBVIOUS
      <3>2. Waiting(v)
        OBVIOUS
      <3>3. Scanning(v)
        OBVIOUS
      <3>4. Roaming(v) /\ RoamId(v)
        OBVIOUS
      <3> QED
        BY <2>3, <3>1, <3>2, <3>3, <3>4
    <2>5. NetStep(w.net, v.net) /\ Asked(w, v)
      BY <1>1, <1>4, <1>6, <2>2 DEF NetStep, Asked, LeftBy, Worlds
    <2> QED
      BY <2>4, <2>5 DEF Good, u, v
  <1> QED
    BY <1>5, <1>6

\* station_disconnect().
LEMMA StationDisconnectGood ==
    ASSUME NEW w, Sound(w), Calm, ~Has("low"), CanDisconnect(w), w.net.disc # "reconnect",
           ~(w.net.ending /\ (w.net.conn # 0 \/ w.net.nr = "early")), w.st.state # "gone"
    PROVE  /\ Good(w, StationDisconnect(w))
           /\ ~StationDisconnect(w).st.disconnect_pending
           /\ ~StationDisconnect(w).st.connect_pending
           /\ StationDisconnect(w).st.state = "disconnecting"
           /\ w.net.disc = "none"
  <1> DEFINE r == ResetConnectionState(NetconfigReset(w))
             u == EnterState(r, "disconnecting")
             v == NetdevDisconnect(u, "user")
  <1>1. StationDisconnect(w) = v
    BY DEF StationDisconnect
  <1>2. w \in Worlds /\ w.st.bss # 0 /\ w.st.network # 0
    BY DEF Sound, CanDisconnect, Placed
  <1>3. /\ w.st.state \in {"connecting", "connected", "roaming"}
        /\ w.net.disc = "none" /\ w.net.nr # "roam" /\ (w.net.conn # 0 \/ w.net.up # 0)
        /\ w.net.ending => w.net.nr = "none"
    BY <1>2 DEF Sound, CanDisconnect, Interface, Placed, Roaming, Worlds, States, Idle,
                Autoconnecting
  <1>4. ConnectionReset(w, r)
    BY <1>2, ResetFacts
  <1> HIDE DEF r
  <1>5. Pass(r, u, "disconnecting")
    BY <1>4, EnterPass DEF ConnectionReset
  <1> HIDE DEF u
  <1>6. u \in Worlds /\ u.net = w.net
    BY <1>4, <1>5 DEF Pass, EnterFrame, ConnectionReset
  <1>7. /\ u.st.state = "disconnecting" /\ u.st.netconfig = FALSE /\ u.st.network = 0
        /\ u.st.bss = 0 /\ SameCalls(w, u) /\ SameQuick(w, u) /\ SameDbus(w, u)
        /\ SameHidden(w, u) /\ SamePeriodic(w, u)
        /\ u.st.timer = FALSE /\ u.st.preparing_roam = FALSE /\ u.st.signal_low = FALSE
        /\ u.sc.roam = "none" /\ ~u.st.id.roam
    BY <1>2, <1>4, <1>5 DEF Pass, EnterFrame, ConnectionReset, RoamCleared, SamePlace,
                            SameCalls, SameRoam, SameQuick, SameRoamScan, SameDbus,
                            SameHidden, SamePeriodic, SameScans, Sound, RoamId
  <1>8. CASE w.net.ending
    <2>1. v = u
      BY <1>6, <1>8 DEF NetdevDisconnect, CanLeave
    <2> HIDE DEF v
    <2>2. Sound(u)
      <3> USE <1>3, <1>6, <1>7, <1>8 DEF SamePlace, SameCalls, SameRoam, SameQuick,
                                         SameRoamScan, SameDbus, SameHidden, SamePeriodic,
                                         SameScans, OnlyNet, SameLink, SameWatches, Sound,
                                         Lax, Interface, Placed, Waiting, Scanning, Roaming,
                                         RoamId, ScanOwner, ReportOwner, DsOwner,
                                         PreauthOwner, Idle, Autoconnecting
      <3>1. Interface(u) /\ Placed(u)
        OBVIOUS
      <3>2. Waiting(u)
        OBVIOUS
      <3>3. Scanning(u)
        OBVIOUS
      <3>4. Roaming(u) /\ RoamId(u)
        OBVIOUS
      <3> QED
        BY <1>6, <3>1, <3>2, <3>3, <3>4
    <2>3. Good(w, u)
      BY <1>6, <2>2, QuietStep
    <2>4. ~u.st.disconnect_pending /\ ~u.st.connect_pending
      BY <1>3, <1>7, <1>8 DEF Sound, Waiting, SameCalls
    <2> QED
      BY <1>1, <1>3, <1>7, <2>1, <2>3, <2>4
  <1>9. CASE ~w.net.ending
    <2>1. CanLeave(u)
      BY <1>3, <1>6, <1>9 DEF CanLeave
    <2>2. LeftBy(u, v, "user")
      BY <1>3, <1>6, <1>7, <2>1, NetdevDisconnectFacts
    <2> HIDE DEF v
    <2>3. v \in Worlds
      BY <2>2 DEF LeftBy
    <2>4. Sound(v)
      <3> USE <1>3, <1>6, <1>7, <1>9, <2>2
         DEF LeftBy, SamePlace, SameCalls, SameRoam, SameQuick, SameRoamScan, SameDbus,
             SameHidden, SamePeriodic, SameScans, OnlyNet, SameLink, SameWatches, Sound, Lax,
             Interface, Placed, Waiting, Scanning, Roaming, RoamId, ScanOwner, ReportOwner,
             DsOwner, PreauthOwner, Idle, Autoconnecting
      <3>1. Interface(v) /\ Placed(v)
        OBVIOUS
      <3>2. Waiting(v)
        OBVIOUS
      <3>3. Scanning(v)
        OBVIOUS
      <3>4. Roaming(v) /\ RoamId(v)
        OBVIOUS
      <3> QED
        BY <2>3, <3>1, <3>2, <3>3, <3>4
    <2>5. NetStep(w.net, v.net) /\ Asked(w, v)
      BY <1>2, <1>3, <1>9, <2>2 DEF NetStep, Asked, LeftBy, Worlds
    <2>6. ~v.st.disconnect_pending /\ ~v.st.connect_pending /\ v.st.state = "disconnecting"
      BY <1>3, <1>6, <1>7, <2>2 DEF Sound, Waiting, SameCalls, SamePlace, LeftBy
    <2> QED
      BY <1>1, <1>3, <2>4, <2>5, <2>6 DEF Good
  <1> QED
    BY <1>8, <1>9

\* station_set_autoconnect(station, false).
AutoOff(w, v) ==
    /\ v \in Worlds /\ v.net = w.net
    /\ v.st.network = w.st.network /\ v.st.bss = w.st.bss /\ v.st.netconfig = w.st.netconfig
    /\ v.st.autoconnect = FALSE
    /\ v.st.connect_pending = w.st.connect_pending
    /\ v.st.connect_pending_bss = w.st.connect_pending_bss
    /\ v.st.pending_freed = w.st.pending_freed
    /\ v.st.disconnect_pending = w.st.disconnect_pending
    /\ v.st.scan_pending = w.st.scan_pending
    /\ v.st.hidden_pending = w.st.hidden_pending
    /\ v.st.subset = w.st.subset /\ v.st.fault = w.st.fault
    /\ SameRoam(w, v)
    /\ SameQuick(w, v) /\ SameRoamScan(w, v) /\ SameDbus(w, v) /\ SameHidden(w, v)
    /\ IF w.st.autoconnect /\ w.st.state \in Autoconnecting
       THEN v.st.state = "disconnected" /\ v.sc.periodic = "none"
       ELSE v.st.state = w.st.state /\ v.sc.periodic = w.sc.periodic

LEMMA AutoconnectOffFacts ==
    ASSUME NEW w \in Worlds
    PROVE  AutoOff(w, AutoconnectOff(w))
  <1> DEFINE u == [w EXCEPT !.st.autoconnect = FALSE]
             v == EnterState(u, "disconnected")
  <1>1. AutoconnectOff(w) =
            IF w.st.autoconnect /\ w.st.state \in Autoconnecting THEN v ELSE u
    BY DEF AutoconnectOff
  <1>2. w \in Worlds
    OBVIOUS
  <1>u1. u.net = w.net /\ u.sc = w.sc /\ u.st.id = w.st.id
    BY <1>2 DEF Worlds
  <1>u2. u \in Worlds
    BY <1>2 DEF Worlds
  <1>u3. SamePlace(w, u) /\ SameRoam(w, u)
    BY <1>2 DEF Worlds, SamePlace, SameRoam
  <1>u4. /\ u.st.autoconnect = FALSE /\ u.st.connect_pending = w.st.connect_pending
          /\ u.st.connect_pending_bss = w.st.connect_pending_bss
          /\ u.st.pending_freed = w.st.pending_freed
          /\ u.st.disconnect_pending = w.st.disconnect_pending
          /\ u.st.scan_pending = w.st.scan_pending
          /\ u.st.hidden_pending = w.st.hidden_pending /\ u.st.subset = w.st.subset
          /\ u.st.fault = w.st.fault
    BY <1>2 DEF Worlds
  <1> HIDE DEF u
  <1>3. Off(u, v, "disconnected")
    BY <1>u2, EnterOff
  <1> HIDE DEF v
  <1>4. CASE w.st.autoconnect /\ w.st.state \in Autoconnecting
    <2>1. AutoOff(w, v)
      BY <1>3, <1>4, <1>u1, <1>u3, <1>u4 DEF AutoOff, Off, EnterFrame, SamePlace, SameCalls,
                                             SameRoam, SameQuick, SameRoamScan, SameDbus,
                                             SameHidden, SamePeriodic, SameScans
    <2> QED
      BY <1>1, <1>4, <2>1
  <1>5. CASE ~(w.st.autoconnect /\ w.st.state \in Autoconnecting)
    <2>1. AutoOff(w, u)
      BY <1>5, <1>u1, <1>u2, <1>u3, <1>u4
         DEF AutoOff, SamePlace, SameCalls, SameRoam, SameQuick, SameRoamScan, SameDbus,
             SameHidden, SamePeriodic, SameScans
    <2> QED
      BY <1>1, <1>5, <2>1
  <1> QED
    BY <1>4, <1>5

LEMMA AutoOffSound ==
    ASSUME NEW w, NEW v, Sound(w), AutoOff(w, v), Has("disconnect")
    PROVE  Sound(v)
  <1>1. v \in Worlds
    BY DEF AutoOff
  <1>2. Sound(v)
    <2> USE <1>1 DEF AutoOff, SamePlace, SameCalls, SameRoam, SameQuick, SameRoamScan,
                     SameDbus, SameHidden, SamePeriodic, SameScans, OnlyNet, SameLink,
                     SameWatches, Sound, Lax, Interface, Placed, Waiting, Scanning, Roaming,
                     RoamId, ScanOwner, ReportOwner, DsOwner, PreauthOwner, Idle,
                     Autoconnecting
    <2>1. Interface(v) /\ Placed(v)
      OBVIOUS
    <2>2. Waiting(v)
      OBVIOUS
    <2>3. Scanning(v)
      OBVIOUS
    <2>4. Roaming(v) /\ RoamId(v)
      OBVIOUS
    <2> QED
      BY <1>1, <2>1, <2>2, <2>3, <2>4
  <1> QED
    BY <1>2

\* station_dbus_disconnect().
LEMMA DisconnectGood ==
    ASSUME NEW w, Sound(w), Calm, Has("disconnect"), w.st.state # "gone",
           w.net.disc # "reconnect",
           ~(w.net.ending /\ (w.net.conn # 0 \/ w.net.nr = "early"))
    PROVE  Good(w, DbusDisconnect(w))
  <1> DEFINE off == AutoconnectOff(w)
             cancel == ScanCancel(off, "hidden")
             told == [cancel EXCEPT !.st.hidden_pending = FALSE]
             gone == StationDisconnect(off)
             waits == [gone EXCEPT !.st.disconnect_pending = (gone.net.disc = "user")]
  <1>1. DbusDisconnect(w) = IF w.st.id.hidden THEN told
                            ELSE IF w.st.state \in Idle \/ ~CanDisconnect(w) THEN off
                            ELSE waits
    BY DEF DbusDisconnect
  <1>2. AutoOff(w, off)
    BY AutoconnectOffFacts DEF Sound
  <1> HIDE DEF off
  <1>3. Sound(off) /\ off.net = w.net /\ off \in Worlds
    BY <1>2, AutoOffSound DEF AutoOff
  <1>4. CASE w.st.id.hidden
    <2>1. off.sc.hidden # "none"
      BY <1>2, <1>4 DEF AutoOff, SameHidden, Sound, Scanning
    <2>2. ScanIs(off, cancel, "hidden", "none", FALSE)
      BY <1>3, <2>1, ScanCancelFacts, ScanNames
    <2> HIDE DEF cancel
    <2>3. cancel \in Worlds
      BY <2>2 DEF ScanIs
    <2>t1. told.net = cancel.net /\ told.sc = cancel.sc /\ told.st.id = cancel.st.id
      BY <2>3 DEF Worlds
    <2>t2. told \in Worlds
      BY <2>3 DEF Worlds
    <2>t3. SamePlace(cancel, told) /\ SameRoam(cancel, told)
      BY <2>3 DEF Worlds, SamePlace, SameRoam
    <2>t4. /\ told.st.autoconnect = cancel.st.autoconnect
            /\ told.st.connect_pending = cancel.st.connect_pending
            /\ told.st.connect_pending_bss = cancel.st.connect_pending_bss
            /\ told.st.pending_freed = cancel.st.pending_freed
            /\ told.st.disconnect_pending = cancel.st.disconnect_pending
            /\ told.st.scan_pending = cancel.st.scan_pending /\ told.st.hidden_pending = FALSE
            /\ told.st.subset = cancel.st.subset /\ told.st.fault = cancel.st.fault
      BY <2>3 DEF Worlds
    <2> HIDE DEF told
    <2>4. Sound(off)
      BY <1>3
    <2>5. Sound(told)
      <3> USE <1>2, <2>2, <2>t1, <2>t3, <2>t4
         DEF AutoOff, ScanIs, SamePlace, SameCalls, SameRoam, SameQuick, SameRoamScan,
             SameDbus, SameHidden, SamePeriodic, SameScans, OnlyNet, SameLink, SameWatches,
             Sound, Lax, Interface, Placed, Waiting, Scanning, Roaming, RoamId, ScanOwner,
             ReportOwner, DsOwner, PreauthOwner, Idle, Autoconnecting
      <3>1. Interface(told) /\ Placed(told)
        OBVIOUS
      <3>2. Waiting(told)
        OBVIOUS
      <3>3. Scanning(told)
        OBVIOUS
      <3>4. Roaming(told) /\ RoamId(told)
        OBVIOUS
      <3> QED
        BY <2>t2, <3>1, <3>2, <3>3, <3>4
    <2>6. told.net = w.net
      BY <1>3, <2>2, <2>t1 DEF ScanIs
    <2>7. Good(w, told)
      BY <2>5, <2>6, QuietStep
    <2> QED
      BY <1>1, <1>4, <2>7
  <1>5. CASE ~w.st.id.hidden /\ (w.st.state \in Idle \/ ~CanDisconnect(w))
    <2>1. Good(w, off)
      BY <1>3, QuietStep
    <2> QED
      BY <1>1, <1>5, <2>1
  <1>6. CASE ~w.st.id.hidden /\ w.st.state \notin Idle /\ CanDisconnect(w)
    <2>1. CanDisconnect(off) /\ ~Has("low") /\ off.st.state # "gone"
      BY <1>2, <1>6, CalmFacts DEF CanDisconnect, AutoOff, Idle
    <2>2. /\ Good(off, gone) /\ ~gone.st.disconnect_pending /\ ~gone.st.connect_pending
          /\ gone.st.state = "disconnecting"
      BY <1>3, <2>1, StationDisconnectGood
    <2> HIDE DEF gone
    <2>3. gone \in Worlds /\ (gone.net.disc = "user") \in BOOLEAN /\ Sound(gone)
      BY <2>2 DEF Good, Sound
    <2>4. waits.net = gone.net /\ waits.sc = gone.sc /\ waits.st.id = gone.st.id
      BY <2>3 DEF Worlds
    <2>5. waits \in Worlds
      BY <2>3, ZenonT(60) DEF Worlds
    <2>6. SamePlace(gone, waits) /\ SameRoam(gone, waits)
      BY <2>3 DEF Worlds, SamePlace, SameRoam
    <2>7. /\ waits.st.disconnect_pending = (gone.net.disc = "user")
          /\ waits.st.autoconnect = gone.st.autoconnect
          /\ waits.st.connect_pending = gone.st.connect_pending
          /\ waits.st.connect_pending_bss = gone.st.connect_pending_bss
          /\ waits.st.pending_freed = gone.st.pending_freed
          /\ waits.st.scan_pending = gone.st.scan_pending
          /\ waits.st.hidden_pending = gone.st.hidden_pending
          /\ waits.st.subset = gone.st.subset /\ waits.st.fault = gone.st.fault
      BY <2>3 DEF Worlds
    <2> HIDE DEF waits
    <2>8. Sound(waits)
      <3>1. Interface(gone) /\ Placed(gone) /\ Waiting(gone) /\ Scanning(gone) /\ Roaming(gone)
            /\ RoamId(gone)
        BY <2>3 DEF Sound
      <3>2. Interface(waits) /\ Placed(waits)
        BY <2>4, <2>6, <2>7, <3>1 DEF SamePlace, Interface, Placed
      <3>3. Waiting(waits)
        BY <2>4, <2>7, <3>1 DEF Waiting
      <3>4. Scanning(waits)
        BY <2>4, <2>6, <2>7, <3>1 DEF SamePlace, Scanning
      <3>5. Roaming(waits) /\ RoamId(waits)
        BY <2>4, <2>6, <3>1
           DEF SamePlace, SameRoam, Roaming, RoamId, ScanOwner, ReportOwner, DsOwner,
               PreauthOwner
      <3> QED
        BY <2>5, <3>2, <3>3, <3>4, <3>5 DEF Sound
    <2>9. Good(w, waits)
      BY <1>2, <1>3, <2>2, <2>4, <2>7, <2>8 DEF Good, Asked, AutoOff
    <2> QED
      BY <1>1, <1>6, <2>9
  <1> QED
    BY <1>4, <1>5, <1>6

\* emit_known_network_removed().
LEMMA ForgetGood ==
    ASSUME NEW w, Sound(w), Calm, Has("forget"), w.st.state # "gone", NEW n,
           w.net.disc # "reconnect",
           ~(w.net.ending /\ (w.net.conn # 0 \/ w.net.nr = "early"))
    PROVE  LET u == [w EXCEPT !.nets.known = @ \ {n}]
           IN  Good(w, u) /\ (CanDisconnect(u) => Good(w, StationDisconnect(u)))
  <1> DEFINE u == [w EXCEPT !.nets.known = @ \ {n}]
  <1>1. OnlyNets(w, u)
    BY KnownUpdate DEF Sound
  <1> HIDE DEF u
  <1>2. Good(w, u) /\ Sound(u) /\ u.net = w.net /\ u.st.state # "gone"
    BY <1>1, OnlyNetsStep, OnlyNetsSound DEF OnlyNets, SamePlace
  <1>3. ASSUME CanDisconnect(u)
        PROVE  Good(w, StationDisconnect(u))
    <2>1. Good(u, StationDisconnect(u))
      BY <1>2, <1>3, CalmFacts, StationDisconnectGood
    <2> QED
      BY <1>1, <2>1, AfterNets
  <1> QED
    BY <1>2, <1>3 DEF u

-----------------------------------------------------------------------------
(* Connects of users. *)

\* The scans that station_connect_network() gives up.
ScansCancelled(w, v) ==
    /\ v \in Worlds /\ v.net = w.net
    /\ SamePlace(w, v) /\ SameRoam(w, v)
    /\ SameRoamScan(w, v) /\ SameDbus(w, v) /\ SamePeriodic(w, v)
    /\ v.sc.quick = "none" /\ ~v.st.id.quick /\ v.sc.hidden = "none" /\ ~v.st.id.hidden
    /\ ~v.st.hidden_pending
    /\ v.st.autoconnect = w.st.autoconnect
    /\ v.st.connect_pending = w.st.connect_pending
    /\ v.st.connect_pending_bss = w.st.connect_pending_bss
    /\ v.st.pending_freed = w.st.pending_freed
    /\ v.st.disconnect_pending = w.st.disconnect_pending
    /\ v.st.scan_pending = w.st.scan_pending
    /\ v.st.subset = w.st.subset /\ v.st.fault = w.st.fault

LEMMA CancelScansFacts ==
    ASSUME NEW w, Sound(w)
    PROVE  ScansCancelled(w, CancelScans(w))
  <1> DEFINE a == ScanCancel(w, "hidden")
             b == [a EXCEPT !.st.hidden_pending = FALSE]
             hidden == IF w.st.id.hidden THEN b ELSE w
             c == ScanCancel(hidden, "quick")
             d == [c EXCEPT !.st.id.quick = FALSE]
  <1>1. CancelScans(w) = IF w.st.id.quick THEN d ELSE hidden
    BY DEF CancelScans
  <1>2. w \in Worlds
    BY DEF Sound
  <1>3. /\ hidden \in Worlds /\ hidden.net = w.net /\ SamePlace(w, hidden) /\ SameRoam(w, hidden)
        /\ SameRoamScan(w, hidden) /\ SameDbus(w, hidden) /\ SamePeriodic(w, hidden)
        /\ SameQuick(w, hidden) /\ hidden.sc.hidden = "none" /\ ~hidden.st.id.hidden
        /\ ~hidden.st.hidden_pending
        /\ hidden.st.autoconnect = w.st.autoconnect
        /\ hidden.st.connect_pending = w.st.connect_pending
        /\ hidden.st.connect_pending_bss = w.st.connect_pending_bss
        /\ hidden.st.pending_freed = w.st.pending_freed
        /\ hidden.st.disconnect_pending = w.st.disconnect_pending
        /\ hidden.st.scan_pending = w.st.scan_pending
        /\ hidden.st.subset = w.st.subset /\ hidden.st.fault = w.st.fault
    <2>1. CASE w.st.id.hidden
      <3>1. hidden = b
        BY <2>1
      <3> HIDE DEF hidden
      <3>2. ScanIs(w, a, "hidden", "none", FALSE)
        BY <1>2, <2>1, ScanCancelFacts, ScanNames DEF Sound, Scanning
      <3> HIDE DEF a
      <3>3. a \in Worlds
        BY <3>2 DEF ScanIs
      <3>b1. b.net = a.net /\ b.sc = a.sc /\ b.st.id = a.st.id
        BY <3>3 DEF Worlds
      <3>b2. b \in Worlds
        BY <3>3 DEF Worlds
      <3>b3. SamePlace(a, b) /\ SameRoam(a, b)
        BY <3>3 DEF Worlds, SamePlace, SameRoam
      <3>b4. /\ b.st.autoconnect = a.st.autoconnect
              /\ b.st.connect_pending = a.st.connect_pending
              /\ b.st.connect_pending_bss = a.st.connect_pending_bss
              /\ b.st.pending_freed = a.st.pending_freed
              /\ b.st.disconnect_pending = a.st.disconnect_pending
              /\ b.st.scan_pending = a.st.scan_pending /\ b.st.hidden_pending = FALSE
              /\ b.st.subset = a.st.subset /\ b.st.fault = a.st.fault
        BY <3>3 DEF Worlds
      <3> HIDE DEF b
      <3> QED
        BY <3>1, <3>2, <3>b1, <3>b2, <3>b3, <3>b4
           DEF ScanIs, SamePlace, SameCalls, SameRoam, SameQuick, SameRoamScan, SameDbus,
               SameHidden, SamePeriodic, SameScans
    <2>2. CASE ~w.st.id.hidden
      <3>1. hidden = w
        BY <2>2
      <3> HIDE DEF hidden
      <3> QED
        BY <1>2, <2>2, <3>1 DEF SamePlace, SameCalls, SameRoam, SameQuick, SameRoamScan,
                                SameDbus, SameHidden, SamePeriodic, SameScans, Sound,
                                Scanning, Waiting
    <2> QED
      BY <2>1, <2>2
  <1> HIDE DEF hidden
  <1>4. CASE w.st.id.quick
    <2>1. hidden.sc.quick # "none"
      BY <1>3, <1>4 DEF SameQuick, Sound, Scanning
    <2>2. ScanIs(hidden, c, "quick", "none", FALSE)
      BY <1>3, <2>1, ScanCancelFacts, ScanNames
    <2> HIDE DEF c
    <2>3. ScanIs(c, d, "quick", c.sc.quick, FALSE)
      BY <2>2, DestroyFacts, ScanNames DEF ScanIs
    <2> HIDE DEF d
    <2>4. ScansCancelled(w, d)
      BY <1>3, <2>2, <2>3 DEF ScansCancelled, ScanIs, SamePlace, SameCalls, SameRoam,
                              SameQuick, SameRoamScan, SameDbus, SameHidden, SamePeriodic,
                              SameScans
    <2> QED
      BY <1>1, <1>4, <2>4
  <1>5. CASE ~w.st.id.quick
    <2>1. ScansCancelled(w, hidden)
      BY <1>3, <1>5 DEF ScansCancelled, SameQuick, Sound, Scanning
    <2> QED
      BY <1>1, <1>5, <2>1
  <1> QED
    BY <1>4, <1>5

\* station_disconnect_onconnect().
LEMMA DisconnectOnconnectGood ==
    ASSUME NEW w, Sound(w), Calm, Has("connect") \/ Has("hidden"), NEW b \in Bsses,
           w.st.state \notin Idle \cup {"roaming", "gone"}, ~w.st.id.quick
    PROVE  Good(w, DisconnectOnconnect(w, b))
  <1> DEFINE left == NetdevDisconnect(w, "onconnect")
             r == ResetConnectionState(NetconfigReset(left))
             off == EnterState(r, "disconnecting")
             v == [off EXCEPT !.st = [@ EXCEPT !.connect_pending_bss = b,
                                               !.connect_pending = TRUE]]
  <1>1. DisconnectOnconnect(w, b) = IF CanLeave(w) THEN v ELSE w
    BY DEF DisconnectOnconnect
  <1>2. CASE ~CanLeave(w)
    <2>1. Good(w, w)
      BY QuietStep
    <2> QED
      BY <1>1, <1>2, <2>1
  <1>3. CASE CanLeave(w)
    <2>1. w \in Worlds /\ b # 0
      BY NetworkFacts DEF Sound
    <2>2. /\ w.st.state \in {"connecting", "connected"} /\ w.st.bss # 0 /\ w.st.network # 0
          /\ ~Has("low") /\ w.net.nr # "roam" /\ ~w.net.ending /\ w.net.disc = "none"
          /\ w.net.conn # 0 \/ w.net.up # 0
      BY <1>3, <2>1, CalmFacts DEF CanLeave, Sound, Placed, Roaming, Worlds, States
    <2>3. LeftBy(w, left, "onconnect")
      BY <1>3, <2>1, <2>2, NetdevDisconnectFacts
    <2> HIDE DEF left
    <2>4. left \in Worlds /\ (left.st.bss # 0 <=> left.st.network # 0)
      BY <2>2, <2>3 DEF LeftBy, SamePlace
    <2>5. ConnectionReset(left, r)
      BY <2>4, ResetFacts
    <2> HIDE DEF r
    <2>6. Pass(r, off, "disconnecting")
      BY <2>5, EnterPass DEF ConnectionReset
    <2> HIDE DEF off
    <2>7. off \in Worlds /\ off.net = left.net
      BY <2>5, <2>6 DEF Pass, EnterFrame, ConnectionReset
    <2>8. /\ off.st.state = "disconnecting" /\ off.st.netconfig = FALSE /\ off.st.network = 0
          /\ off.st.bss = 0 /\ SameCalls(left, off) /\ SameQuick(w, off) /\ SameDbus(w, off)
          /\ SameHidden(w, off) /\ SamePeriodic(w, off)
          /\ off.st.timer = FALSE /\ off.st.preparing_roam = FALSE
          /\ off.st.signal_low = FALSE /\ off.sc.roam = "none" /\ ~off.st.id.roam
      BY <2>2, <2>3, <2>5, <2>6 DEF Pass, EnterFrame, ConnectionReset, RoamCleared, LeftBy,
                                    SamePlace, SameCalls, SameRoam, SameQuick, SameRoamScan,
                                    SameDbus, SameHidden, SamePeriodic, SameScans, Sound,
                                    RoamId
    <2>9. off \in Worlds /\ b \in Maybe
      BY <2>7 DEF Maybe
    <2>v1. v.net = off.net /\ v.sc = off.sc /\ v.st.id = off.st.id
      BY <2>9 DEF Worlds
    <2>v2. v \in Worlds
      BY <2>9 DEF Worlds
    <2>v3. SamePlace(off, v) /\ SameRoam(off, v)
      BY <2>9 DEF Worlds, SamePlace, SameRoam
    <2>v4. /\ v.st.autoconnect = off.st.autoconnect /\ v.st.connect_pending = TRUE
            /\ v.st.connect_pending_bss = b /\ v.st.pending_freed = off.st.pending_freed
            /\ v.st.disconnect_pending = off.st.disconnect_pending
            /\ v.st.scan_pending = off.st.scan_pending
            /\ v.st.hidden_pending = off.st.hidden_pending /\ v.st.subset = off.st.subset
            /\ v.st.fault = off.st.fault
      BY <2>9 DEF Worlds
    <2> HIDE DEF v
    <2>10. Sound(v)
      <3> USE <2>1, <2>2, <2>3, <2>7, <2>8, <2>v1, <2>v3, <2>v4
         DEF LeftBy, SamePlace, SameCalls, SameRoam, SameQuick, SameRoamScan, SameDbus,
             SameHidden, SamePeriodic, SameScans, OnlyNet, SameLink, SameWatches, Sound, Lax,
             Interface, Placed, Waiting, Scanning, Roaming, RoamId, ScanOwner, ReportOwner,
             DsOwner, PreauthOwner, Idle, Autoconnecting
      <3>1. Interface(v) /\ Placed(v)
        OBVIOUS
      <3>2. Waiting(v)
        OBVIOUS
      <3>3. Scanning(v)
        OBVIOUS
      <3>4. Roaming(v) /\ RoamId(v)
        OBVIOUS
      <3> QED
        BY <2>v2, <3>1, <3>2, <3>3, <3>4
    <2>11. NetStep(w.net, v.net) /\ Asked(w, v)
      BY <2>1, <2>2, <2>3, <2>7, <2>v1 DEF NetStep, Asked, LeftBy, Worlds
    <2>12. Good(w, v)
      BY <2>10, <2>11 DEF Good
    <2> QED
      BY <1>1, <1>3, <2>12
  <1> QED
    BY <1>2, <1>3

\* station_connect_network().
LEMMA StationConnectGood ==
    ASSUME NEW w, Sound(w), Calm, Has("connect") \/ Has("hidden"), NEW b \in Bsses,
           w.st.state \notin {"roaming", "gone"}
    PROVE  Good(w, StationConnect(w, b))
  <1> DEFINE free == CancelScans(w)
             on == ConnectNetwork(free, b)
             in == EnterState(on, "connecting")
             v == [in EXCEPT !.st = [@ EXCEPT !.connect_pending = TRUE, !.autoconnect = TRUE]]
  <1>1. StationConnect(w, b) = IF w.st.state \notin Idle THEN DisconnectOnconnect(free, b)
                               ELSE IF ~CanConnect(free, b) THEN free ELSE v
    BY DEF StationConnect
  <1>2. ScansCancelled(w, free)
    BY CancelScansFacts
  <1> HIDE DEF free
  <1>3. free \in Worlds /\ free.net = w.net
    BY <1>2 DEF ScansCancelled
  <1>4. CASE w.st.state \notin Idle
    <2>1. Sound(free)
      <3> USE <1>2, <1>4 DEF ScansCancelled, SamePlace, SameCalls, SameRoam, SameQuick,
                             SameRoamScan, SameDbus, SameHidden, SamePeriodic, SameScans,
                             OnlyNet, SameLink, SameWatches, Sound, Lax, Interface, Placed,
                             Waiting, Scanning, Roaming, RoamId, ScanOwner, ReportOwner,
                             DsOwner, PreauthOwner, Idle, Autoconnecting
      <3>1. Interface(free) /\ Placed(free)
        OBVIOUS
      <3>2. Waiting(free)
        OBVIOUS
      <3>3. Scanning(free)
        OBVIOUS
      <3>4. Roaming(free) /\ RoamId(free)
        OBVIOUS
      <3> QED
        BY <1>3, <3>1, <3>2, <3>3, <3>4
    <2>2. Good(free, DisconnectOnconnect(free, b))
      BY <1>2, <1>4, <2>1, DisconnectOnconnectGood DEF ScansCancelled, SamePlace
    <2>3. Good(w, DisconnectOnconnect(free, b))
      BY <1>2, <2>2 DEF Good, Asked, ScansCancelled, SamePlace
    <2> QED
      BY <1>1, <1>4, <2>3
  <1>5. CASE w.st.state \in Idle
    <2>1. w.net.conn = 0 /\ w.net.up = 0 /\ w.net.disc = "none" /\ b # 0 /\ NetworkOf[b] # 0
      BY <1>5, NetworkFacts DEF Sound, Placed
    <2>2. CanConnect(free, b)
      BY <1>3, <2>1, CalmFacts DEF CanConnect, Usable
    <2>3. Connects(free, on, b)
      BY <1>3, ConnectNetworkFacts
    <2> HIDE DEF on
    <2>4. Off(on, in, "connecting")
      BY <2>3, EnterOff DEF Connects
    <2> HIDE DEF in
    <2>5. in \in Worlds
      BY <2>4 DEF Off, EnterFrame
    <2>v1. v.net = in.net /\ v.sc = in.sc /\ v.st.id = in.st.id
      BY <2>5 DEF Worlds
    <2>v2. v \in Worlds
      BY <2>5 DEF Worlds
    <2>v3. SamePlace(in, v) /\ SameRoam(in, v)
      BY <2>5 DEF Worlds, SamePlace, SameRoam
    <2>v4. /\ v.st.autoconnect = TRUE /\ v.st.connect_pending = TRUE
            /\ v.st.connect_pending_bss = in.st.connect_pending_bss
            /\ v.st.pending_freed = in.st.pending_freed
            /\ v.st.disconnect_pending = in.st.disconnect_pending
            /\ v.st.scan_pending = in.st.scan_pending
            /\ v.st.hidden_pending = in.st.hidden_pending /\ v.st.subset = in.st.subset
            /\ v.st.fault = in.st.fault
      BY <2>5 DEF Worlds
    <2> HIDE DEF v
    <2>6. Sound(v)
      <3> USE <1>2, <1>5, <2>1, <2>3, <2>4, <2>v1, <2>v3, <2>v4
         DEF ScansCancelled, Connects, Off, EnterFrame, SamePlace, SameCalls, SameRoam,
             SameQuick, SameRoamScan, SameDbus, SameHidden, SamePeriodic, SameScans, OnlyNet,
             SameLink, SameWatches, Sound, Lax, Interface, Placed, Waiting, Scanning, Roaming,
             RoamId, ScanOwner, ReportOwner, DsOwner, PreauthOwner, Idle, Autoconnecting
      <3>1. Interface(v) /\ Placed(v)
        OBVIOUS
      <3>2. Waiting(v)
        OBVIOUS
      <3>3. Scanning(v)
        OBVIOUS
      <3>4. Roaming(v) /\ RoamId(v)
        OBVIOUS
      <3> QED
        BY <2>v2, <3>1, <3>2, <3>3, <3>4
    <2>7. NetStep(w.net, v.net) /\ Asked(w, v)
      BY <1>3, <2>1, <2>3, <2>4, <2>v1, <2>v4
         DEF NetStep, Asked, Connects, SameWatches, Off, EnterFrame
    <2>8. Good(w, v)
      BY <2>6, <2>7 DEF Good
    <2> QED
      BY <1>1, <1>5, <2>2, <2>8
  <1> QED
    BY <1>4, <1>5

-----------------------------------------------------------------------------
(* The end of the station. *)

\* All that its scans need for station_free() to cancel them: their ids.
AllIds(w) ==
    /\ w.st.id.quick <=> w.sc.quick # "none"
    /\ w.st.id.dbus <=> w.sc.dbus # "none"
    /\ w.st.id.hidden <=> w.sc.hidden # "none"
    /\ w.st.id.roam <=> w.sc.roam # "none"

LEMMA CancelOne ==
    ASSUME NEW w \in Worlds, NEW k \in Scans, AllIds(w)
    PROVE  ScanIs(w, IF w.st.id[k] THEN ScanCancel(w, k) ELSE w, k, "none", FALSE)
  <1>1. w.st.id[k] <=> w.sc[k] # "none"
    BY ScanNames DEF AllIds
  <1>2. CASE w.st.id[k]
    <2>1. ScanIs(w, ScanCancel(w, k), k, "none", FALSE)
      BY <1>1, <1>2, ScanCancelFacts
    <2> QED
      BY <1>2, <2>1
  <1>3. CASE ~w.st.id[k]
    <2>1. w.sc[k] = "none" /\ w.st.id[k] = FALSE
      BY <1>1, <1>3 DEF Worlds
    <2>2. ScanIs(w, w, k, "none", FALSE)
      BY <2>1, ScanNames DEF ScanIs, SamePlace, SameCalls, SameRoam, SameQuick, SameRoamScan,
                             SameDbus, SameHidden, SamePeriodic, SameScans
    <2> QED
      BY <1>3, <2>2
  <1> QED
    BY <1>2, <1>3

LEMMA AllIdsKept ==
    ASSUME NEW w, NEW v, NEW k \in Scans, AllIds(w), ScanIs(w, v, k, "none", FALSE)
    PROVE  AllIds(v)
  BY ScanNames DEF AllIds, ScanIs, SamePlace, SameCalls, SameRoam, SameQuick, SameRoamScan,
                   SameDbus, SameHidden, SamePeriodic, SameScans

AllCancelled(w, v) ==
    /\ v \in Worlds /\ v.net = w.net
    /\ SamePlace(w, v) /\ SameCalls(w, v) /\ SamePeriodic(w, v)
    /\ v.st.timer = FALSE /\ v.st.preparing_roam = FALSE /\ v.st.signal_low = FALSE
    /\ v.sc.quick = "none" /\ v.sc.dbus = "none" /\ v.sc.hidden = "none" /\ v.sc.roam = "none"
    /\ AllIds(v)

LEMMA CancelAllFacts ==
    ASSUME NEW w \in Worlds, AllIds(w)
    PROVE  AllCancelled(w, CancelAllScans(w))
  <1> DEFINE a == IF w.st.id["dbus"] THEN ScanCancel(w, "dbus") ELSE w
             b == IF a.st.id["quick"] THEN ScanCancel(a, "quick") ELSE a
             c == IF b.st.id["hidden"] THEN ScanCancel(b, "hidden") ELSE b
             v == RoamStateClear(c)
  <1>1. CancelAllScans(w) = v
    BY DEF CancelAllScans
  <1>2. ScanIs(w, a, "dbus", "none", FALSE)
    BY CancelOne, ScanNames
  <1> HIDE DEF a
  <1>3. a \in Worlds /\ AllIds(a)
    BY <1>2, AllIdsKept, ScanNames DEF ScanIs
  <1>4. ScanIs(a, b, "quick", "none", FALSE)
    BY <1>3, CancelOne, ScanNames
  <1> HIDE DEF b
  <1>5. b \in Worlds /\ AllIds(b)
    BY <1>3, <1>4, AllIdsKept, ScanNames DEF ScanIs
  <1>6. ScanIs(b, c, "hidden", "none", FALSE)
    BY <1>5, CancelOne, ScanNames
  <1> HIDE DEF c
  <1>7. c \in Worlds /\ AllIds(c)
    BY <1>5, <1>6, AllIdsKept, ScanNames DEF ScanIs
  <1>8. RoamCleared(c, v) /\ SamePlace(c, v)
    BY <1>7, RoamStateClearFacts
  <1> HIDE DEF v
  <1>9. AllCancelled(w, v)
    BY <1>2, <1>4, <1>6, <1>7, <1>8 DEF AllCancelled, AllIds, ScanIs, RoamCleared, SamePlace,
                                        SameCalls, SameRoam, SameQuick, SameRoamScan,
                                        SameDbus, SameHidden, SamePeriodic, SameScans
  <1> QED
    BY <1>1, <1>9

\* The interface is free and nothing else is under way.
Loose(w) ==
    /\ w \in Worlds /\ AllIds(w)
    /\ w.net.conn = 0 /\ w.net.up = 0 /\ w.net.disc \in {"none", "free"} /\ ~w.net.ending
    /\ w.net.nr = "none" /\ w.net.ds = 0 /\ ~w.net.parsed /\ w.net.preauth = 0
    /\ ~w.st.fault /\ w.st.connect_pending_bss = 0 /\ ~w.st.pending_freed

\* netdev_disconnect() of station_free().
LEMMA LooseFacts ==
    ASSUME NEW w, Sound(w), Calm, Has("down"), w.st.state # "gone", w.net.disc = "none",
           ~w.net.ending
    PROVE  LET left == IF w.st.bss # 0 THEN NetdevDisconnect(w, "free") ELSE w
           IN  Loose(left) /\ NetStep(w.net, left.net)
  <1> DEFINE left == IF w.st.bss # 0 THEN NetdevDisconnect(w, "free") ELSE w
  <1>1. w \in Worlds /\ ~Has("low") /\ w.net.nr # "roam" /\ w.net.ending = FALSE
    BY CalmFacts DEF Sound, Roaming, Worlds
  <1>2. CASE w.st.bss = 0
    <2>1. w.net.conn = 0 /\ w.net.up = 0
      BY <1>1, <1>2 DEF Sound, Placed, Worlds, States
    <2>2. Loose(w)
      BY <1>1, <2>1 DEF Loose, AllIds, Sound, Interface, Placed, Waiting, Scanning, RoamId
    <2> QED
      BY <1>2, <2>2 DEF NetStep
  <1>3. CASE w.st.bss # 0
    <2>1. CanLeave(w)
      BY <1>1, <1>3 DEF CanLeave, Sound, Interface, Placed, Worlds, States, Idle,
                        Autoconnecting
    <2>2. left = NetdevDisconnect(w, "free")
      BY <1>3
    <2>3. CASE ~(w.net.conn # 0 /\ w.net.cb = "roam" /\ w.st.state = "roaming")
      <3> HIDE DEF left
      <3>1. LeftBy(w, left, "free")
        BY <1>1, <2>1, <2>2, <2>3, NetdevDisconnectFacts
      <3>2. Loose(left)
        BY <1>1, <3>1 DEF Loose, AllIds, LeftBy, SamePlace, SameCalls, SameRoam, SameQuick,
                          SameRoamScan, SameDbus, SameHidden, SamePeriodic, SameScans, Sound,
                          Placed, Waiting, Scanning, RoamId
      <3>3. NetStep(w.net, left.net)
        BY <1>1, <2>1, <3>1 DEF CanLeave, LeftBy, NetStep
      <3> QED
        BY <3>2, <3>3 DEF left
    <2>4. CASE w.net.conn # 0 /\ w.net.cb = "roam" /\ w.st.state = "roaming"
      <3> DEFINE u == NetFree(w)
                 v == [Disassociated(u) EXCEPT !.net.disc = "free"]
      <3>1. Freed(w, u)
        BY <1>1, NetFreeFacts
      <3>2. u.st.state = "roaming" => left = v
        BY <2>1, <2>2, <2>4 DEF NetdevDisconnect, Callback, RoamCb, RoamFailed
      <3> HIDE DEF u, left
      <3>3. Cut(u) /\ u.st = w.st
        BY <1>1, <2>4, <3>1 DEF Freed, OnlyNet, Cut, Sound, Interface, Placed, Waiting,
                                Scanning, Roaming, RoamId, ScanOwner, ReportOwner, DsOwner,
                                PreauthOwner, Idle, Autoconnecting
      <3>4. Sound(Disassociated(u)) /\ Disassociated(u).net = u.net /\ Disassociated(u) \in Worlds
        BY <3>3, CutSound DEF Sound
      <3>5. DiscIs(Disassociated(u), v, "free")
        BY <3>4, DiscUpdate
      <3> HIDE DEF v
      <3>6. Loose(v)
        BY <1>1, <3>1, <3>4, <3>5 DEF Loose, AllIds, Freed, DiscIs, OnlyNet, SameLink,
                                      SameWatches, Sound, Placed, Waiting, Scanning, RoamId
      <3>7. NetStep(w.net, v.net)
        BY <1>1, <2>1, <3>1, <3>4, <3>5 DEF CanLeave, NetStep, Freed, DiscIs, SameLink
      <3> QED
        BY <2>4, <3>2, <3>3, <3>6, <3>7 DEF left
    <2> QED
      BY <2>3, <2>4
  <1> QED
    BY <1>2, <1>3

\* station_free().
LEMMA DownGood ==
    ASSUME NEW w, Sound(w), Calm, Has("down"), w.st.state # "gone", w.net.disc = "none",
           ~w.net.ending
    PROVE  LET left == IF w.st.bss # 0 THEN NetdevDisconnect(w, "free") ELSE w
               free == CancelAllScans([left EXCEPT !.sc.periodic = "none"])
           IN  Good(w, [free EXCEPT
                  !.st = [@ EXCEPT !.state = "gone", !.network = 0, !.bss = 0,
                          !.netconfig = FALSE, !.connect_pending = FALSE,
                          !.hidden_pending = FALSE, !.disconnect_pending = FALSE,
                          !.scan_pending = FALSE, !.autoconnect = FALSE]])
  <1> DEFINE left == IF w.st.bss # 0 THEN NetdevDisconnect(w, "free") ELSE w
             off == [left EXCEPT !.sc.periodic = "none"]
             free == CancelAllScans(off)
             v == [free EXCEPT
                     !.st = [@ EXCEPT !.state = "gone", !.network = 0, !.bss = 0,
                             !.netconfig = FALSE, !.connect_pending = FALSE,
                             !.hidden_pending = FALSE, !.disconnect_pending = FALSE,
                             !.scan_pending = FALSE, !.autoconnect = FALSE]]
  <1>1. Loose(left) /\ NetStep(w.net, left.net)
    BY LooseFacts
  <1> HIDE DEF left
  <1>2. /\ off \in Worlds /\ off.net = left.net /\ off.st = left.st
        /\ SameQuick(left, off) /\ SameRoamScan(left, off) /\ SameDbus(left, off)
        /\ SameHidden(left, off) /\ off.sc.periodic = "none"
    BY <1>1, PeriodicUpdate DEF Loose
  <1> HIDE DEF off
  <1>3. AllIds(off)
    BY <1>1, <1>2 DEF Loose, AllIds, SamePlace, SameCalls, SameRoam, SameQuick, SameRoamScan,
                      SameDbus, SameHidden, SamePeriodic, SameScans
  <1>4. AllCancelled(off, free)
    BY <1>2, <1>3, CancelAllFacts
  <1> HIDE DEF free
  <1>5. free \in Worlds
    BY <1>4 DEF AllCancelled
  <1>v1. v.net = free.net /\ v.sc = free.sc /\ v.st.id = free.st.id
    BY <1>5 DEF Worlds
  <1>n. "gone" \in States /\ 0 \in Networks \cup {0} /\ 0 \in Maybe
    BY StateNames DEF Maybe
  <1>v2. v \in Worlds
    <2> DEFINE x == [free EXCEPT !.st = [@ EXCEPT !.state = "gone", !.network = 0, !.bss = 0,
                                          !.netconfig = FALSE, !.connect_pending = FALSE]]
               y == [x EXCEPT !.st = [@ EXCEPT !.hidden_pending = FALSE,
                                       !.disconnect_pending = FALSE, !.scan_pending = FALSE,
                                       !.autoconnect = FALSE]]
    <2>1. x \in Worlds
      BY <1>5, <1>n, ZenonT(60) DEF Worlds
    <2>2. y = v
      BY <1>5 DEF Worlds
    <2> HIDE DEF x
    <2>3. y \in Worlds
      BY <2>1, ZenonT(60) DEF Worlds
    <2> QED
      BY <2>2, <2>3
  <1>v3. SameRoam(free, v)
    BY <1>5 DEF Worlds, SameRoam
  <1>v4. /\ v.st.state = "gone" /\ v.st.network = 0 /\ v.st.bss = 0
          /\ v.st.netconfig = FALSE /\ v.st.autoconnect = FALSE
          /\ v.st.connect_pending = FALSE
          /\ v.st.connect_pending_bss = free.st.connect_pending_bss
          /\ v.st.pending_freed = free.st.pending_freed /\ v.st.disconnect_pending = FALSE
          /\ v.st.scan_pending = FALSE /\ v.st.hidden_pending = FALSE
          /\ v.st.subset = free.st.subset /\ v.st.fault = free.st.fault
    BY <1>5 DEF Worlds
  <1> HIDE DEF v
  <1>6. Sound(v)
    <2> USE <1>1, <1>2, <1>4, <1>v1, <1>v3, <1>v4
       DEF Loose, AllIds, AllCancelled, SamePlace, SameCalls, SameRoam, SameQuick,
           SameRoamScan, SameDbus, SameHidden, SamePeriodic, SameScans, OnlyNet, SameLink,
           SameWatches, Sound, Lax, Interface, Placed, Waiting, Scanning, Roaming, RoamId,
           ScanOwner, ReportOwner, DsOwner, PreauthOwner, Idle, Autoconnecting
    <2>1. Interface(v) /\ Placed(v)
      OBVIOUS
    <2>2. Waiting(v)
      OBVIOUS
    <2>3. Scanning(v)
      OBVIOUS
    <2>4. Roaming(v) /\ RoamId(v)
      OBVIOUS
    <2> QED
      BY <1>v2, <2>1, <2>2, <2>3, <2>4
  <1>7. v.net = left.net
    BY <1>2, <1>4, <1>v1 DEF AllCancelled
  <1>8. NetStep(w.net, v.net) /\ Asked(w, v)
    BY <1>1, <1>7 DEF Asked, Loose
  <1>9. Good(w, v)
    BY <1>6, <1>8 DEF Good
  <1> QED
    BY <1>9 DEF v, free, off, left

-----------------------------------------------------------------------------
(* The results of scans that look for networks. *)

\* station_autoconnect_next() has found one: the quick scan, if any, is over.
Autoconnected(w, v) ==
    /\ v \in Worlds
    /\ w.net.conn = 0 /\ w.net.up = 0 /\ w.st.state \in Autoconnecting
    /\ v.net.conn \in Bsses /\ v.net.cb = "connect" /\ v.net.up = 0
    /\ SameWatches(w.net, v.net)
    /\ v.st.state = "connecting" /\ v.st.netconfig = w.st.netconfig
    /\ v.st.bss = v.net.conn /\ v.st.network = NetworkOf[v.net.conn]
    /\ SameCalls(w, v) /\ SameRoam(w, v)
    /\ SameRoamScan(w, v) /\ SameDbus(w, v) /\ SameHidden(w, v)
    /\ v.sc.periodic = "none"
    /\ v.st.id.quick = FALSE
    /\ v.sc.quick = IF w.st.id.quick THEN "none" ELSE w.sc.quick

LEMMA AutoconnectFacts ==
    ASSUME NEW w \in Worlds, w.st.state \in Autoconnecting
    PROVE  AutoconnectNext(w) = w \/ Autoconnected(w, AutoconnectNext(w))
  <1> DEFINE good == {b \in w.nets.seen \ w.nets.blacklist :
                         /\ NetworkOf[b] \in w.nets.known \ w.nets.ask_passphrase
                         /\ CanConnect(w, b)}
             b == Least(good)
             net1 == ConnectNetwork(w, b)
             on == EnterState(net1, "connecting")
             c == ScanCancel(on, "quick")
             d == [c EXCEPT !.st.id.quick = FALSE]
  <1>1. AutoconnectNext(w) = IF good = {} THEN w ELSE IF w.st.id.quick THEN d ELSE on
    BY DEF AutoconnectNext
  <1>2. good \subseteq Bsses
    BY DEF Worlds
  <1>3. \A x \in good : CanConnect(w, x)
    OBVIOUS
  <1> HIDE DEF good
  <1>4. CASE good = {}
    BY <1>1, <1>4
  <1>5. CASE good # {}
    <2>1. b \in Bsses
      BY <1>2, <1>5, BestBss
    <2>2. w.net.conn = 0 /\ w.net.up = 0
      BY <1>3, <1>5 DEF CanConnect
    <2> HIDE DEF b
    <2>3. Connects(w, net1, b)
      BY <2>1, ConnectNetworkFacts
    <2> HIDE DEF net1
    <2>4. Off(net1, on, "connecting")
      BY <2>3, EnterOff DEF Connects
    <2> HIDE DEF on
    <2>5. on \in Worlds /\ on.net = net1.net
      BY <2>4 DEF Off, EnterFrame
    <2>6. CASE ~w.st.id.quick
      <3>1. w.st.id.quick = FALSE
        BY <2>6, ScanNames DEF Worlds
      <3>2. Autoconnected(w, on)
        BY <2>1, <2>2, <2>3, <2>4, <2>5, <3>1
           DEF Autoconnected, Connects, Off, EnterFrame, SameWatches, SamePlace, SameCalls,
               SameRoam, SameQuick, SameRoamScan, SameDbus, SameHidden, SamePeriodic,
               SameScans
      <3> QED
        BY <1>1, <1>5, <2>6, <3>2
    <2>7. CASE w.st.id.quick
      <3>1. on.sc.quick = "none" => c = on
        BY <2>5, ScanCancelFacts, ScanNames
      <3>2. on.sc.quick # "none" => ScanIs(on, c, "quick", "none", FALSE)
        BY <2>5, ScanCancelFacts, ScanNames
      <3> HIDE DEF c
      <3>3. c \in Worlds /\ c.net = on.net /\ c.sc.quick = "none"
        BY <2>5, <3>1, <3>2 DEF ScanIs
      <3>4. /\ SamePlace(on, c) /\ SameCalls(on, c) /\ SameRoam(on, c) /\ SamePeriodic(on, c)
            /\ SameRoamScan(on, c) /\ SameDbus(on, c) /\ SameHidden(on, c)
        BY <3>1, <3>2 DEF ScanIs, SamePlace, SameCalls, SameRoam, SameQuick, SameRoamScan, SameDbus,
                    SameHidden, SamePeriodic, SameScans
      <3>5. ScanIs(c, d, "quick", c.sc.quick, FALSE)
        BY <3>3, DestroyFacts, ScanNames
      <3> HIDE DEF d
      <3>6. d \in Worlds /\ d.net = net1.net
        BY <2>5, <3>3, <3>5 DEF ScanIs
      <3>7. Autoconnected(w, d)
        BY <2>1, <2>2, <2>3, <2>4, <2>7, <3>3, <3>4, <3>5, <3>6
           DEF Autoconnected, Connects, Off, EnterFrame, ScanIs, SameWatches, SamePlace,
               SameCalls, SameRoam, SameQuick, SameRoamScan, SameDbus, SameHidden,
               SamePeriodic, SameScans
      <3> QED
        BY <1>1, <1>5, <2>7, <3>7
    <2> QED
      BY <2>6, <2>7
  <1> QED
    BY <1>4, <1>5

\* station_set_scan_results(), while no Connect waits for a disconnect.
LEMMA SetResultsFacts ==
    ASSUME NEW w \in Worlds, NEW seen \in SUBSET Bsses,
           w.st.connect_pending_bss = 0, w.st.pending_freed = FALSE
    PROVE  \/ OnlyNets(w, SetScanResults(w, seen))
           \/ Autoconnected(w, SetScanResults(w, seen))
  <1> DEFINE set == [w EXCEPT !.nets = [@ EXCEPT !.seen = seen, !.temporary = {}],
                              !.st.pending_freed = w.st.connect_pending_bss # 0]
  <1>1. SetScanResults(w, seen) = IF w.st.state \in Autoconnecting THEN AutoconnectNext(set)
                                  ELSE set
    BY DEF SetScanResults
  <1>s1. set.net = w.net /\ set.sc = w.sc /\ set.st.id = w.st.id
    BY w \in Worlds DEF Worlds
  <1>s2. set \in Worlds
    BY w \in Worlds, ZenonT(60) DEF Worlds
  <1>s3. SamePlace(w, set) /\ SameRoam(w, set)
    BY w \in Worlds DEF Worlds, SamePlace, SameRoam
  <1>s4. /\ set.st.autoconnect = w.st.autoconnect
          /\ set.st.connect_pending = w.st.connect_pending
          /\ set.st.connect_pending_bss = w.st.connect_pending_bss
          /\ set.st.pending_freed = (w.st.connect_pending_bss # 0)
          /\ set.st.disconnect_pending = w.st.disconnect_pending
          /\ set.st.scan_pending = w.st.scan_pending
          /\ set.st.hidden_pending = w.st.hidden_pending /\ set.st.subset = w.st.subset
          /\ set.st.fault = w.st.fault
    BY w \in Worlds DEF Worlds
  <1> HIDE DEF set
  <1>2. OnlyNets(w, set)
    BY <1>s1, <1>s2, <1>s3, <1>s4 DEF OnlyNets, SamePlace, SameCalls, SameRoam, SameQuick,
                                      SameRoamScan, SameDbus, SameHidden, SamePeriodic,
                                      SameScans
  <1>3. CASE w.st.state \notin Autoconnecting
    BY <1>1, <1>2, <1>3
  <1>4. CASE w.st.state \in Autoconnecting
    <2> DEFINE v == AutoconnectNext(set)
    <2>1. v = set \/ Autoconnected(set, v)
      BY <1>2, <1>4, AutoconnectFacts DEF OnlyNets, SamePlace
    <2> HIDE DEF v
    <2>2. CASE Autoconnected(set, v)
      <3>1. Autoconnected(w, v)
        BY <1>2, <2>2 DEF Autoconnected, OnlyNets, SameWatches, SamePlace, SameCalls,
                          SameRoam, SameQuick, SameRoamScan, SameDbus, SameHidden,
                          SamePeriodic, SameScans
      <3> QED
        BY <1>1, <1>4, <3>1 DEF v
    <2>3. CASE v = set
      BY <1>1, <1>2, <1>4, <2>3 DEF v
    <2> QED
      BY <2>1, <2>2, <2>3
  <1> QED
    BY <1>3, <1>4

LEMMA AutoconnectedGood ==
    ASSUME NEW w, Sound(w), NEW v, Autoconnected(w, v)
    PROVE  Good(w, v)
  <1>1. v \in Worlds /\ v.net.conn # 0 /\ NetworkOf[v.net.conn] # 0
    BY NetworkFacts DEF Autoconnected
  <1>2. Sound(v)
    <2> USE <1>1 DEF Autoconnected, SamePlace, SameCalls, SameRoam, SameQuick, SameRoamScan,
                     SameDbus, SameHidden, SamePeriodic, SameScans, OnlyNet, SameLink,
                     SameWatches, Sound, Lax, Interface, Placed, Waiting, Scanning, Roaming,
                     RoamId, ScanOwner, ReportOwner, DsOwner, PreauthOwner, Idle,
                     Autoconnecting
    <2>1. Interface(v) /\ Placed(v)
      OBVIOUS
    <2>2. Waiting(v)
      OBVIOUS
    <2>3. Scanning(v)
      OBVIOUS
    <2>4. Roaming(v) /\ RoamId(v)
      OBVIOUS
    <2> QED
      BY <1>1, <2>1, <2>2, <2>3, <2>4
  <1>3. NetStep(w.net, v.net) /\ Asked(w, v)
    BY DEF NetStep, Asked, Autoconnected, SameWatches, Sound, Placed, Scanning, Idle,
           Autoconnecting
  <1> QED
    BY <1>2, <1>3 DEF Good

\* new_scan_results(), of the periodic scan.
LEMMA NewScanResultsGood ==
    ASSUME NEW w, Sound(w), w.sc.periodic = "on", NEW seen \in SUBSET Bsses
    PROVE  Good(w, SetScanResults(w, seen))
  <1>1. w.st.connect_pending_bss = 0 /\ w.st.pending_freed = FALSE /\ w \in Worlds
    BY DEF Sound, Worlds, Placed, Waiting, Scanning, Idle, Autoconnecting
  <1>2. \/ OnlyNets(w, SetScanResults(w, seen))
        \/ Autoconnected(w, SetScanResults(w, seen))
    BY <1>1, SetResultsFacts
  <1> QED
    BY <1>2, OnlyNetsStep, AutoconnectedGood

\* After the callback of the quick scan, the full scan.
LEMMA FullAfterQuick ==
    ASSUME NEW w, Sound(w), w.sc.quick # "none", w.st.state = "quick" \/ Has("scanfail"),
           NEW u, ScanIs(w, u, "quick", "none", w.st.id["quick"]), NEW r, OnlyNets(u, r)
    PROVE  Good(w, ScanDestroy(EnterState(r, "full"), "quick"))
  <1> DEFINE o == EnterState(r, "full")
             d == ScanDestroy(o, "quick")
  <1>1. Full(r, o)
    BY EnterFull DEF OnlyNets
  <1> HIDE DEF o
  <1>2. ScanIs(o, d, "quick", o.sc.quick, FALSE)
    BY <1>1, DestroyFacts, ScanNames DEF ScanDestroy, Full, EnterFrame
  <1> HIDE DEF d
  <1>3. d \in Worlds /\ d.net = w.net
    BY <1>1, <1>2 DEF ScanIs, Full, EnterFrame, OnlyNets
  <1>4. Sound(d)
    <2> USE <1>1, <1>2 DEF ScanIs, Full, EnterFrame, OnlyNets, SamePlace, SameCalls, SameRoam,
                           SameQuick, SameRoamScan, SameDbus, SameHidden, SamePeriodic,
                           SameScans, OnlyNet, SameLink, SameWatches, Sound, Lax, Interface,
                           Placed, Waiting, Scanning, Roaming, RoamId, ScanOwner, ReportOwner,
                           DsOwner, PreauthOwner, Idle, Autoconnecting
    <2>1. Interface(d) /\ Placed(d)
      OBVIOUS
    <2>2. Waiting(d)
      OBVIOUS
    <2>3. Scanning(d)
      OBVIOUS
    <2>4. Roaming(d) /\ RoamId(d)
      OBVIOUS
    <2> QED
      BY <1>3, <2>1, <2>2, <2>3, <2>4
  <1> QED
    BY <1>3, <1>4, QuietStep DEF d, o

LEMMA SameAfterQuick ==
    ASSUME NEW w, Sound(w), w.st.state # "quick",
           NEW u, ScanIs(w, u, "quick", "none", w.st.id["quick"]), NEW r, OnlyNets(u, r)
    PROVE  Good(w, ScanDestroy(r, "quick"))
  <1> DEFINE d == ScanDestroy(r, "quick")
  <1>2. ScanIs(r, d, "quick", r.sc.quick, FALSE)
    BY DestroyFacts, ScanNames DEF ScanDestroy, OnlyNets
  <1> HIDE DEF d
  <1>3. d \in Worlds /\ d.net = w.net
    BY <1>2 DEF ScanIs, OnlyNets
  <1>4. Sound(d)
    <2> USE <1>2 DEF ScanIs, OnlyNets, SamePlace, SameCalls, SameRoam, SameQuick,
                     SameRoamScan, SameDbus, SameHidden, SamePeriodic, SameScans, OnlyNet,
                     SameLink, SameWatches, Sound, Lax, Interface, Placed, Waiting, Scanning,
                     Roaming, RoamId, ScanOwner, ReportOwner, DsOwner, PreauthOwner, Idle,
                     Autoconnecting
    <2>1. Interface(d) /\ Placed(d)
      OBVIOUS
    <2>2. Waiting(d)
      OBVIOUS
    <2>3. Scanning(d)
      OBVIOUS
    <2>4. Roaming(d) /\ RoamId(d)
      OBVIOUS
    <2> QED
      BY <1>3, <2>1, <2>2, <2>3, <2>4
  <1> QED
    BY <1>3, <1>4, QuietStep DEF d

LEMMA QuickScanOverGood ==
    ASSUME NEW w, Sound(w), w.sc.quick # "none",
           NEW u, ScanIs(w, u, "quick", "none", w.st.id["quick"]), NEW r, OnlyNets(u, r)
    PROVE  Good(w, ScanDestroy(QuickScanOver(r), "quick"))
  <1>1. r.st.state = w.st.state
    BY DEF ScanIs, OnlyNets, SamePlace
  <1> QED
    BY <1>1, FullAfterQuick, SameAfterQuick DEF QuickScanOver

\* station_quick_scan_results().
LEMMA QuickScanResultsGood ==
    ASSUME NEW w, Sound(w), w.sc["quick"] = "triggered", NEW seen \in SUBSET Bsses
    PROVE  LET u == [w EXCEPT !.sc["quick"] = "none"]
           IN  /\ Good(w, ScanDestroy(QuickScanOver(SetScanResults(u, seen)), "quick"))
               /\ Good(w, ScanDestroy(QuickScanOver(u), "quick"))
  <1> DEFINE u == [w EXCEPT !.sc["quick"] = "none"]
             r == SetScanResults(u, seen)
  <1>1. ScanIs(w, u, "quick", "none", w.st.id["quick"])
    BY DoneFacts, ScanNames DEF Sound
  <1> HIDE DEF u
  <1>2. u \in Worlds
    BY <1>1 DEF ScanIs
  <1>3. Good(w, ScanDestroy(QuickScanOver(u), "quick"))
    BY <1>1, <1>2, OnlyNetsRefl, QuickScanOverGood
  <1>4. u.st.connect_pending_bss = 0 /\ u.st.pending_freed = FALSE /\ w.st.id.quick
    BY <1>1, <1>2 DEF Sound, Worlds, Placed, Waiting, Scanning, ScanIs, SameCalls, Idle,
                      Autoconnecting
  <1>5. OnlyNets(u, r) \/ Autoconnected(u, r)
    BY <1>2, <1>4, SetResultsFacts
  <1> HIDE DEF r
  <1>6. CASE OnlyNets(u, r)
    BY <1>1, <1>3, <1>6, QuickScanOverGood DEF u, r
  <1>7. CASE Autoconnected(u, r)
    <2> DEFINE d == ScanDestroy(r, "quick")
    <2>1. QuickScanOver(r) = r
      BY <1>7 DEF QuickScanOver, Autoconnected
    <2>2. ScanIs(r, d, "quick", r.sc.quick, FALSE)
      BY <1>7, DestroyFacts, ScanNames DEF ScanDestroy, Autoconnected
    <2> HIDE DEF d
    <2>3. Autoconnected(w, d)
      BY <1>1, <1>4, <1>7, <2>2 DEF Autoconnected, ScanIs, SamePlace, SameCalls, SameRoam,
                                    SameQuick, SameRoamScan, SameDbus, SameHidden,
                                    SamePeriodic, SameScans
    <2>4. Good(w, d)
      BY <2>3, AutoconnectedGood
    <2> QED
      BY <1>3, <2>1, <2>4 DEF d, u, r
  <1> QED
    BY <1>5, <1>6, <1>7

\* station_dbus_scan_results(): the scan is over, with or without an error.
LEMMA DbusScanOver ==
    ASSUME NEW w, Sound(w), w.sc["dbus"] = "triggered",
           NEW u, ScanIs(w, u, "dbus", "none", w.st.id["dbus"])
    PROVE  LET over == [u EXCEPT !.st.id.dbus = FALSE]
           IN  /\ Good(w, over) /\ Sound(over) /\ ScanIs(u, over, "dbus", "none", FALSE)
  <1> DEFINE o == [u EXCEPT !.st.id.dbus = FALSE]
  <1>1. ScanIs(u, o, "dbus", u.sc["dbus"], FALSE)
    BY DestroyFacts, ScanNames DEF ScanIs
  <1> HIDE DEF o
  <1>2. o \in Worlds /\ o.net = w.net
    BY <1>1 DEF ScanIs
  <1>3. Sound(o)
    <2> USE <1>1 DEF ScanIs, SamePlace, SameCalls, SameRoam, SameQuick, SameRoamScan,
                     SameDbus, SameHidden, SamePeriodic, SameScans, OnlyNet, SameLink,
                     SameWatches, Sound, Lax, Interface, Placed, Waiting, Scanning, Roaming,
                     RoamId, ScanOwner, ReportOwner, DsOwner, PreauthOwner, Idle,
                     Autoconnecting
    <2>1. Interface(o) /\ Placed(o)
      OBVIOUS
    <2>2. Waiting(o)
      OBVIOUS
    <2>3. Scanning(o)
      OBVIOUS
    <2>4. Roaming(o) /\ RoamId(o)
      OBVIOUS
    <2> QED
      BY <1>2, <2>1, <2>2, <2>3, <2>4
  <1>4. ScanIs(u, o, "dbus", "none", FALSE)
    BY <1>1 DEF ScanIs
  <1> QED
    BY <1>2, <1>3, <1>4, QuietStep DEF o

\* station_dbus_scan_results(): the results of a band, then the next one.
LEMMA DbusScanResultsGood ==
    ASSUME NEW w, Sound(w), Calm, w.sc["dbus"] = "triggered", NEW seen \in SUBSET Bsses
    PROVE  LET u == [w EXCEPT !.sc["dbus"] = "none"]
               set == [SetScanResults(u, seen) EXCEPT !.st.subset = @ + 1]
           IN  Good(w, IF MoreSubsets(set.st.subset) THEN ScanStart(set, "dbus")
                       ELSE [set EXCEPT !.st.id.dbus = FALSE])
  <1> DEFINE u == [w EXCEPT !.sc["dbus"] = "none"]
             o == [u EXCEPT !.st.id.dbus = FALSE]
             r == SetScanResults(u, seen)
             d == [r EXCEPT !.st.id.dbus = FALSE]
             set == [r EXCEPT !.st.subset = @ + 1]
             f == ScanStart(set, "dbus")
             g == [set EXCEPT !.st.id.dbus = FALSE]
  <1>1. ScanIs(w, u, "dbus", "none", w.st.id["dbus"])
    BY DoneFacts, ScanNames DEF Sound
  <1> HIDE DEF u
  <1>2. Sound(o) /\ ScanIs(u, o, "dbus", "none", FALSE) /\ u \in Worlds
    BY <1>1, DbusScanOver DEF ScanIs
  <1> HIDE DEF o
  <1>3. /\ Has("scan") /\ w.st.subset < Subsets /\ w.st.subset \in 0 .. Subsets
        /\ w.st.state # "gone"
        /\ u.st.connect_pending_bss = 0 /\ u.st.pending_freed = FALSE
    BY <1>1, <1>2, CalmFacts DEF Sound, Worlds, Waiting, Scanning, ScanIs, SameCalls
  <1>4. OnlyNets(u, r) \/ Autoconnected(u, r)
    BY <1>2, <1>3, SetResultsFacts
  <1> HIDE DEF r
  <1>5. r \in Worlds /\ r.st.subset = w.st.subset
    BY <1>1, <1>4 DEF ScanIs, OnlyNets, Autoconnected, SameCalls
  <1>6. ScanIs(r, d, "dbus", r.sc["dbus"], FALSE)
    BY <1>5, DestroyFacts, ScanNames
  <1> HIDE DEF d
  <1>7. d.sc.dbus = "none"
    BY <1>1, <1>4, <1>6 DEF ScanIs, OnlyNets, Autoconnected, SameScans, SameDbus
  <1>8. OnlyNets(o, d) \/ Autoconnected(o, d)
    <2>1. CASE OnlyNets(u, r)
      BY <1>2, <1>6, <1>7, <2>1, ZenonT(60) DEF OnlyNets, ScanIs, SamePlace, SameCalls, SameRoam,
                                    SameQuick, SameRoamScan, SameDbus, SameHidden,
                                    SamePeriodic, SameScans
    <2>2. CASE Autoconnected(u, r)
      <3>1. d \in Worlds /\ d.net = r.net /\ o.net = u.net /\ o.st.state = u.st.state
        BY <1>2, <1>6 DEF ScanIs, SamePlace
      <3>2. /\ SamePlace(r, d) /\ d.st.netconfig = o.st.netconfig
            /\ SameCalls(o, d) /\ SameRoam(o, d) /\ SamePeriodic(r, d)
        BY <1>2, <1>6, <2>2 DEF Autoconnected, ScanIs, SamePlace, SameCalls, SameRoam
      <3>3. /\ SameRoamScan(o, d) /\ SameDbus(o, d) /\ SameHidden(o, d)
            /\ SameQuick(r, d) /\ SameQuick(u, o)
        BY <1>2, <1>6, <1>7, <2>2 DEF Autoconnected, ScanIs, SameRoamScan, SameDbus, SameHidden
      <3> QED
        BY <2>2, <3>1, <3>2, <3>3 DEF Autoconnected, SamePlace, SameQuick, SamePeriodic
    <2> QED
      BY <1>4, <2>1, <2>2
  <1>9. Good(o, d)
    BY <1>2, <1>8, OnlyNetsStep, AutoconnectedGood
  <1>10. Sound(d) /\ NetStep(w.net, d.net) /\ Asked(w, d)
    BY <1>1, <1>2, <1>9 DEF Good, Asked, ScanIs, SamePlace, SameCalls
  <1>11. r.st.subset + 1 \in 0 .. Subsets
    BY <1>3, <1>5 DEF Subsets
  <1>s1. set.net = r.net /\ set.sc = r.sc /\ set.st.id = r.st.id
    BY <1>5 DEF Worlds
  <1>s2. set \in Worlds
    BY <1>5, <1>11 DEF Worlds
  <1>s3. SamePlace(r, set) /\ SameRoam(r, set)
    BY <1>5 DEF Worlds, SamePlace, SameRoam
  <1>s4. /\ set.st.autoconnect = r.st.autoconnect
          /\ set.st.connect_pending = r.st.connect_pending
          /\ set.st.connect_pending_bss = r.st.connect_pending_bss
          /\ set.st.pending_freed = r.st.pending_freed
          /\ set.st.disconnect_pending = r.st.disconnect_pending
          /\ set.st.scan_pending = r.st.scan_pending
          /\ set.st.hidden_pending = r.st.hidden_pending /\ set.st.subset = r.st.subset + 1
          /\ set.st.fault = r.st.fault
    BY <1>5 DEF Worlds
  <1> HIDE DEF set
  <1>12. ScanIs(set, f, "dbus", "queued", TRUE)
    BY <1>s2, ScanStartFacts, ScanNames
  <1>13. ScanIs(set, g, "dbus", set.sc["dbus"], FALSE)
    BY <1>s2, DestroyFacts, ScanNames
  <1> HIDE DEF f, g
  <1>14. d.st.state # "gone"
    BY <1>2, <1>8, <1>1, <1>3 DEF OnlyNets, Autoconnected, ScanIs, SamePlace
  <1>15. CASE MoreSubsets(set.st.subset)
    <2>1. f.st.subset < Subsets
      BY <1>12, <1>15 DEF MoreSubsets, ScanIs, SameCalls
    <2>2. f \in Worlds /\ f.net = d.net
      BY <1>6, <1>12, <1>s1 DEF ScanIs
    <2>3. SamePlace(d, f) /\ SameRoam(d, f) /\ SamePeriodic(d, f)
      BY <1>6, <1>12, <1>s1, <1>s3 DEF ScanIs, SamePlace, SameCalls, SameRoam, SameQuick,
                                       SameRoamScan, SameDbus, SameHidden, SamePeriodic,
                                       SameScans
    <2>4. /\ f.st.autoconnect = d.st.autoconnect /\ f.st.connect_pending = d.st.connect_pending
          /\ f.st.connect_pending_bss = d.st.connect_pending_bss
          /\ f.st.pending_freed = d.st.pending_freed /\ f.st.fault = d.st.fault
          /\ f.st.disconnect_pending = d.st.disconnect_pending
          /\ f.st.scan_pending = d.st.scan_pending /\ f.st.hidden_pending = d.st.hidden_pending
      BY <1>6, <1>12, <1>s4 DEF ScanIs, SameCalls
    <2>5. /\ SameQuick(d, f) /\ SameRoamScan(d, f) /\ SameHidden(d, f)
          /\ f.sc.dbus = "queued" /\ f.st.id.dbus = TRUE
      BY <1>6, <1>12, <1>s1 DEF ScanIs, SameQuick, SameRoamScan, SameHidden
    <2>6. Sound(f)
      <3> USE <1>3, <1>7, <1>10, <1>14, <2>1, <2>2, <2>3, <2>4, <2>5
         DEF SamePlace, SameCalls, SameRoam, SameQuick, SameRoamScan, SameDbus, SameHidden,
             SamePeriodic, SameScans, OnlyNet, SameLink, SameWatches, Sound, Lax, Interface,
             Placed, Waiting, Scanning, Roaming, RoamId, ScanOwner, ReportOwner, DsOwner,
             PreauthOwner, Idle, Autoconnecting
      <3>1. Interface(f) /\ Placed(f)
        OBVIOUS
      <3>2. Waiting(f)
        OBVIOUS
      <3>3. Scanning(f)
        OBVIOUS
      <3>4. Roaming(f) /\ RoamId(f)
        OBVIOUS
      <3> QED
        BY <2>2, <3>1, <3>2, <3>3, <3>4
    <2>7. NetStep(w.net, f.net) /\ Asked(w, f)
      BY <1>10, <2>2, <2>4 DEF Asked
    <2>8. Good(w, f)
      BY <2>6, <2>7 DEF Good
    <2> QED
      BY <1>15, <2>8 DEF f, set, r, u
  <1>16. CASE ~MoreSubsets(set.st.subset)
    <2>2. g \in Worlds /\ g.net = d.net
      BY <1>6, <1>13, <1>s1 DEF ScanIs
    <2>3. SamePlace(d, g) /\ SameRoam(d, g) /\ SamePeriodic(d, g)
      BY <1>6, <1>13, <1>s1, <1>s3 DEF ScanIs, SamePlace, SameCalls, SameRoam, SameQuick,
                                       SameRoamScan, SameDbus, SameHidden, SamePeriodic,
                                       SameScans
    <2>4. /\ g.st.autoconnect = d.st.autoconnect /\ g.st.connect_pending = d.st.connect_pending
          /\ g.st.connect_pending_bss = d.st.connect_pending_bss
          /\ g.st.pending_freed = d.st.pending_freed /\ g.st.fault = d.st.fault
          /\ g.st.disconnect_pending = d.st.disconnect_pending
          /\ g.st.scan_pending = d.st.scan_pending /\ g.st.hidden_pending = d.st.hidden_pending
      BY <1>6, <1>13, <1>s4 DEF ScanIs, SameCalls
    <2>5. /\ SameQuick(d, g) /\ SameRoamScan(d, g) /\ SameHidden(d, g)
          /\ g.sc.dbus = "none" /\ g.st.id.dbus = FALSE
      BY <1>6, <1>7, <1>13, <1>s1 DEF ScanIs, SameQuick, SameRoamScan, SameHidden
    <2>6. Sound(g)
      <3> USE <1>7, <1>10, <2>2, <2>3, <2>4, <2>5
         DEF SamePlace, SameCalls, SameRoam, SameQuick, SameRoamScan, SameDbus, SameHidden,
             SamePeriodic, SameScans, OnlyNet, SameLink, SameWatches, Sound, Lax, Interface,
             Placed, Waiting, Scanning, Roaming, RoamId, ScanOwner, ReportOwner, DsOwner,
             PreauthOwner, Idle, Autoconnecting
      <3>1. Interface(g) /\ Placed(g)
        OBVIOUS
      <3>2. Waiting(g)
        OBVIOUS
      <3>3. Scanning(g)
        OBVIOUS
      <3>4. Roaming(g) /\ RoamId(g)
        OBVIOUS
      <3> QED
        BY <2>2, <3>1, <3>2, <3>3, <3>4
    <2>7. NetStep(w.net, g.net) /\ Asked(w, g)
      BY <1>10, <2>2, <2>4 DEF Asked
    <2>8. Good(w, g)
      BY <2>6, <2>7 DEF Good
    <2> QED
      BY <1>16, <2>8 DEF g, set, r, u
  <1> QED
    BY <1>15, <1>16

\* The id of a scan, in a record of ids.
LEMMA IdCleared ==
    ASSUME NEW ids \in [Scans -> BOOLEAN], NEW k \in Scans
    PROVE  LET new == [ids EXCEPT ![k] = FALSE]
           IN  /\ new[k] = FALSE /\ new \in [Scans -> BOOLEAN]
               /\ \A j \in Scans : j # k => new[j] = ids[j]
  OBVIOUS

\* station_dbus_scan_triggered(), when the scan could not be started.
LEMMA DbusScanFailsGood ==
    ASSUME NEW w, Sound(w), w.sc["dbus"] = "queued"
    PROVE  LET u == [w EXCEPT !.sc["dbus"] = "none"]
           IN  Good(w, [u EXCEPT !.st = [@ EXCEPT !.scan_pending = FALSE, !.id.dbus = FALSE]])
  <1> DEFINE u == [w EXCEPT !.sc["dbus"] = "none"]
             v == [u EXCEPT !.st = [@ EXCEPT !.scan_pending = FALSE, !.id.dbus = FALSE]]
  <1>1. ScanIs(w, u, "dbus", "none", w.st.id["dbus"])
    BY DoneFacts, ScanNames DEF Sound
  <1> HIDE DEF u
  <1>2. u \in Worlds
    BY <1>1 DEF ScanIs
  <1>v1. v.net = u.net /\ v.sc = u.sc
    BY <1>2 DEF Worlds
  <1>v2. v \in Worlds
    BY <1>2 DEF Worlds
  <1>v3. SamePlace(u, v) /\ SameRoam(u, v)
    BY <1>2 DEF Worlds, SamePlace, SameRoam
  <1>v4. /\ v.st.autoconnect = u.st.autoconnect
          /\ v.st.connect_pending = u.st.connect_pending
          /\ v.st.connect_pending_bss = u.st.connect_pending_bss
          /\ v.st.pending_freed = u.st.pending_freed
          /\ v.st.disconnect_pending = u.st.disconnect_pending /\ v.st.scan_pending = FALSE
          /\ v.st.hidden_pending = u.st.hidden_pending /\ v.st.subset = u.st.subset
          /\ v.st.fault = u.st.fault
    BY <1>2 DEF Worlds
  <1>3. v.st.id = [u.st.id EXCEPT !["dbus"] = FALSE] /\ u.st.id \in [Scans -> BOOLEAN]
    BY <1>2 DEF Worlds
  <1> HIDE DEF v
  <1>4. /\ v.st.id.dbus = FALSE /\ v.st.id.quick = u.st.id.quick
        /\ v.st.id.roam = u.st.id.roam /\ v.st.id.hidden = u.st.id.hidden
    BY <1>3, IdCleared, ScanNames
  <1>5. Sound(v)
    <2> USE <1>1, <1>v1, <1>v3, <1>v4, <1>4
       DEF ScanIs, SamePlace, SameCalls, SameRoam, SameQuick, SameRoamScan, SameDbus,
           SameHidden, SamePeriodic, SameScans, OnlyNet, SameLink, SameWatches, Sound, Lax,
           Interface, Placed, Waiting, Scanning, Roaming, RoamId, ScanOwner, ReportOwner,
           DsOwner, PreauthOwner, Idle, Autoconnecting
    <2>1. Interface(v) /\ Placed(v)
      OBVIOUS
    <2>2. Waiting(v)
      OBVIOUS
    <2>3. Scanning(v)
      OBVIOUS
    <2>4. Roaming(v) /\ RoamId(v)
      OBVIOUS
    <2> QED
      BY <1>v2, <2>1, <2>2, <2>3, <2>4
  <1>6. v.net = w.net
    BY <1>1, <1>v1 DEF ScanIs
  <1> QED
    BY <1>5, <1>6, QuietStep DEF v, u

\* station_hidden_network_scan_triggered(), when the scan could not be started.
LEMMA HiddenScanFailsGood ==
    ASSUME NEW w, Sound(w), w.sc["hidden"] = "queued"
    PROVE  LET u == [w EXCEPT !.sc["hidden"] = "none"]
           IN  Good(w, ScanDestroy([u EXCEPT !.st.hidden_pending = FALSE], "hidden"))
  <1> DEFINE u == [w EXCEPT !.sc["hidden"] = "none"]
             v == [u EXCEPT !.st.hidden_pending = FALSE]
             d == ScanDestroy(v, "hidden")
  <1>1. ScanIs(w, u, "hidden", "none", w.st.id["hidden"])
    BY DoneFacts, ScanNames DEF Sound
  <1> HIDE DEF u
  <1>2. u \in Worlds
    BY <1>1 DEF ScanIs
  <1>v1. v.net = u.net /\ v.sc = u.sc /\ v.st.id = u.st.id
    BY <1>2 DEF Worlds
  <1>v2. v \in Worlds
    BY <1>2 DEF Worlds
  <1>v3. SamePlace(u, v) /\ SameRoam(u, v)
    BY <1>2 DEF Worlds, SamePlace, SameRoam
  <1>v4. /\ v.st.autoconnect = u.st.autoconnect
          /\ v.st.connect_pending = u.st.connect_pending
          /\ v.st.connect_pending_bss = u.st.connect_pending_bss
          /\ v.st.pending_freed = u.st.pending_freed
          /\ v.st.disconnect_pending = u.st.disconnect_pending
          /\ v.st.scan_pending = u.st.scan_pending /\ v.st.hidden_pending = FALSE
          /\ v.st.subset = u.st.subset /\ v.st.fault = u.st.fault
    BY <1>2 DEF Worlds
  <1> HIDE DEF v
  <1>3. ScanIs(v, d, "hidden", v.sc["hidden"], FALSE)
    BY <1>v2, DestroyFacts, ScanNames DEF ScanDestroy
  <1> HIDE DEF d
  <1>4. d \in Worlds /\ d.net = w.net
    BY <1>1, <1>3, <1>v1 DEF ScanIs
  <1>5. Sound(d)
    <2> USE <1>1, <1>v1, <1>v3, <1>v4, <1>3, <1>4
       DEF ScanIs, SamePlace, SameCalls, SameRoam, SameQuick, SameRoamScan, SameDbus,
           SameHidden, SamePeriodic, SameScans, OnlyNet, SameLink, SameWatches, Sound, Lax,
           Interface, Placed, Waiting, Scanning, Roaming, RoamId, ScanOwner, ReportOwner,
           DsOwner, PreauthOwner, Idle, Autoconnecting
    <2>1. Interface(d) /\ Placed(d)
      OBVIOUS
    <2>2. Waiting(d)
      OBVIOUS
    <2>3. Scanning(d)
      OBVIOUS
    <2>4. Roaming(d) /\ RoamId(d)
      OBVIOUS
    <2> QED
      BY <1>4, <2>1, <2>2, <2>3, <2>4
  <1> QED
    BY <1>4, <1>5, QuietStep DEF d, v, u

\* station_hidden_network_scan_results(), before a network is connected to.
LEMMA HiddenScanOver ==
    ASSUME NEW w, Sound(w), w.sc["hidden"] = "triggered"
    PROVE  LET u == [w EXCEPT !.sc["hidden"] = "none"]
               v == [u EXCEPT !.st = [@ EXCEPT !.hidden_pending = FALSE, !.id.hidden = FALSE]]
           IN  Good(w, v) /\ v.net = w.net /\ SamePlace(w, v) /\ v.nets = w.nets
               /\ v.st.autoconnect = w.st.autoconnect
  <1> DEFINE u == [w EXCEPT !.sc["hidden"] = "none"]
             v == [u EXCEPT !.st = [@ EXCEPT !.hidden_pending = FALSE, !.id.hidden = FALSE]]
  <1>1. ScanIs(w, u, "hidden", "none", w.st.id["hidden"]) /\ u.nets = w.nets
    BY DoneFacts, ScanNames DEF Sound, Worlds
  <1> HIDE DEF u
  <1>2. u \in Worlds
    BY <1>1 DEF ScanIs
  <1>v1. v.net = u.net /\ v.sc = u.sc
    BY <1>2 DEF Worlds
  <1>v2. v \in Worlds
    BY <1>2 DEF Worlds
  <1>v3. SamePlace(u, v) /\ SameRoam(u, v)
    BY <1>2 DEF Worlds, SamePlace, SameRoam
  <1>v4. /\ v.st.autoconnect = u.st.autoconnect
          /\ v.st.connect_pending = u.st.connect_pending
          /\ v.st.connect_pending_bss = u.st.connect_pending_bss
          /\ v.st.pending_freed = u.st.pending_freed
          /\ v.st.disconnect_pending = u.st.disconnect_pending
          /\ v.st.scan_pending = u.st.scan_pending /\ v.st.hidden_pending = FALSE
          /\ v.st.subset = u.st.subset /\ v.st.fault = u.st.fault
    BY <1>2 DEF Worlds
  <1>3. /\ v.st.id = [u.st.id EXCEPT !["hidden"] = FALSE] /\ u.st.id \in [Scans -> BOOLEAN]
        /\ v.nets = u.nets
    BY <1>2 DEF Worlds
  <1> HIDE DEF v
  <1>4. /\ v.st.id.hidden = FALSE /\ v.st.id.quick = u.st.id.quick
        /\ v.st.id.roam = u.st.id.roam /\ v.st.id.dbus = u.st.id.dbus
    BY <1>3, IdCleared, ScanNames
  <1>5. Sound(v)
    <2> USE <1>1, <1>v1, <1>v3, <1>v4, <1>4
       DEF ScanIs, SamePlace, SameCalls, SameRoam, SameQuick, SameRoamScan, SameDbus,
           SameHidden, SamePeriodic, SameScans, OnlyNet, SameLink, SameWatches, Sound, Lax,
           Interface, Placed, Waiting, Scanning, Roaming, RoamId, ScanOwner, ReportOwner,
           DsOwner, PreauthOwner, Idle, Autoconnecting
    <2>1. Interface(v) /\ Placed(v)
      OBVIOUS
    <2>2. Waiting(v)
      OBVIOUS
    <2>3. Scanning(v)
      OBVIOUS
    <2>4. Roaming(v) /\ RoamId(v)
      OBVIOUS
    <2> QED
      BY <1>v2, <2>1, <2>2, <2>3, <2>4
  <1>6. v.net = w.net /\ SamePlace(w, v) /\ v.nets = w.nets /\ v.st.autoconnect = w.st.autoconnect
    BY <1>1, <1>3, <1>v1, <1>v3, <1>v4 DEF ScanIs, SamePlace, SameCalls
  <1> QED
    BY <1>5, <1>6, QuietStep DEF v, u

\* station_hidden_network_scan_results(): the network that was found is connected to.
LEMMA HiddenScanResultsGood ==
    ASSUME NEW w, Sound(w), Calm, w.sc["hidden"] = "triggered", w.st.state # "roaming",
           NEW b \in Bsses
    PROVE  LET u == [w EXCEPT !.sc["hidden"] = "none"]
               v == [u EXCEPT !.st = [@ EXCEPT !.hidden_pending = FALSE, !.id.hidden = FALSE]]
               found == [v EXCEPT !.nets.seen = @ \cup {b}]
           IN  Good(w, StationConnect(found, Select(found, NetworkOf[b], TRUE)))
  <1> DEFINE u == [w EXCEPT !.sc["hidden"] = "none"]
             v == [u EXCEPT !.st = [@ EXCEPT !.hidden_pending = FALSE, !.id.hidden = FALSE]]
             found == [v EXCEPT !.nets.seen = @ \cup {b}]
             s == Select(found, NetworkOf[b], TRUE)
             z == StationConnect(found, s)
  <1>1. Sound(v) /\ v.net = w.net /\ SamePlace(w, v) /\ v.st.autoconnect = w.st.autoconnect
    BY HiddenScanOver DEF Good
  <1> HIDE DEF v
  <1>2. OnlyNets(v, found) /\ b \in found.nets.seen
    BY <1>1, SeenUpdate DEF Sound, Worlds
  <1> HIDE DEF found
  <1>3. Sound(found) /\ found \in Worlds
    BY <1>1, <1>2, OnlyNetsSound DEF OnlyNets
  <1>4. s \in Maybe /\ s # 0
    BY <1>2, <1>3, SelectFacts
  <1>5. Has("hidden") /\ found.st.state \notin {"roaming", "gone"}
    BY <1>1, <1>2 DEF Sound, Scanning, OnlyNets, SamePlace
  <1> HIDE DEF s
  <1>6. Good(found, z)
    BY <1>3, <1>4, <1>5, StationConnectGood DEF Maybe
  <1> HIDE DEF z
  <1>7. Good(w, z)
    BY <1>1, <1>2, <1>6 DEF Good, Asked, OnlyNets, SamePlace, SameCalls
  <1> QED
    BY <1>7 DEF z, s, found, v, u

-----------------------------------------------------------------------------
(* Steps of the specification. *)

\* A step to a world that a handler leaves.
LEMMA Becoming ==
    ASSUME NEW v, Sound(v), Become(v)
    PROVE  Sound(World)' /\ net' = v.net /\ st' = v.st
  <1>1. v \in Worlds
    BY DEF Sound
  <1>2. st' = v.st /\ net' = v.net /\ sc' = v.sc /\ nets' = v.nets /\ env' = env
    BY DEF Become
  <1>3. World' = v
    BY <1>1, <1>2 DEF World, Worlds
  <1>4. (World \in Worlds)'
    BY <1>1, <1>3 DEF Worlds, Maybe, Networks, States, Idle, Autoconnecting, Scans, Subsets
  <1>5. Interface(World)'
    BY <1>2, <1>3 DEF Sound, Interface, Has
  <1>6. Placed(World)'
    BY <1>2, <1>3 DEF Sound, Placed, Has, Idle, Autoconnecting
  <1>7. Waiting(World)'
    BY <1>2, <1>3 DEF Sound, Waiting, Has
  <1>8. Scanning(World)'
    BY <1>2, <1>3 DEF Sound, Scanning, Has, Idle, Autoconnecting, Subsets
  <1>9. Roaming(World)' /\ RoamId(World)'
    BY <1>2, <1>3 DEF Sound, Roaming, RoamId, Has, ScanOwner, ReportOwner, DsOwner,
                      PreauthOwner
  <1> QED
    BY <1>2, <1>4, <1>5, <1>6, <1>7, <1>8, <1>9 DEF Sound

\* A step leads to a world that is good after the one it starts from.
Led == \E v : Good(World, v) /\ Become(v)

LEMMA Leads ==
    ASSUME NEW v, Good(World, v), Become(v)
    PROVE  Led
  BY Zenon DEF Led

LEMMA WorldFields ==
    World.st = st /\ World.net = net /\ World.sc = sc /\ World.nets = nets
  BY DEF World

LEMMA ConnectLed ==
    ASSUME Sound(World), Calm, NEW n \in Networks, Connect(n)
    PROVE  Led
  <1> DEFINE b == Select(World, n, TRUE)
             u == [World EXCEPT !.nets.ask_passphrase = @ \ {n}]
  <1>1. b # 0 /\ Become(StationConnect(u, b)) /\ Has("connect")
    BY DEF Connect
  <1>2. World.st.state \notin {"roaming", "gone"}
    BY WorldFields, CalmFacts DEF Connect, Alive
  <1>3. b \in Bsses
    BY <1>1, SelectFacts DEF Sound, Maybe
  <1> HIDE DEF b
  <1>4. OnlyNets(World, u)
    BY AskUpdate DEF Sound
  <1> HIDE DEF u
  <1>5. Sound(u) /\ u.st.state \notin {"roaming", "gone"}
    BY <1>2, <1>4, OnlyNetsSound DEF OnlyNets, SamePlace
  <1>6. Good(u, StationConnect(u, b))
    BY <1>1, <1>3, <1>5, StationConnectGood
  <1>7. Good(World, StationConnect(u, b))
    BY <1>4, <1>6, AfterNets
  <1> QED
    BY <1>1, <1>7, Leads

LEMMA ForgetLed ==
    ASSUME Sound(World), Calm, NEW n \in Networks, Forget(n)
    PROVE  Led
  <1> DEFINE u == [World EXCEPT !.nets.known = @ \ {n}]
  <1>1. /\ Has("forget") /\ World.st.state # "gone" /\ World.net.disc # "reconnect"
        /\ ~(World.net.ending /\ (World.net.conn # 0 \/ World.net.nr = "early"))
    BY WorldFields, CalmFacts DEF Forget, Alive, CallbackDue
  <1>2. Good(World, u) /\ (CanDisconnect(u) => Good(World, StationDisconnect(u)))
    BY <1>1, ForgetGood
  <1>3. \/ CanDisconnect(u) /\ Become(StationDisconnect(u))
        \/ Become(u)
    BY DEF Forget
  <1> HIDE DEF u
  <1> QED
    BY <1>2, <1>3, Leads

LEMMA DisconnectLed ==
    ASSUME Sound(World), Calm, Disconnect
    PROVE  Led
  <1>1. /\ Has("disconnect") /\ World.st.state # "gone" /\ World.net.disc # "reconnect"
        /\ ~(World.net.ending /\ (World.net.conn # 0 \/ World.net.nr = "early"))
    BY WorldFields, CalmFacts DEF Disconnect, Alive, CallbackDue
  <1>2. Good(World, DbusDisconnect(World))
    BY <1>1, DisconnectGood
  <1> QED
    BY <1>2, Leads DEF Disconnect

LEMMA DbusScanLed ==
    ASSUME Sound(World), DbusScan
    PROVE  Led
  <1> DEFINE v == [ScanStart(World, "dbus")
                     EXCEPT !.st = [@ EXCEPT !.subset = 0, !.scan_pending = TRUE]]
  <1>1. Has("scan") /\ World.st.state # "gone" /\ Become(v)
    BY WorldFields DEF DbusScan, Alive
  <1>2. Good(World, v)
    BY <1>1, DbusScanGood
  <1> HIDE DEF v
  <1> QED
    BY <1>1, <1>2, Leads

LEMMA ConnectHiddenLed ==
    ASSUME Sound(World), ConnectHidden
    PROVE  Led
  <1> DEFINE v == [ScanStart(World, "hidden") EXCEPT !.st.hidden_pending = TRUE]
  <1>1. Has("hidden") /\ World.st.state # "gone" /\ Become(v)
    BY WorldFields DEF ConnectHidden, Alive
  <1>2. Good(World, v)
    BY <1>1, ConnectHiddenGood
  <1> HIDE DEF v
  <1> QED
    BY <1>1, <1>2, Leads

LEMMA DownLed ==
    ASSUME Sound(World), Calm, Down
    PROVE  Led
  <1> DEFINE left == IF World.st.bss # 0 THEN NetdevDisconnect(World, "free") ELSE World
             free == CancelAllScans([left EXCEPT !.sc.periodic = "none"])
             v == [free EXCEPT
                     !.st = [@ EXCEPT !.state = "gone", !.network = 0, !.bss = 0,
                             !.netconfig = FALSE, !.connect_pending = FALSE,
                             !.hidden_pending = FALSE, !.disconnect_pending = FALSE,
                             !.scan_pending = FALSE, !.autoconnect = FALSE]]
  <1>1. /\ Has("down") /\ World.st.state # "gone" /\ World.net.disc = "none"
        /\ ~World.net.ending
    BY WorldFields, CalmFacts DEF Down, Alive
  <1>2. Become(v)
    BY WorldFields DEF Down
  <1>3. Good(World, v)
    BY <1>1, DownGood
  <1> HIDE DEF v
  <1> QED
    BY <1>2, <1>3, Leads

LEMMA ScanTriggeredLed ==
    ASSUME Sound(World), NEW k \in Scans, ScanTriggered(k)
    PROVE  Led
  <1> DEFINE v == [World EXCEPT !.sc[k] = "triggered", !.st.scan_pending = @ /\ k # "dbus"]
  <1>1. World.sc[k] = "queued" /\ Become(v)
    BY WorldFields DEF ScanTriggered, IsNext
  <1>2. Good(World, v)
    BY <1>1, ScanTriggeredGood
  <1> HIDE DEF v
  <1> QED
    BY <1>1, <1>2, Leads

LEMMA ScanTriggerFailsLed ==
    ASSUME Sound(World), NEW k \in Scans, ScanTriggerFails(k)
    PROVE  Led
  <1> DEFINE w == [World EXCEPT !.sc[k] = "none"]
             told == CASE k = "quick"  -> EnterState(w, "full")
                       [] k = "roam"   -> RoamFailed(w)
                       [] k = "dbus"   -> [w EXCEPT !.st = [@ EXCEPT !.scan_pending = FALSE,
                                                                     !.id.dbus = FALSE]]
                       [] k = "hidden" -> [w EXCEPT !.st.hidden_pending = FALSE]
  <1>1. World.sc[k] = "queued" /\ Has("scanfail") /\ Become(ScanDestroy(told, k))
    BY WorldFields DEF ScanTriggerFails, IsNext
  <1>2. ScanIs(World, w, k, "none", World.st.id[k]) /\ w \in Worlds
    BY DoneFacts DEF Sound, ScanIs
  <1>3. CASE k = "quick"
    <2>1. Become(ScanDestroy(EnterState(w, "full"), "quick"))
      BY <1>1, <1>3
    <2>2. ScanIs(World, w, "quick", "none", World.st.id["quick"]) /\ World.sc.quick # "none"
      BY <1>1, <1>2, <1>3
    <2> HIDE DEF w
    <2>3. Good(World, ScanDestroy(EnterState(w, "full"), "quick"))
      BY <1>1, <1>2, <2>2, FullAfterQuick, OnlyNetsRefl
    <2> QED
      BY <2>1, <2>3, Leads
  <1>4. CASE k = "roam"
    <2> DEFINE v == ScanDestroy(RoamFailed([World EXCEPT !.sc["roam"] = "none"]), "roam")
    <2>1. Become(v)
      BY <1>1, <1>4
    <2>2. Good(World, v)
      BY <1>1, <1>4, RoamScanFailsGood
    <2> HIDE DEF v
    <2> QED
      BY <2>1, <2>2, Leads
  <1>5. CASE k = "dbus"
    <2> DEFINE u == [World EXCEPT !.sc["dbus"] = "none"]
               v == [u EXCEPT !.st = [@ EXCEPT !.scan_pending = FALSE, !.id.dbus = FALSE]]
    <2>1. Become(v)
      BY <1>1, <1>5 DEF ScanDestroy
    <2>2. Good(World, v)
      BY <1>1, <1>5, DbusScanFailsGood
    <2> HIDE DEF v
    <2> QED
      BY <2>1, <2>2, Leads
  <1>6. CASE k = "hidden"
    <2> DEFINE u == [World EXCEPT !.sc["hidden"] = "none"]
               v == ScanDestroy([u EXCEPT !.st.hidden_pending = FALSE], "hidden")
    <2>1. Become(v)
      BY <1>1, <1>6
    <2>2. Good(World, v)
      BY <1>1, <1>6, HiddenScanFailsGood
    <2> HIDE DEF v
    <2> QED
      BY <2>1, <2>2, Leads
  <1> QED
    BY <1>3, <1>4, <1>5, <1>6, ScanNames

LEMMA FoundFacts ==
    ASSUME NEW w, NEW seen \in Found(w)
    PROVE  seen \in SUBSET Bsses
  BY DEF Found

LEMMA QuickScanResultsLed ==
    ASSUME Sound(World), QuickScanResults
    PROVE  Led
  <1> DEFINE w == [World EXCEPT !.sc["quick"] = "none"]
  <1>1. World.sc["quick"] = "triggered"
    BY WorldFields DEF QuickScanResults, Finished
  <1>2. \/ \E seen \in Found(w) :
               Become(ScanDestroy(QuickScanOver(SetScanResults(w, seen)), "quick"))
        \/ Become(ScanDestroy(QuickScanOver(w), "quick"))
    BY DEF QuickScanResults, Done
  <1>3. \A seen \in SUBSET Bsses :
           /\ Good(World, ScanDestroy(QuickScanOver(SetScanResults(w, seen)), "quick"))
           /\ Good(World, ScanDestroy(QuickScanOver(w), "quick"))
    BY <1>1, QuickScanResultsGood
  <1> HIDE DEF w
  <1>4. CASE Become(ScanDestroy(QuickScanOver(w), "quick"))
    <2>1. Good(World, ScanDestroy(QuickScanOver(w), "quick"))
      BY <1>3
    <2> QED
      BY <1>4, <2>1, Leads
  <1>5. CASE \E seen \in Found(w) :
               Become(ScanDestroy(QuickScanOver(SetScanResults(w, seen)), "quick"))
    <2>1. PICK seen \in Found(w) :
               Become(ScanDestroy(QuickScanOver(SetScanResults(w, seen)), "quick"))
      BY <1>5
    <2>2. Good(World, ScanDestroy(QuickScanOver(SetScanResults(w, seen)), "quick"))
      BY <1>3, FoundFacts
    <2> QED
      BY <2>1, <2>2, Leads
  <1> QED
    BY <1>2, <1>4, <1>5

LEMMA NewScanResultsLed ==
    ASSUME Sound(World), NewScanResults
    PROVE  Led
  <1>1. World.sc.periodic = "on"
    BY WorldFields DEF NewScanResults
  <1>2. PICK seen \in Found(World) : Become(SetScanResults(World, seen))
    BY DEF NewScanResults
  <1>3. Good(World, SetScanResults(World, seen))
    BY <1>1, FoundFacts, NewScanResultsGood
  <1> QED
    BY <1>2, <1>3, Leads

LEMMA DbusScanResultsLed ==
    ASSUME Sound(World), Calm, DbusScanResults
    PROVE  Led
  <1> DEFINE w == [World EXCEPT !.sc["dbus"] = "none"]
             over == [w EXCEPT !.st.id.dbus = FALSE]
             Set(seen) == [SetScanResults(w, seen) EXCEPT !.st.subset = @ + 1]
             V(seen) == IF MoreSubsets(Set(seen).st.subset) THEN ScanStart(Set(seen), "dbus")
                        ELSE [Set(seen) EXCEPT !.st.id.dbus = FALSE]
  <1>1. World.sc["dbus"] = "triggered"
    BY WorldFields DEF DbusScanResults, Finished
  <1>2. (\E seen \in Found(w) : Become(V(seen))) \/ Become(over)
    BY DEF DbusScanResults, Done
  <1>3. Good(World, over)
    BY <1>1, DoneFacts, DbusScanOver, ScanNames DEF Sound
  <1>4. \A seen \in SUBSET Bsses : Good(World, V(seen))
    BY <1>1, DbusScanResultsGood
  <1> HIDE DEF w, over, V
  <1>5. CASE Become(over)
    BY <1>3, <1>5, Leads
  <1>6. CASE \E seen \in Found(w) : Become(V(seen))
    <2>1. PICK seen \in Found(w) : Become(V(seen))
      BY <1>6
    <2>2. Good(World, V(seen))
      BY <1>4, FoundFacts
    <2> QED
      BY <2>1, <2>2, Leads
  <1> QED
    BY <1>2, <1>5, <1>6

LEMMA HiddenScanResultsLed ==
    ASSUME Sound(World), Calm, HiddenScanResults
    PROVE  Led
  <1> DEFINE u == [World EXCEPT !.sc["hidden"] = "none"]
             w == [u EXCEPT !.st = [@ EXCEPT !.hidden_pending = FALSE, !.id.hidden = FALSE]]
             F(b) == [w EXCEPT !.nets.seen = @ \cup {b}]
             V(b) == StationConnect(F(b), Select(F(b), NetworkOf[b], TRUE))
  <1>1. World.sc["hidden"] = "triggered"
    BY WorldFields DEF HiddenScanResults, Finished
  <1>2. (\E b \in Bsses : World.st.state # "roaming" /\ Become(V(b))) \/ Become(w)
    BY WorldFields, CalmFacts DEF HiddenScanResults, Done
  <1>3. Good(World, w)
    BY <1>1, HiddenScanOver
  <1>4. \A b \in Bsses : World.st.state # "roaming" => Good(World, V(b))
    BY <1>1, HiddenScanResultsGood
  <1> HIDE DEF w, V
  <1>5. CASE Become(w)
    BY <1>3, <1>5, Leads
  <1>6. CASE \E b \in Bsses : World.st.state # "roaming" /\ Become(V(b))
    <2>1. PICK b \in Bsses : World.st.state # "roaming" /\ Become(V(b))
      BY <1>6
    <2>2. Good(World, V(b))
      BY <1>4, <2>1
    <2> QED
      BY <2>1, <2>2, Leads
  <1> QED
    BY <1>2, <1>5, <1>6

LEMMA RoamScanResultsLed ==
    ASSUME Sound(World), RoamScanResults
    PROVE  Led
  <1> DEFINE w == [World EXCEPT !.sc["roam"] = "none"]
  <1>1. World.sc.roam # "none"
    BY WorldFields DEF RoamScanResults, Finished
  <1>2. PICK b \in RoamTargets(w) \cup {0} : Become(ScanDestroy(RoamScanNotify(w, b), "roam"))
    BY DEF RoamScanResults, Done
  <1>3. Good(World, ScanDestroy(RoamScanNotify(w, b), "roam"))
    BY <1>1, RoamScanResultsGood
  <1> HIDE DEF w
  <1> QED
    BY <1>2, <1>3, Leads

LEMMA Callbacks ==
    ASSUME Sound(World)
    PROVE  net.cb \in {"connect", "roam"}
  BY WorldFields DEF Sound, Worlds

LEMMA NetOkLed ==
    ASSUME Sound(World), Calm, NetOk
    PROVE  Led
  <1> DEFINE u == [World EXCEPT !.net = [@ EXCEPT !.conn = 0, !.up = World.net.conn]]
  <1>1. World.net.conn # 0 /\ ~World.net.ending /\ Become(Callback(u, World.net.cb, "ok"))
    BY WorldFields DEF NetOk
  <1>2. CASE World.net.cb = "connect"
    <2>1. Good(World, ConnectOk(u))
      BY <1>1, <1>2, ConnectOkGood
    <2> HIDE DEF u
    <2> QED
      BY <1>1, <1>2, <2>1, Leads DEF Callback
  <1>3. CASE World.net.cb = "roam"
    <2>1. Good(World, RoamCb(u, "ok"))
      BY <1>1, <1>3, RoamOkGood
    <2> HIDE DEF u
    <2> QED
      BY <1>1, <1>3, <2>1, Leads DEF Callback
  <1> QED
    BY <1>2, <1>3, Callbacks, WorldFields

LEMMA NetFailsLed ==
    ASSUME Sound(World), Calm, NetFails
    PROVE  Led
  <1>1. PICK result \in {"temporary", "refused", "handshake", "badpass", "aborted"} :
           /\ result = "aborted" => Has("abort")
           /\ Become(Callback(NetFree(World), World.net.cb, result))
    BY WorldFields DEF NetFails
  <1>2. World.net.conn # 0 /\ result # "ok"
        /\ result \in {"temporary", "refused", "handshake", "badpass"}
    BY <1>1, CalmFacts, WorldFields DEF NetFails
  <1>3. CASE World.net.cb = "connect"
    <2>1. Good(World, ConnectFailed(NetFree(World), result))
      BY <1>2, <1>3, ConnectFailsGood
    <2> QED
      BY <1>1, <1>2, <1>3, <2>1, Leads DEF Callback
  <1>4. CASE World.net.cb = "roam"
    <2>1. Good(World, RoamCb(NetFree(World), result))
      BY <1>2, <1>4, RoamFailsGood
    <2> QED
      BY <1>1, <1>4, <2>1, Leads DEF Callback
  <1> QED
    BY <1>3, <1>4, Callbacks, WorldFields

LEMMA NetLostLed ==
    ASSUME Sound(World), Calm, NetLost
    PROVE  Led
  <1>1. World.net.up # 0 /\ (Has("drop") \/ World.net.ending)
    BY WorldFields DEF NetLost
  <1>2. Good(World, DisconnectEvent(NetFree(World)))
    BY <1>1, NetLostGood
  <1> QED
    BY <1>2, Leads DEF NetLost

LEMMA NetEndsLed ==
    ASSUME Sound(World), NetEnds
    PROVE  Led
  <1>1. /\ Has("ending") /\ ~World.net.ending /\ World.net.disc = "none"
        /\ World.net.conn # 0 \/ World.net.up # 0
    BY WorldFields DEF NetEnds
  <1>2. Good(World, [World EXCEPT !.net.ending = TRUE])
    BY <1>1, NetEndsGood
  <1> QED
    BY <1>2, Leads DEF NetEnds

LEMMA NetLeftLed ==
    ASSUME Sound(World), Calm, NetLeft
    PROVE  Led
  <1> DEFINE w == [World EXCEPT !.net.disc = "none"]
  <1>1. World.net.disc \in {"user", "onconnect", "reconnect", "free"}
    BY WorldFields DEF NetLeft, Sound, Worlds
  <1>2. Become(CASE World.net.disc = "user"      -> DisconnectCb(w)
                 [] World.net.disc = "onconnect" -> OnconnectCb(w)
                 [] World.net.disc = "reconnect" -> ReconnectCb(w)
                 [] World.net.disc = "free"      -> w)
    BY WorldFields DEF NetLeft
  <1>3. CASE World.net.disc = "user"
    <2>1. Good(World, DisconnectCb(w))
      BY <1>3, UserLeftGood
    <2> HIDE DEF w
    <2>2. Become(DisconnectCb(w))
      BY <1>2, <1>3
    <2> QED
      BY <2>1, <2>2, Leads
  <1>4. CASE World.net.disc = "onconnect"
    <2>1. Good(World, OnconnectCb(w))
      BY <1>4, OnconnectLeftGood
    <2> HIDE DEF w
    <2>2. Become(OnconnectCb(w))
      BY <1>2, <1>4
    <2> QED
      BY <2>1, <2>2, Leads
  <1>5. CASE World.net.disc = "reconnect"
    <2>1. Good(World, ReconnectCb(w))
      BY <1>5, ReconnectLeftGood
    <2> HIDE DEF w
    <2>2. Become(ReconnectCb(w))
      BY <1>2, <1>5
    <2> QED
      BY <2>1, <2>2, Leads
  <1>6. CASE World.net.disc = "free"
    <2>1. Good(World, w)
      BY <1>6, FreeLeftGood
    <2> HIDE DEF w
    <2>2. Become(w)
      BY <1>2, <1>6
    <2> QED
      BY <2>1, <2>2, Leads
  <1> QED
    BY <1>1, <1>3, <1>4, <1>5, <1>6

LEMMA RekeyFailedLed ==
    ASSUME Sound(World), Calm, RekeyFailed
    PROVE  Led
  <1>1. Has("rekey") /\ World.net.up # 0
    BY WorldFields DEF RekeyFailed
  <1>2. Good(World, NetdevDisconnect(EnterState(World, "roaming"), "reconnect"))
    BY <1>1, RekeyFailedGood
  <1> QED
    BY <1>2, Leads DEF RekeyFailed

LEMMA NeighborReportLed ==
    ASSUME Sound(World), NEW result \in {"report", "empty", "error"}, NeighborReport(result)
    PROVE  Led
  <1> DEFINE w == [World EXCEPT !.net.nr = "none"]
             b == IF result = "error" THEN w.st.roam_freqs ELSE result = "report"
             v == [w EXCEPT !.st.roam_freqs = b]
  <1>1. CASE World.net.nr = "roam"
    <2>1. Become(NeighborReportCb(w, result))
      BY <1>1, WorldFields DEF NeighborReport
    <2>2. Good(World, NeighborReportCb(w, result))
      BY <1>1, ReportGood
    <2> HIDE DEF w
    <2> QED
      BY <2>1, <2>2, Leads
  <1>2. CASE World.net.nr = "early"
    <2>w. World \in Worlds /\ World.st.bss # 0
      BY <1>2 DEF Sound, Placed
    <2>1. EarlyReportCb(w, result) = v
      <3>1. w \in Worlds /\ w.st.bss # 0
        BY <2>w DEF Worlds
      <3>2. CASE result = "error"
        <4>1. v = [w EXCEPT !.st.roam_freqs = w.st.roam_freqs]
          BY <3>2
        <4> HIDE DEF w, b, v
        <4>2. [w EXCEPT !.st.roam_freqs = w.st.roam_freqs] = w
          BY <3>1 DEF Worlds
        <4> QED
          BY <3>2, <4>1, <4>2 DEF EarlyReportCb
      <3>3. CASE result # "error"
        BY <3>1, <3>3 DEF EarlyReportCb
      <3> QED
        BY <3>2, <3>3
    <2>b. Become(EarlyReportCb(w, result))
      BY <1>2, WorldFields DEF NeighborReport
    <2>2. b \in BOOLEAN
      BY <2>w DEF Worlds
    <2> HIDE DEF b
    <2>3. Good(World, v)
      BY <1>2, <2>2, EarlyReportGood
    <2> HIDE DEF v
    <2> QED
      BY <2>1, <2>b, <2>3, Leads
  <1>3. World.net.nr \in {"early", "roam"}
    BY WorldFields DEF NeighborReport, Sound, Worlds
  <1> QED
    BY <1>1, <1>2, <1>3

LEMMA FastTransitionDsLed ==
    ASSUME Sound(World), FastTransitionDs
    PROVE  Led
  <1> DEFINE a == Move([World EXCEPT !.net.ds = 0], World.net.ds)
             b == RoamRetry([World EXCEPT !.net.parsed = TRUE])
             c == RoamRetry([World EXCEPT !.net.ds = 0])
  <1>1. World.net.ds # 0 /\ ~World.net.parsed
    BY WorldFields DEF FastTransitionDs
  <1>2. Become(a) \/ Become(b) \/ Become(c)
    BY WorldFields DEF FastTransitionDs
  <1>3. Good(World, a) /\ Good(World, b) /\ Good(World, c)
    BY <1>1, TransitionDsGood
  <1> HIDE DEF a, b, c
  <1> QED
    BY <1>2, <1>3, Leads

LEMMA PreauthenticatedLed ==
    ASSUME Sound(World), Preauthenticated
    PROVE  Led
  <1> DEFINE w == [World EXCEPT !.net.preauth = 0]
  <1>1. World.net.preauth # 0
    BY WorldFields DEF Preauthenticated
  <1>2. \/ ~World.st.preparing_roam /\ Become(w)
        \/ World.st.preparing_roam /\ Become(Move(w, World.net.preauth))
        \/ World.st.preparing_roam /\ Become(RoamFailed(w))
    BY WorldFields DEF Preauthenticated
  <1>3. /\ ~World.st.preparing_roam => Good(World, w)
        /\ World.st.preparing_roam =>
              Good(World, Move(w, World.net.preauth)) /\ Good(World, RoamFailed(w))
    BY <1>1, PreauthGood
  <1> HIDE DEF w
  <1> QED
    BY <1>2, <1>3, Leads

LEMMA LowRssiLed ==
    ASSUME Sound(World), Calm, LowRssi
    PROVE  Led
  <1> DEFINE u == [World EXCEPT !.st.signal_low = TRUE]
  <1>1. Has("low") /\ World.net.up # 0 /\ ~World.st.signal_low
    BY WorldFields DEF LowRssi
  <1>2. Become(u) \/ (~World.st.preparing_roam /\ Become(RoamTimeoutRearm(u)))
    BY WorldFields DEF LowRssi, CannotRoam
  <1>3. Good(World, u) /\ (~World.st.preparing_roam => Good(World, RoamTimeoutRearm(u)))
    BY <1>1, LowRssiGood
  <1> HIDE DEF u
  <1> QED
    BY <1>2, <1>3, Leads

LEMMA OkRssiLed ==
    ASSUME Sound(World), OkRssi
    PROVE  Led
  BY OkRssiGood, Leads DEF OkRssi

LEMMA RoamTriggerLed ==
    ASSUME Sound(World), RoamTrigger
    PROVE  Led
  <1> DEFINE u == [World EXCEPT !.st = [@ EXCEPT !.timer = FALSE, !.preparing_roam = TRUE]]
             asked == NeighborReportReq(u, "roam")
  <1>1. World.st.timer
    BY WorldFields DEF RoamTrigger
  <1>2. \/ Become(RoamScan(u, FALSE))
        \/ World.st.bss = 0
        \/ asked # u /\ Become(asked)
        \/ Become(RoamScanKnown(u))
    BY WorldFields DEF RoamTrigger
  <1>3. /\ Good(World, RoamScan(u, FALSE))
        /\ asked # u => Good(World, asked)
        /\ Good(World, RoamScanKnown(u))
        /\ World.st.bss # 0
    BY <1>1, RoamTriggerGood
  <1> HIDE DEF u, asked
  <1> QED
    BY <1>2, <1>3, Leads

LEMMA ApDirectedRoamLed ==
    ASSUME Sound(World), Calm, ApDirectedRoam
    PROVE  Led
  <1> DEFINE u == [World EXCEPT !.st = [@ EXCEPT !.ap_directed_roaming = TRUE,
                                                 !.preparing_roam = TRUE, !.timer = FALSE]]
  <1>1. /\ Has("btm") /\ ~World.st.preparing_roam /\ World.st.state # "roaming"
        /\ World.net.up # 0 /\ World.st.bss # 0
    BY WorldFields, CalmFacts DEF ApDirectedRoam, CannotRoam
  <1>2. Become(NeighborReportCb(u, "report")) \/ Become(RoamScan(u, TRUE))
    BY DEF ApDirectedRoam
  <1>3. Good(World, NeighborReportCb(u, "report")) /\ Good(World, RoamScan(u, TRUE))
    BY <1>1, ApDirectedGood
  <1> HIDE DEF u
  <1> QED
    BY <1>2, <1>3, Leads

LEMMA NetconfigEventLed ==
    ASSUME Sound(World), NetconfigEvent
    PROVE  Led
  <1>1. World.st.netconfig
    BY WorldFields DEF NetconfigEvent
  <1>2. Good(World, EnterState(NetconfigReset(World), "connected"))
    BY <1>1, NetconfigGood
  <1> QED
    BY <1>2, Leads DEF NetconfigEvent

LEMMA BlacklistExpiresLed ==
    ASSUME Sound(World), BlacklistExpires
    PROVE  Led
  <1>1. PICK b \in nets.blacklist : Become([World EXCEPT !.nets.blacklist = @ \ {b}])
    BY DEF BlacklistExpires
  <1> DEFINE v == [World EXCEPT !.nets.blacklist = @ \ {b}]
  <1>2. OnlyNets(World, v)
    <2>1. [World.nets EXCEPT !.blacklist = @ \ {b}] \in NetsRecords
      BY NetsType DEF NetsRecords, Sound
    <2> QED
      BY <2>1, NetsUpdate DEF Sound
  <1>3. Become(v)
    BY <1>1
  <1> HIDE DEF v
  <1> QED
    BY <1>2, <1>3, OnlyNetsStep, Leads

\* Every step of a calm environment leads to a good world.
LEMMA NextLed ==
    ASSUME Sound(World), Calm, Next
    PROVE  Led
  <1>1. CASE User
    BY <1>1, ConnectLed, ForgetLed, DisconnectLed, DbusScanLed, ConnectHiddenLed, DownLed
       DEF User
  <1>2. CASE ScanStep \/ NewScanResults
    BY <1>2, ScanTriggeredLed, ScanTriggerFailsLed, QuickScanResultsLed, DbusScanResultsLed,
       HiddenScanResultsLed, RoamScanResultsLed, NewScanResultsLed DEF ScanStep
  <1>3. CASE NetAnswer \/ NetLost \/ NetEnds \/ NetLeft \/ RekeyFailed
    BY <1>3, NetOkLed, NetFailsLed, NetLostLed, NetEndsLed, NetLeftLed, RekeyFailedLed
       DEF NetAnswer
  <1>4. CASE RoamAnswer
    BY <1>4, NeighborReportLed, FastTransitionDsLed, PreauthenticatedLed DEF RoamAnswer
  <1>5. CASE LowRssi \/ OkRssi \/ RoamTrigger \/ ApDirectedRoam
    BY <1>5, LowRssiLed, OkRssiLed, RoamTriggerLed, ApDirectedRoamLed
  <1>6. CASE NetconfigEvent \/ BlacklistExpires
    BY <1>6, NetconfigEventLed, BlacklistExpiresLed
  <1> QED
    BY <1>1, <1>2, <1>3, <1>4, <1>5, <1>6 DEF Next

-----------------------------------------------------------------------------
(* The theorems. *)

\* station_create().
LEMMA InitSound ==
    ASSUME Init
    PROVE  Sound(World)
  <1> DEFINE w == EnterState(Created, "quick")
  <1>1. st = w.st /\ net = w.net /\ sc = w.sc /\ nets = w.nets
    BY DEF Init
  <1>2. 1 \in Networks /\ 0 \in Maybe /\ 0 \in 0 .. Subsets
    BY BssAssumption DEF Networks, Maybe, Subsets
  <1>3. Created \in Worlds
    BY <1>2, StateNames DEF Created, Worlds
  <1>4. /\ \A k \in Scans : Created.st.id[k] = FALSE /\ Created.sc[k] = "none"
        /\ Created.sc["periodic"] = "none"
    BY DEF Created
  <1>5. /\ Created.st.state = "disconnected" /\ Created.st.network = 0 /\ Created.st.bss = 0
        /\ Created.st.autoconnect = TRUE /\ Created.st.connect_pending = FALSE
        /\ Created.st.connect_pending_bss = 0 /\ Created.st.pending_freed = FALSE
        /\ Created.st.disconnect_pending = FALSE /\ Created.st.scan_pending = FALSE
        /\ Created.st.hidden_pending = FALSE /\ Created.st.preparing_roam = FALSE
        /\ Created.st.signal_low = FALSE /\ Created.st.timer = FALSE
        /\ Created.st.netconfig = FALSE /\ Created.st.fault = FALSE
    BY DEF Created
  <1>6. /\ Created.net.conn = 0 /\ Created.net.cb = "connect" /\ Created.net.up = 0
        /\ Created.net.disc = "none" /\ Created.net.ending = FALSE /\ Created.net.nr = "none"
        /\ Created.net.ds = 0 /\ Created.net.parsed = FALSE /\ Created.net.preauth = 0
    BY DEF Created
  <1>7. Full(Created, w) \/ Quick(Created, w)
    BY <1>3, EnterQuick
  <1> HIDE DEF w
  <1>8. w \in Worlds
    BY <1>7 DEF Full, Quick, EnterFrame
  <1>9. World = w
    BY <1>1, <1>8 DEF World, Worlds
  <1>10. /\ Created.st.id.quick = FALSE /\ Created.st.id.roam = FALSE
         /\ Created.st.id.dbus = FALSE /\ Created.st.id.hidden = FALSE
         /\ Created.sc.quick = "none" /\ Created.sc.roam = "none" /\ Created.sc.dbus = "none"
         /\ Created.sc.hidden = "none" /\ Created.sc.periodic = "none"
    BY <1>4, ScanNames
  <1>11. /\ w.st.network = 0 /\ w.st.bss = 0 /\ w.st.autoconnect = TRUE
         /\ w.st.connect_pending = FALSE /\ w.st.connect_pending_bss = 0
         /\ w.st.pending_freed = FALSE /\ w.st.disconnect_pending = FALSE
         /\ w.st.scan_pending = FALSE /\ w.st.hidden_pending = FALSE
         /\ w.st.preparing_roam = FALSE /\ w.st.signal_low = FALSE /\ w.st.timer = FALSE
         /\ w.st.netconfig = FALSE /\ w.st.fault = FALSE /\ w.net = Created.net
         /\ w.st.id.roam = FALSE /\ w.st.id.dbus = FALSE /\ w.st.id.hidden = FALSE
         /\ w.sc.roam = "none" /\ w.sc.dbus = "none" /\ w.sc.hidden = "none"
    BY <1>5, <1>7, <1>10 DEF Full, Quick, EnterFrame, SameCalls, SameRoam, SameRoamScan,
                             SameDbus, SameHidden
  <1>12. \/ /\ w.st.state = "full" /\ w.sc.periodic = "on" /\ w.sc.quick = "none"
            /\ w.st.id.quick = FALSE
         \/ /\ w.st.state = "quick" /\ w.sc.periodic = "none" /\ w.sc.quick = "queued"
            /\ w.st.id.quick = TRUE
    BY <1>7, <1>10 DEF Full, Quick, SameQuick, SamePeriodic
  <1>13. Sound(w)
    <2> USE <1>6, <1>11, <1>12 DEF SamePlace, SameCalls, SameRoam, SameQuick, SameRoamScan,
                                   SameDbus, SameHidden, SamePeriodic, SameScans, OnlyNet,
                                   SameLink, SameWatches, Sound, Lax, Interface, Placed,
                                   Waiting, Scanning, Roaming, RoamId, ScanOwner, ReportOwner,
                                   DsOwner, PreauthOwner, Idle, Autoconnecting
    <2>1. Interface(w) /\ Placed(w)
      OBVIOUS
    <2>2. Waiting(w)
      OBVIOUS
    <2>3. Scanning(w)
      OBVIOUS
    <2>4. Roaming(w) /\ RoamId(w)
      OBVIOUS
    <2> QED
      BY <1>8, <2>1, <2>2, <2>3, <2>4
  <1> QED
    BY <1>9, <1>13

\* The features of users, drivers and access points are those of the whole behaviour.
LEMMA EnvKept ==
    ASSUME Next
    PROVE  env' = env
  <1>1. CASE User
    BY <1>1 DEF User, Connect, Forget, Disconnect, DbusScan, ConnectHidden, Down, Become
  <1>2. CASE ScanStep \/ NewScanResults
    BY <1>2 DEF ScanStep, ScanTriggered, ScanTriggerFails, QuickScanResults, DbusScanResults,
                HiddenScanResults, RoamScanResults, NewScanResults, Become
  <1>3. CASE NetAnswer \/ NetLost \/ NetEnds \/ NetLeft \/ RekeyFailed
    BY <1>3 DEF NetAnswer, NetOk, NetFails, NetLost, NetEnds, NetLeft, RekeyFailed, Become
  <1>4. CASE RoamAnswer
    BY <1>4 DEF RoamAnswer, NeighborReport, FastTransitionDs, Preauthenticated, Become
  <1>5. CASE LowRssi \/ OkRssi \/ RoamTrigger \/ ApDirectedRoam
    BY <1>5 DEF LowRssi, OkRssi, RoamTrigger, ApDirectedRoam, Become
  <1>6. CASE NetconfigEvent \/ BlacklistExpires
    BY <1>6 DEF NetconfigEvent, BlacklistExpires, Become
  <1> QED
    BY <1>1, <1>2, <1>3, <1>4, <1>5, <1>6 DEF Next

\* What a step leads to, in terms of the variables.
LEMMA LedFacts ==
    ASSUME Sound(World), Led
    PROVE  /\ Sound(World)'
           /\ NetStep(net, net')
           /\ \/ net'.conn = net.conn \/ net'.conn = 0 \/ st.autoconnect \/ st'.connect_pending
              \/ st.network # 0 \/ (Has("disconnect") /\ Has("scanfail"))
  <1>1. PICK v : Good(World, v) /\ Become(v)
    BY Zenon DEF Led
  <1>2. Sound(v) /\ NetStep(World.net, v.net) /\ Asked(World, v)
    BY <1>1 DEF Good
  <1>3. Sound(World)' /\ net' = v.net /\ st' = v.st
    BY <1>1, <1>2, Becoming
  <1> QED
    BY <1>2, <1>3, WorldFields DEF Asked

LEMMA StutterLed ==
    ASSUME Sound(World), UNCHANGED vars
    PROVE  Led
  <1>1. Good(World, World)
    BY QuietStep
  <1>2. Become(World)
    BY WorldFields DEF vars, Become
  <1> QED
    BY <1>1, <1>2, Leads

LEMMA CalmKept ==
    ASSUME env' = env
    PROVE  Calm' <=> Calm
  BY DEF Calm, Has

\* In every calm environment the station is sound between two events, whatever the access
\* points and networks are: the handlers of station.c that call each other leave a state
\* in which the interface, the scans, the calls that wait for replies and the roam agree.
THEOREM StationInductive == Spec => []IInv
  <1>1. Init => IInv
    BY InitSound DEF Init, IInv
  <1>2. ASSUME IInv, [Next]_vars
        PROVE  IInv'
    <2>1. env' = env
      BY <1>2, EnvKept DEF vars
    <2>2. (env \in Envs)'
      BY <1>2, <2>1 DEF IInv
    <2>3. ASSUME Calm'
          PROVE  Sound(World)'
      <3>1. Calm /\ Sound(World)
        BY <1>2, <2>1, <2>3, CalmKept DEF IInv
      <3>2. Led
        BY <1>2, <3>1, NextLed, StutterLed
      <3> QED
        BY <3>1, <3>2, LedFacts
    <2> QED
      BY <2>2, <2>3 DEF IInv
  <1> QED
    BY <1>1, <1>2, PTL DEF Spec

LEMMA StaysCalm == Spec /\ Calm => []Calm
  <1>1. Calm /\ [Next]_vars => Calm'
    BY EnvKept, CalmKept DEF vars
  <1> QED
    BY <1>1, PTL DEF Spec

\* A roam that is being prepared has exactly one owner.
LEMMA OneOwner ==
    ASSUME Sound(World), st.preparing_roam
    PROVE  Cardinality({x \in {"scan", "nr", "ds", "preauth"} :
              CASE x = "scan" -> sc.roam # "none"
                [] x = "nr"   -> net.nr = "roam"
                [] x = "ds"   -> net.ds # 0 /\ ~net.parsed
                [] OTHER      -> net.preauth # 0}) = 1
  <1> DEFINE a == sc.roam # "none"
             b == net.nr = "roam"
             c == net.ds # 0 /\ ~net.parsed
             d == net.preauth # 0
             S == {x \in {"scan", "nr", "ds", "preauth"} :
                     CASE x = "scan" -> a [] x = "nr" -> b [] x = "ds" -> c [] OTHER -> d}
  <1>1. /\ a \/ b \/ c \/ d
        /\ a => ~b /\ ~c /\ ~d
        /\ b => ~c /\ ~d
        /\ c => ~d
    BY WorldFields DEF Sound, Roaming, ScanOwner, ReportOwner, DsOwner, PreauthOwner
  <1>2. /\ "scan" \in S <=> a
        /\ "nr" \in S <=> b
        /\ "ds" \in S <=> c
        /\ "preauth" \in S <=> d
        /\ S \subseteq {"scan", "nr", "ds", "preauth"}
    OBVIOUS
  <1> HIDE DEF a, b, c, d, S
  <1>3. S = {"scan"} \/ S = {"nr"} \/ S = {"ds"} \/ S = {"preauth"}
    BY <1>1, <1>2
  <1>4. Cardinality(S) = 1
    BY <1>3, FS_Singleton, Zenon
  <1> QED
    BY <1>4 DEF S, a, b, c, d

LEMMA SoundIsConsistent ==
    ASSUME env \in Envs, Sound(World)
    PROVE  Inv /\ AutoconnectAlive
  <1> USE WorldFields
  <1>1. TypeOK
    <2>1. World \in Worlds /\ Scanning(World)
      BY DEF Sound
    <2>2. \A k \in Scans : sc[k] \in {"none", "queued", "triggered"}
      BY <2>1, ScanNames DEF Worlds, Scanning
    <2>3. /\ st.state \in States /\ st.network \in Networks \cup {0} /\ st.bss \in Maybe
          /\ st.connect_pending_bss \in Maybe /\ st.id \in [Scans -> BOOLEAN]
          /\ st.subset \in 0 .. Subsets
      BY <2>1 DEF Worlds
    <2>4. /\ net.conn \in Maybe /\ net.up \in Maybe /\ net.cb \in {"connect", "roam"}
          /\ net.nr \in {"none", "early", "roam"}
          /\ net.disc \in {"none", "user", "onconnect", "reconnect", "free"}
      BY <2>1 DEF Worlds
    <2>5. /\ nets.seen \subseteq Bsses /\ nets.known \subseteq Networks
          /\ nets.blacklist \subseteq Bsses /\ nets.temporary \subseteq Bsses
          /\ nets.ask_passphrase \subseteq Networks
      BY <2>1 DEF Worlds
    <2> QED
      BY <2>2, <2>3, <2>4, <2>5 DEF TypeOK, Maybe, States
  <1>2. NoFault /\ StatesAgree
    BY DEF NoFault, StatesAgree, Sound, Placed
  <1>3. RepliesKept
    BY DEF RepliesKept, Sound, Waiting
  <1>4. RoamOwned
    <2>1. st.preparing_roam => net.up # 0 /\ ~st.timer
      BY DEF Sound, Roaming, Placed
    <2>2. (st.timer => st.signal_low) /\ (sc.roam # "none" => st.preparing_roam)
      BY DEF Sound, Roaming, ScanOwner
    <2> QED
      BY <2>1, <2>2, OneOwner DEF RoamOwned
  <1>5. NothingOutlives
    <2>1. SUFFICES ASSUME st.state = "gone"
                   PROVE  /\ \A k \in Scans \cup {"periodic"} : sc[k] = "none"
                          /\ net.conn = 0 /\ net.nr = "none" /\ net.ds = 0 /\ net.preauth = 0
                          /\ net.disc \in {"none", "free"} /\ ~st.timer
      BY DEF NothingOutlives
    <2>2. /\ sc.quick = "none" /\ sc.dbus = "none" /\ sc.hidden = "none"
          /\ sc.periodic = "none"
      BY <2>1 DEF Sound, Scanning, Idle, Autoconnecting
    <2>3. net.conn = 0 /\ net.up = 0 /\ net.nr = "none" /\ net.ds = 0 /\ net.preauth = 0
      BY <2>1 DEF Sound, Placed, Interface, Worlds
    <2>4. net.disc \in {"none", "free"}
      BY <2>1 DEF Sound, Placed, Worlds
    <2>5. ~st.timer /\ sc.roam = "none"
      BY <2>1 DEF Sound, Roaming, ScanOwner
    <2> QED
      BY <2>2, <2>3, <2>4, <2>5, ScanNames
  <1>6. AutoconnectAlive
    BY DEF AutoconnectAlive, Sound, Scanning
  <1> QED
    BY <1>1, <1>2, <1>3, <1>4, <1>5, <1>6 DEF Inv

\* In every calm environment the state that station.c shows is its interface's, no
\* callback follows a pointer that is gone, every call that waits has a reply coming, a
\* roam has one owner, and a station that was freed has left nothing behind.
THEOREM StationConsistent == Spec /\ Calm => []Inv
  <1>1. IInv /\ Calm => Inv
    BY SoundIsConsistent DEF IInv
  <1> QED
    BY <1>1, StationInductive, StaysCalm, PTL

\* In every calm environment a station that may connect by itself has a scan under way.
THEOREM StationAlive == Spec /\ Calm => []AutoconnectAlive
  <1>1. IInv /\ Calm => AutoconnectAlive
    BY SoundIsConsistent DEF IInv
  <1> QED
    BY <1>1, StationInductive, StaysCalm, PTL

\* Users whose Disconnect does not meet a quick scan that cannot be started: what station.c
\* does in the other case is the finding of the run station_disconnect.
Quiet == Calm /\ ~(Has("disconnect") /\ Has("scanfail"))

\* No connection starts that no user asked for, unless autoconnect is on or a connection
\* is moved or retried, in every calm environment in which a user does not disconnect
\* while a quick scan is about to fail.
THEOREM StationAsked == Spec /\ Quiet => NoUnaskedConnect
  <1>1. Quiet /\ [Next]_vars => Quiet'
    BY EnvKept, CalmKept DEF vars, Quiet, Has
  <1>2. ASSUME IInv, Quiet, [Next]_vars
        PROVE  [(net.conn # net'.conn /\ net'.conn # 0) =>
                   st.autoconnect \/ st'.connect_pending \/ st.network # 0]_vars
    <2>1. Sound(World) /\ Calm
      BY <1>2 DEF IInv, Quiet
    <2>2. Led
      BY <1>2, <2>1, NextLed, StutterLed
    <2> QED
      BY <1>2, <2>1, <2>2, LedFacts DEF Quiet
  <1> QED
    BY <1>1, <1>2, StationInductive, PTL DEF Spec, NoUnaskedConnect

\* The station asks of the interface what the contract of module Connection allows, in
\* every calm environment: one connection at a time, and none before a disconnect is
\* answered (the safety part of the refinement KeepsContract).
THEOREM StationKeepsContract ==
    Spec /\ Calm => Contract!Init /\ [][Contract!Next]_(Contract!vars)
  <1>1. Init => Contract!Init
    <2>1. SUFFICES ASSUME Init PROVE Contract!Init
      OBVIOUS
    <2> DEFINE w == EnterState(Created, "quick")
    <2>2. net = w.net
      BY <2>1 DEF Init
    <2>3. w.net = Created.net
      BY DEF EnterState, ScanStart, Created
    <2> HIDE DEF w
    <2>4. /\ net.conn = 0 /\ net.up = 0 /\ net.disc = "none" /\ net.ending = FALSE
      BY <2>2, <2>3 DEF Created
    <2> QED
      BY <2>4 DEF Contract!Init
  <1>2. ASSUME IInv, Calm, [Next]_vars
        PROVE  [Contract!Next]_(Contract!vars)
    <2>1. Sound(World)
      BY <1>2 DEF IInv
    <2>2. NetStep(net, net')
      BY <1>2, <2>1, NextLed, StutterLed, LedFacts
    <2> QED
      BY <2>2 DEF NetStep, Contract!Next, Contract!vars, Contract!Ask, Contract!Succeed,
                  Contract!Fail, Contract!StartEnding, Contract!Leave, Contract!Left,
                  Contract!Maybe, Maybe
  <1> QED
    BY <1>1, <1>2, StationInductive, StaysCalm, PTL DEF Spec

=============================================================================
