----------------------------- MODULE SaeProofs ------------------------------
(***************************************************************************)
(* Two SAE instances agree on the PMK, for any groups, limits, number of    *)
(* lost, repeated and overtaken frames, and in every environment.           *)
(***************************************************************************)
EXTENDS Sae, QueueTheorems

\* The two instances are each other's peers.
LEMMA OtherPeer ==
    ASSUME NEW p \in Peers
    PROVE  /\ Other(p) \in Peers /\ Other(p) # p /\ Other(Other(p)) = p
           /\ \A q \in Peers : q = p \/ q = Other(p)
  BY PeersAssumption DEF Peers, Other

\* The fields of a frame that was received.
LEMMA FrameFields ==
    ASSUME NEW m \in Frames
    PROVE  /\ m.trans \in {"commit", "confirm"} /\ m.status \in {"ok", "token", "unsupp", "unspecified"}
           /\ m.trans = "confirm" => m.key \in Keys /\ m.sc \in SendConfirms /\ m.c \in Commits
           /\ m.trans = "commit" => m.group \in Nat
           /\ m.trans = "commit" /\ m.status = "ok" => m.c \in Commits
  BY DEF Frames

\* Keys and commits are not the absence of them.
LEMMA NotNone == None \notin Keys /\ None \notin Commits
  BY DEF None, Keys, Commits

\* What instance p may become: its keys are derived once, its confirms are
\* computed from them, and a PMK is one the peer has derived too.
Legal(p, s) ==
    /\ s \in Instances
    /\ s.retry \in 1 .. Len(EccGroups[p]) + 1
    /\ Contains(EccGroups[p], s.group)
    /\ KeysOnce(s)
    /\ Progress(p, s)
    /\ \A m \in ToSet(s.out) : m.trans = "confirm" => m.key = s.key /\ m.c = s.commit
    /\ sm[p].key # None => s.key = sm[p].key /\ s.commit = sm[p].commit
    /\ s.pmk # None => sm[Other(p)].key = s.pmk

\* The instance at rest, as Becomes() leaves it.
Rest(s) == [s EXCEPT !.out = <<>>, !.assoc = FALSE]

\* The fields of an instance at rest.
LEMMA RestFields ==
    ASSUME NEW s, s \in Instances
    PROVE  /\ Rest(s) \in Instances /\ Rest(s).out = <<>> /\ Rest(s).assoc = FALSE
           /\ Rest(s).state = s.state /\ Rest(s).retry = s.retry /\ Rest(s).group = s.group
           /\ Rest(s).commit = s.commit /\ Rest(s).p_commit = s.p_commit
           /\ Rest(s).key = s.key /\ Rest(s).pmk = s.pmk /\ Rest(s).sc = s.sc
           /\ Rest(s).rc = s.rc /\ Rest(s).alive = s.alive
           /\ Rest(s).assoc_retry = s.assoc_retry
  <1>1. <<>> \in Seq(Frames)
    OBVIOUS
  <1> QED
    BY <1>1 DEF Rest, Instances

\* An instance that becomes what it may become keeps the invariant.
LEMMA BecomesLemma ==
    ASSUME IInv, NEW p \in Peers, NEW s, Legal(p, s),
           NEW rx, rx \in Seq(Frames), ToSet(rx) \subseteq ToSet(chan[p]),
           Becomes(p, s, rx)
    PROVE  IInv'
  <1> DEFINE o == Other(p)
  <1>1. /\ o \in Peers /\ o # p /\ Other(o) = p
        /\ \A q \in Peers : q = p \/ q = o
    BY OtherPeer
  <1> HIDE DEF o
  <1>2. TypeOK /\ sm \in [Peers -> Instances] /\ chan \in [Peers -> Seq(Frames)]
        /\ assocs \in [Peers -> Nat] /\ ConfirmsSent
    BY DEF IInv, Inv, TypeOK
  <1>3. /\ s \in Instances /\ s.out \in Seq(Frames)
    BY DEF Legal, Instances
  <1>4. /\ sm'[p] = Rest(s) /\ sm'[o] = sm[o] /\ sm' \in [Peers -> Instances]
        /\ DOMAIN sm' = Peers
    BY <1>1, <1>2, <1>3, RestFields DEF Becomes, Rest, o
  <1>5. /\ chan'[p] = rx /\ chan'[o] = chan[o] \o s.out
        /\ chan' \in [Peers -> Seq(Frames)]
        /\ ToSet(chan'[o]) = ToSet(chan[o]) \cup ToSet(s.out)
    <2>1. chan[o] \in Seq(Frames)
      BY <1>1, <1>2
    <2>2. /\ chan[o] \o s.out \in Seq(Frames)
          /\ ToSet(chan[o] \o s.out) = ToSet(chan[o]) \cup ToSet(s.out)
      BY <2>1, <1>3, SetOfConcat
    <2>3. chan' = [chan EXCEPT ![p] = rx, ![o] = @ \o s.out]
      BY DEF Becomes, o
    <2>4. chan'[p] = rx /\ chan'[o] = chan[o] \o s.out
      BY <2>3, <1>1, <1>2
    <2>5. chan' \in [Peers -> Seq(Frames)]
      BY <2>3, <2>2, <1>1, <1>2
    <2> QED
      BY <2>2, <2>4, <2>5
  <1>6. /\ Rest(s) \in Instances /\ Rest(s).out = <<>> /\ Rest(s).assoc = FALSE
        /\ Rest(s).state = s.state /\ Rest(s).retry = s.retry /\ Rest(s).group = s.group
        /\ Rest(s).commit = s.commit /\ Rest(s).p_commit = s.p_commit
        /\ Rest(s).key = s.key /\ Rest(s).pmk = s.pmk /\ Rest(s).sc = s.sc
        /\ Rest(s).alive = s.alive
    BY <1>3, RestFields
  <1>7. assocs' \in [Peers -> Nat] /\ faults' = faults /\ env' = env
    BY <1>2 DEF Becomes
  <1>8. TypeOK'
    BY <1>1, <1>2, <1>4, <1>5, <1>6, <1>7 DEF TypeOK, Legal
  <1>9. \A q \in Peers : KeysOnce(sm[q])' /\ Progress(q, sm[q])'
    <2>1. KeysOnce(Rest(s)) /\ Progress(p, Rest(s))
      BY <1>6 DEF Legal, KeysOnce, Progress
    <2>2. KeysOnce(sm[o]) /\ Progress(o, sm[o])
      BY <1>1 DEF IInv
    <2> QED
      BY <2>1, <2>2, <1>1, <1>4 DEF KeysOnce, Progress
  <1>10. \A q \in Peers : sm[q].key # None => sm'[q].key = sm[q].key /\ sm'[q].commit = sm[q].commit
    BY <1>1, <1>4, <1>6 DEF Legal
  <1>11. ConfirmsSent'
    <2>1. SUFFICES ASSUME NEW r \in Peers, NEW m \in ToSet(chan'[r]), m.trans = "confirm"
                   PROVE  \E q \in Peers : m.key = sm'[q].key /\ m.c = sm'[q].commit
      BY DEF ConfirmsSent
    <2>2. CASE m \in ToSet(chan[r])
      <3>1. m \in Frames
        BY <2>2, <1>2 DEF ToSet
      <3>2. m.key # None
        BY <3>1, <2>1, FrameFields, NotNone
      <3>3. PICK q \in Peers : m.key = sm[q].key /\ m.c = sm[q].commit
        BY <1>2, <2>2, <2>1 DEF ConfirmsSent
      <3> QED
        BY <3>2, <3>3, <1>10
    <2>3. CASE m \in ToSet(s.out)
      BY <2>3, <2>1, <1>4, <1>6 DEF Legal
    <2> QED
      BY <2>1, <2>2, <2>3, <1>1, <1>5
  <1>12. PmkMeansPeerConfirmed'
    <2>1. s.pmk # None => sm[o].key = s.pmk
      BY DEF Legal, o
    <2>2. PmkMeansPeerConfirmed
      BY DEF IInv, Inv
    <2>3. sm[o].pmk # None => sm[p].key = sm[o].pmk
      BY <2>2, <1>1 DEF PmkMeansPeerConfirmed
    <2>4. sm'[o].pmk # None => sm'[p].key = sm'[o].pmk
      BY <2>3, <1>4, <1>10
    <2>5. sm'[p].pmk # None => sm'[o].key = sm'[p].pmk
      BY <2>1, <1>4, <1>6
    <2> QED
      BY <2>4, <2>5, <1>1 DEF PmkMeansPeerConfirmed, o
  <1>13. KeysAgree'
    <2>1. Sta \in Peers /\ Ap \in Peers /\ Other(Sta) = Ap
      BY DEF Peers, Other
    <2>2. ASSUME sm'[Sta].state = "accepted", sm'[Ap].state = "accepted"
          PROVE  sm'[Sta].pmk = sm'[Ap].pmk
      <3>1. sm'[Sta].pmk # None /\ sm'[Ap].pmk = sm'[Ap].key
        BY <1>9, <2>1, <2>2 DEF KeysOnce
      <3> QED
        BY <3>1, <1>12, <2>1 DEF PmkMeansPeerConfirmed
    <2> QED
      BY <2>1, <2>2 DEF KeysAgree, Accepted
  <1> QED
    BY <1>8, <1>9, <1>11, <1>12, <1>13 DEF IInv, Inv

-----------------------------------------------------------------------------
(* What an instance may become.                                             *)

\* The frames an instance transmits.
LEMMA FrameTypes ==
    /\ \A c \in Commits : Commit(c) \in Frames /\ Commit(c).trans = "commit"
    /\ \A status \in {"token", "unsupp", "unspecified"} : \A g \in Nat :
          Refusal(status, g) \in Frames /\ Refusal(status, g).trans = "commit"
    /\ \A k \in Keys : \A sc \in SendConfirms : \A c \in Commits :
          /\ Confirm(k, sc, c) \in Frames /\ Confirm(k, sc, c).trans = "confirm"
          /\ Confirm(k, sc, c).key = k /\ Confirm(k, sc, c).c = c
  BY DEF Commit, Refusal, Confirm, Frames, Commits

\* The last value of send-confirm is one.
LEMMA LastConfirm == ScMax \in SendConfirms
  <1>1. 65535 \in 0 .. 65535
    OBVIOUS
  <1> QED
    BY <1>1 DEF SendConfirms, ScMax

\* Counting resynchronisations starts at zero.
LEMMA ZeroSync == 0 \in Syncs
  BY BoundsAssumption DEF Syncs

\* An instance at rest is one it may become.
LEMMA LegalSame ==
    ASSUME IInv, NEW p \in Peers
    PROVE  /\ Legal(p, sm[p]) /\ sm[p].out = <<>> /\ sm[p].assoc = FALSE
           /\ sm[p] \in Instances /\ chan[p] \in Seq(Frames)
  BY SetOfEmpty DEF IInv, Inv, TypeOK, PmkMeansPeerConfirmed, Legal

\* Giving up is always possible.
LEMMA LegalFail ==
    ASSUME NEW p \in Peers, NEW s, Legal(p, s)
    PROVE  Legal(p, Fail(s))
  <1>1. s \in Instances
    BY DEF Legal
  <1>2. /\ Fail(s) \in Instances /\ ~Fail(s).alive
        /\ Fail(s).retry = s.retry /\ Fail(s).group = s.group /\ Fail(s).state = s.state
        /\ Fail(s).commit = s.commit /\ Fail(s).p_commit = s.p_commit
        /\ Fail(s).key = s.key /\ Fail(s).pmk = s.pmk /\ Fail(s).out = s.out
    BY <1>1 DEF Fail, Instances
  <1> QED
    BY <1>2 DEF Legal, KeysOnce, Progress

\* A frame that is no confirm may be transmitted.
LEMMA LegalTransmit ==
    ASSUME NEW p \in Peers, NEW s, Legal(p, s), NEW m \in Frames, m.trans # "confirm"
    PROVE  Legal(p, Transmit(s, m))
  <1>1. s \in Instances /\ s.out \in Seq(Frames)
    BY DEF Legal, Instances
  <1>2. /\ Append(s.out, m) \in Seq(Frames)
        /\ ToSet(Append(s.out, m)) = ToSet(s.out) \cup {m}
    BY <1>1, SetOfAppend
  <1> DEFINE t == Transmit(s, m)
  <1>3. /\ t \in Instances /\ t.alive = s.alive /\ t.sc = s.sc
        /\ t.retry = s.retry /\ t.group = s.group /\ t.state = s.state
        /\ t.commit = s.commit /\ t.p_commit = s.p_commit
        /\ t.key = s.key /\ t.pmk = s.pmk /\ t.out = Append(s.out, m)
    BY <1>1, <1>2 DEF Transmit, Instances
  <1> HIDE DEF t
  <1>4. Legal(p, t)
    BY <1>2, <1>3 DEF Legal, KeysOnce, Progress
  <1> QED
    BY <1>4 DEF t

\* A refusal may be transmitted.
LEMMA LegalReject ==
    ASSUME NEW p \in Peers, NEW s, Legal(p, s), NEW status \in {"unsupp", "unspecified"}
    PROVE  Legal(p, Reject(s, status))
  <1>1. s.group \in Nat
    BY DEF Legal, Instances
  <1>2. /\ Refusal(status, IF status = "unsupp" THEN s.group ELSE 0) \in Frames
        /\ Refusal(status, IF status = "unsupp" THEN s.group ELSE 0).trans # "confirm"
    BY <1>1, FrameTypes
  <1> QED
    BY <1>2, LegalTransmit DEF Reject

\* An instance without keys that has a commit may send it, or send it again.
LEMMA LegalOldCommit ==
    ASSUME NEW p \in Peers, NEW s, Legal(p, s), s.commit # None, s.key = None,
           s.alive => s.sc = 0, s.state # "accepted"
    PROVE  Legal(p, SendOldCommit(s))
  <1> DEFINE t == [s EXCEPT !.state = "committed"]
  <1>1. s \in Instances /\ s.commit \in Commits
    BY DEF Legal, Instances
  <1>2. /\ t \in Instances /\ t.alive = s.alive /\ t.sc = s.sc /\ t.out = s.out
        /\ t.retry = s.retry /\ t.group = s.group /\ t.state = "committed"
        /\ t.commit = s.commit /\ t.p_commit = s.p_commit
        /\ t.key = s.key /\ t.pmk = s.pmk
    BY <1>1 DEF Instances
  <1> HIDE DEF t
  <1>3. Legal(p, t)
    BY <1>2 DEF Legal, KeysOnce, Progress
  <1>4. Commit(s.commit) \in Frames /\ Commit(s.commit).trans # "confirm"
    BY <1>1, FrameTypes
  <1> QED
    BY <1>3, <1>4, LegalTransmit DEF SendOldCommit, t

\* An instance without keys may make new secrets.
LEMMA LegalNewCommit ==
    ASSUME NEW p \in Peers, NEW s, Legal(p, s), s.key = None, s.alive => s.sc = 0,
           s.state # "accepted", sm[p].key = None
    PROVE  Legal(p, SendNewCommit(p, s))
  <1> DEFINE c == [from |-> p, group |-> s.group, gen |-> s.gen + 1]
             t == [s EXCEPT !.gen = @ + 1, !.commit = c]
  <1>1. s \in Instances /\ s.group \in Nat /\ s.gen \in Nat /\ s.gen + 1 \in Nat
    BY DEF Legal, Instances
  <1>2. c \in Commits
    BY <1>1 DEF Commits
  <1> HIDE DEF c
  <1>3. /\ t \in Instances /\ t.alive = s.alive /\ t.sc = s.sc /\ t.out = s.out
        /\ t.retry = s.retry /\ t.group = s.group /\ t.state = s.state
        /\ t.commit = c /\ t.p_commit = s.p_commit
        /\ t.key = s.key /\ t.pmk = s.pmk
    BY <1>1, <1>2 DEF Instances
  <1> HIDE DEF t
  <1>4. \A m \in ToSet(s.out) : m.trans = "confirm" => m.key = None
    BY DEF Legal
  <1>5. \A m \in ToSet(s.out) : m \in Frames
    <2>1. s.out \in Seq(Frames)
      BY <1>1 DEF Instances
    <2> QED
      BY <2>1 DEF ToSet
  <1>6. \A m \in ToSet(s.out) : m.trans # "confirm"
    BY <1>4, <1>5, FrameFields, NotNone
  <1>7. Legal(p, t) /\ t.commit # None
    BY <1>2, <1>3, <1>6, NotNone DEF Legal, KeysOnce, Progress
  <1>8. Legal(p, SendOldCommit(t))
    BY <1>7, <1>3, LegalOldCommit
  <1> QED
    BY <1>8 DEF SendNewCommit, t, c

\* What is known when a frame is received.
LEMMA Received ==
    ASSUME IInv, NEW p \in Peers, NEW state, NEW m, Receives(p, state, m)
    PROVE  /\ Legal(p, sm[p]) /\ sm[p] \in Instances /\ sm[p].out = <<>>
           /\ sm[p].alive /\ sm[p].state = state /\ sm[p].assoc = FALSE
           /\ m \in Frames /\ m \in ToSet(chan[p])
           /\ Tail(chan[p]) \in Seq(Frames) /\ ToSet(Tail(chan[p])) \subseteq ToSet(chan[p])
  BY LegalSame, SetOfTail DEF Receives


\* An instance without a state of its own refuses everything.
LEMMA RxNothingLemma ==
    ASSUME IInv, NEW p \in Peers, NEW m, RxNothing(p, m)
    PROVE  IInv'
  <1>1. Receives(p, "nothing", m)
    BY DEF RxNothing
  <1>2. /\ Legal(p, sm[p]) /\ Tail(chan[p]) \in Seq(Frames)
        /\ ToSet(Tail(chan[p])) \subseteq ToSet(chan[p])
    BY <1>1, Received
  <1>3. /\ Legal(p, Fail(sm[p])) /\ Legal(p, Fail(Reject(sm[p], "unsupp")))
        /\ Legal(p, BadCommit(sm[p]))
    BY <1>2, LegalFail, LegalReject DEF BadCommit
  <1>4. \/ Becomes(p, Fail(sm[p]), Tail(chan[p]))
        \/ Becomes(p, Fail(Reject(sm[p], "unsupp")), Tail(chan[p]))
        \/ Becomes(p, BadCommit(sm[p]), Tail(chan[p]))
    BY DEF RxNothing
  <1> QED
    BY <1>2, <1>3, <1>4, BecomesLemma

\* An early confirm is answered with the commit, up to SAE_SYNC_MAX times.
LEMMA RxConfirmCommittedLemma ==
    ASSUME IInv, NEW p \in Peers, NEW m, RxConfirmCommitted(p, m)
    PROVE  IInv'
  <1> DEFINE s == sm[p]
             t == [s EXCEPT !.sync = @ + 1]
  <1>1. Receives(p, "committed", m)
    BY DEF RxConfirmCommitted
  <1>2. /\ Legal(p, s) /\ Tail(chan[p]) \in Seq(Frames)
        /\ ToSet(Tail(chan[p])) \subseteq ToSet(chan[p])
        /\ s.alive /\ s.state = "committed" /\ s \in Instances
    BY <1>1, Received
  <1>3. s.commit # None /\ s.key = None /\ s.sc = 0
    BY <1>2 DEF Legal, KeysOnce, Progress
  <1>4. CASE ~InSync(s) /\ Becomes(p, Fail(s), Tail(chan[p]))
    BY <1>2, <1>4, LegalFail, BecomesLemma
  <1>5. CASE InSync(s) /\ Becomes(p, SendOldCommit(t), Tail(chan[p]))
    <2>1. s.sync + 1 \in Syncs
      <3>1. s.sync \in Syncs /\ s.sync <= SaeSyncMax
        BY <1>2, <1>5 DEF InSync, Instances
      <3> QED
        BY <3>1, BoundsAssumption DEF Syncs
    <2>2. /\ t \in Instances /\ t.alive = s.alive /\ t.sc = s.sc /\ t.out = s.out
          /\ t.retry = s.retry /\ t.group = s.group /\ t.state = s.state
          /\ t.commit = s.commit /\ t.p_commit = s.p_commit
          /\ t.key = s.key /\ t.pmk = s.pmk
      BY <1>2, <2>1 DEF Instances
    <2> HIDE DEF t
    <2>3. Legal(p, t)
      BY <1>2, <2>2 DEF Legal, KeysOnce, Progress
    <2>4. Legal(p, SendOldCommit(t))
      BY <2>2, <2>3, <1>2, <1>3, LegalOldCommit
    <2> QED
      BY <2>4, <1>2, <1>5, BecomesLemma
  <1> QED
    BY <1>4, <1>5 DEF RxConfirmCommitted

\* The commit is sent again with the token.
LEMMA RxTokenRequiredLemma ==
    ASSUME IInv, NEW p \in Peers, NEW m, RxTokenRequired(p, m)
    PROVE  IInv'
  <1> DEFINE s == sm[p]
             t == [s EXCEPT !.token = TRUE, !.sync = 0]
  <1>1. Receives(p, "committed", m) /\ Becomes(p, SendOldCommit(t), Tail(chan[p]))
    BY DEF RxTokenRequired
  <1>2. /\ Legal(p, s) /\ Tail(chan[p]) \in Seq(Frames)
        /\ ToSet(Tail(chan[p])) \subseteq ToSet(chan[p])
        /\ s.alive /\ s.state = "committed" /\ s \in Instances
    BY <1>1, Received
  <1>3. s.commit # None /\ s.key = None /\ s.sc = 0
    BY <1>2 DEF Legal, KeysOnce, Progress
  <1>4. /\ t \in Instances /\ t.alive = s.alive /\ t.sc = s.sc /\ t.out = s.out
        /\ t.retry = s.retry /\ t.group = s.group /\ t.state = s.state
        /\ t.commit = s.commit /\ t.p_commit = s.p_commit
        /\ t.key = s.key /\ t.pmk = s.pmk
    BY <1>2, ZeroSync DEF Instances
  <1> HIDE DEF t
  <1>5. Legal(p, t)
    BY <1>2, <1>4 DEF Legal, KeysOnce, Progress
  <1>6. Legal(p, SendOldCommit(t))
    BY <1>4, <1>5, <1>2, <1>3, LegalOldCommit
  <1> QED
    BY <1>6, <1>1, <1>2, BecomesLemma

\* A refused group is replaced by the next one, with a new commit.
LEMMA RxUnsupportedGroupLemma ==
    ASSUME IInv, NEW p \in Peers, NEW m, RxUnsupportedGroup(p, m)
    PROVE  IInv'
  <1> DEFINE s == sm[p]
             next == s.retry + 1
             t == [s EXCEPT !.state = "nothing", !.retry = next]
             u == [s EXCEPT !.retry = next, !.sync = 0, !.group = EccGroups[p][next],
                            !.token = FALSE, !.p_commit = None]
  <1>1. Receives(p, "committed", m)
    BY DEF RxUnsupportedGroup
  <1>2. /\ Legal(p, s) /\ Tail(chan[p]) \in Seq(Frames)
        /\ ToSet(Tail(chan[p])) \subseteq ToSet(chan[p])
        /\ s.alive /\ s.state = "committed" /\ s \in Instances
    BY <1>1, Received
  <1>3. /\ s.commit # None /\ s.key = None /\ s.sc = 0
        /\ s.retry \in 1 .. Len(EccGroups[p]) /\ s.pmk = None
    BY <1>2 DEF Legal, KeysOnce, Progress
  <1>4. EccGroups[p] \in Seq(Nat) /\ Len(EccGroups[p]) \in Nat
    BY GroupsAssumption
  <1>5. next \in 1 .. Len(EccGroups[p]) + 1 /\ next \in Nat
    BY <1>3, <1>4
  <1> HIDE DEF next
  <1>6. CASE Becomes(p, Fail(s), Tail(chan[p]))
    BY <1>2, <1>6, LegalFail, BecomesLemma
  <1>7. CASE Becomes(p, Fail(Reject(t, "unsupp")), Tail(chan[p]))
    <2>1. /\ t \in Instances /\ t.alive = s.alive /\ t.sc = s.sc /\ t.out = s.out
          /\ t.retry = next /\ t.group = s.group /\ t.state = "nothing"
          /\ t.commit = s.commit /\ t.p_commit = s.p_commit
          /\ t.key = s.key /\ t.pmk = s.pmk
      BY <1>2, <1>5 DEF Instances
    <2> HIDE DEF t
    <2>2. Fail(t) \in Instances
      BY <2>1 DEF Fail, Instances
    <2>3. /\ ~Fail(t).alive /\ Fail(t).sc = s.sc /\ Fail(t).out = s.out
          /\ Fail(t).retry = next /\ Fail(t).group = s.group /\ Fail(t).state = "nothing"
          /\ Fail(t).commit = s.commit /\ Fail(t).p_commit = s.p_commit
          /\ Fail(t).key = s.key /\ Fail(t).pmk = s.pmk
      BY <2>1 DEF Fail, Instances
    <2>4. Legal(p, Fail(t))
      BY <2>2, <2>3, <1>2, <1>3, <1>5 DEF Legal, KeysOnce, Progress
    <2>5. Legal(p, Reject(Fail(t), "unsupp"))
      BY <2>4, LegalReject
    <2>6. Reject(Fail(t), "unsupp") = Fail(Reject(t, "unsupp"))
      BY <2>1 DEF Fail, Reject, Transmit, Instances
    <2> QED
      BY <2>5, <2>6, <1>2, <1>7, BecomesLemma
  <1>8. CASE next <= Len(EccGroups[p]) /\ Becomes(p, SendNewCommit(p, u), Tail(chan[p]))
    <2>1. next \in 1 .. Len(EccGroups[p])
      BY <1>5, <1>8, <1>4
    <2>2. EccGroups[p][next] \in Nat /\ Contains(EccGroups[p], EccGroups[p][next])
      BY <2>1, <1>4 DEF Contains
    <2>3. /\ u \in Instances /\ u.alive = s.alive /\ u.sc = s.sc /\ u.out = s.out
          /\ u.retry = next /\ u.group = EccGroups[p][next] /\ u.state = s.state
          /\ u.commit = s.commit /\ u.p_commit = None
          /\ u.key = s.key /\ u.pmk = s.pmk
      BY <1>2, <1>5, <2>2, ZeroSync DEF Instances
    <2> HIDE DEF u
    <2>4. Legal(p, u)
      BY <2>1, <2>2, <2>3, <1>2, <1>3, <1>4, <1>5 DEF Legal, KeysOnce, Progress
    <2>5. Legal(p, SendNewCommit(p, u))
      BY <2>3, <2>4, <1>2, <1>3, LegalNewCommit
    <2> QED
      BY <2>5, <1>2, <1>8, BecomesLemma
  <1> QED
    BY <1>6, <1>7, <1>8 DEF RxUnsupportedGroup, next


\* The fields of an instance that has sent a confirm.
LEMMA ConfirmFields ==
    ASSUME NEW s, s \in Instances, s.key # None, s.commit # None
    PROVE  LET r == SendConfirm(s)
           IN  /\ r \in Instances /\ r.state = "confirmed" /\ r.alive = s.alive /\ r.sc = s.sc
               /\ r.retry = s.retry /\ r.group = s.group /\ r.commit = s.commit
               /\ r.p_commit = s.p_commit /\ r.key = s.key /\ r.pmk = s.pmk
               /\ r.rc = s.rc /\ r.assoc_retry = s.assoc_retry /\ r.assoc = s.assoc
               /\ \A m \in ToSet(r.out) :
                     m \in ToSet(s.out) \/ (m.key = s.key /\ m.c = s.commit)
  <1> DEFINE t == [s EXCEPT !.state = "confirmed"]
             f == Confirm(s.key, s.sc, s.commit)
             r == [t EXCEPT !.out = Append(@, f)]
  <1>1. s.key \in Keys /\ s.commit \in Commits /\ s.sc \in SendConfirms /\ s.out \in Seq(Frames)
    BY DEF Instances
  <1>2. f \in Frames /\ f.key = s.key /\ f.c = s.commit
    BY <1>1, FrameTypes
  <1> HIDE DEF f
  <1>3. /\ Append(s.out, f) \in Seq(Frames)
        /\ ToSet(Append(s.out, f)) = ToSet(s.out) \cup {f}
    BY <1>1, <1>2, SetOfAppend
  <1>4. /\ t \in Instances /\ t.state = "confirmed" /\ t.alive = s.alive /\ t.sc = s.sc
        /\ t.retry = s.retry /\ t.group = s.group /\ t.commit = s.commit
        /\ t.p_commit = s.p_commit /\ t.key = s.key /\ t.pmk = s.pmk /\ t.out = s.out
        /\ t.rc = s.rc /\ t.assoc_retry = s.assoc_retry /\ t.assoc = s.assoc
    BY DEF Instances
  <1> HIDE DEF t
  <1>5. /\ r \in Instances /\ r.state = "confirmed" /\ r.alive = s.alive /\ r.sc = s.sc
        /\ r.retry = s.retry /\ r.group = s.group /\ r.commit = s.commit
        /\ r.p_commit = s.p_commit /\ r.key = s.key /\ r.pmk = s.pmk
        /\ r.rc = s.rc /\ r.assoc_retry = s.assoc_retry /\ r.assoc = s.assoc
        /\ r.out = Append(s.out, f)
    BY <1>3, <1>4 DEF Instances
  <1>6. SendConfirm(s) = r
    BY DEF SendConfirm, Transmit, t, f
  <1> HIDE DEF r
  <1> QED
    BY <1>2, <1>3, <1>5, <1>6

\* The keys derived from two commits.
LEMMA KeyType ==
    ASSUME NEW p \in Peers, NEW c1 \in Commits, NEW c2 \in Commits
    PROVE  DerivedKey(p, c1, c2) \in Keys
  BY DEF DerivedKey, Pwe, Keys

\* The peer's commit is processed: keys are derived and a confirm is sent.
LEMMA RxCommitLemma ==
    ASSUME IInv, NEW p \in Peers, NEW m, RxCommit(p, m)
    PROVE  IInv'
  <1> DEFINE s == sm[p]
             k == DerivedKey(p, s.commit, m.c)
             t == [s EXCEPT !.p_commit = m.c, !.sc = @ + 1, !.key = k]
             u == [s EXCEPT !.p_commit = m.c]
  <1>1. Receives(p, "committed", m) /\ m.trans = "commit" /\ m.status = "ok"
    BY DEF RxCommit
  <1>2. /\ Legal(p, s) /\ Tail(chan[p]) \in Seq(Frames)
        /\ ToSet(Tail(chan[p])) \subseteq ToSet(chan[p])
        /\ s.alive /\ s.state = "committed" /\ s \in Instances /\ m \in Frames
        /\ s.out = <<>>
    BY <1>1, Received
  <1>3. s.commit # None /\ s.key = None /\ s.sc = 0 /\ s.pmk = None
    BY <1>2 DEF Legal, KeysOnce, Progress
  <1>4. m.c \in Commits /\ s.commit \in Commits
    BY <1>1, <1>2, <1>3, FrameFields DEF Instances
  <1>5. CASE ~Reflected(s, m.c) /\ Becomes(p, ProcessCommit(p, s, m.c), Tail(chan[p]))
    <2>1. k \in Keys /\ k # None
      BY <1>4, KeyType, NotNone
    <2>2. s.sc + 1 \in SendConfirms /\ s.sc + 1 = 1
      BY <1>3 DEF SendConfirms, ScMax
    <2> DEFINE r == SendConfirm(t)
    <2>3. r = ProcessCommit(p, s, m.c)
      BY DEF ProcessCommit
    <2> HIDE DEF k
    <2>4. /\ t \in Instances /\ t.alive = s.alive /\ t.sc = 1 /\ t.out = s.out
          /\ t.retry = s.retry /\ t.group = s.group /\ t.state = s.state
          /\ t.commit = s.commit /\ t.p_commit = m.c
          /\ t.key = k /\ t.pmk = s.pmk
      BY <1>2, <1>4, <2>1, <2>2 DEF Instances
    <2> HIDE DEF t
    <2>5. /\ r \in Instances /\ r.state = "confirmed" /\ r.alive = s.alive /\ r.sc = 1
          /\ r.retry = s.retry /\ r.group = s.group /\ r.commit = s.commit
          /\ r.p_commit = m.c /\ r.key = k /\ r.pmk = s.pmk
          /\ \A f \in ToSet(r.out) : f \in ToSet(s.out) \/ (f.key = k /\ f.c = s.commit)
      BY <2>1, <2>4, <1>3, ConfirmFields
    <2> HIDE DEF r
    <2>6. \A f \in ToSet(r.out) : f.key = r.key /\ f.c = r.commit
      BY <2>5, <1>2, SetOfEmpty
    <2>7. m.c # s.commit
      BY <1>5 DEF Reflected
    <2>8. Legal(p, r)
      BY <2>1, <2>5, <2>6, <2>7, <1>2, <1>3 DEF Legal, KeysOnce, Progress
    <2> QED
      BY <2>3, <2>8, <1>2, <1>5, BecomesLemma
  <1>6. CASE Becomes(p, u, Tail(chan[p]))
    <2>1. /\ u \in Instances /\ u.alive = s.alive /\ u.sc = s.sc /\ u.out = s.out
          /\ u.retry = s.retry /\ u.group = s.group /\ u.state = s.state
          /\ u.commit = s.commit /\ u.p_commit = m.c
          /\ u.key = s.key /\ u.pmk = s.pmk
      BY <1>2, <1>4 DEF Instances
    <2> HIDE DEF u
    <2>2. Legal(p, u)
      BY <2>1, <1>2, <1>3 DEF Legal, KeysOnce, Progress
    <2> QED
      BY <2>2, <1>2, <1>6, BecomesLemma
  <1> QED
    BY <1>5, <1>6 DEF RxCommit

\* A commit in a group that is not supported ends the authentication.
LEMMA RxCommitUnsupportedLemma ==
    ASSUME IInv, NEW p \in Peers, NEW m, RxCommitUnsupported(p, m)
    PROVE  IInv'
  <1> DEFINE s == sm[p]
             t == [s EXCEPT !.sync = @ + 1]
             rx == Tail(chan[p])
  <1>1. Receives(p, "committed", m)
    BY DEF RxCommitUnsupported
  <1>2. /\ Legal(p, s) /\ rx \in Seq(Frames) /\ ToSet(rx) \subseteq ToSet(chan[p])
        /\ s \in Instances
    BY <1>1, Received
  <1>3. CASE ~InSync(s)
    <2>1. Becomes(p, Fail(s), rx)
      BY <1>3 DEF RxCommitUnsupported
    <2> QED
      BY <2>1, <1>2, LegalFail, BecomesLemma
  <1>4. CASE InSync(s)
    <2>1. Becomes(p, Fail(Reject(t, "unsupp")), rx)
      BY <1>4 DEF RxCommitUnsupported
    <2>2. s.sync + 1 \in Syncs
      <3>1. s.sync \in Syncs /\ s.sync <= SaeSyncMax
        BY <1>2, <1>4 DEF InSync, Instances
      <3> QED
        BY <3>1, BoundsAssumption DEF Syncs
    <2>3. /\ t \in Instances /\ t.alive = s.alive /\ t.sc = s.sc /\ t.out = s.out
          /\ t.retry = s.retry /\ t.group = s.group /\ t.state = s.state
          /\ t.commit = s.commit /\ t.p_commit = s.p_commit
          /\ t.key = s.key /\ t.pmk = s.pmk
      BY <1>2, <2>2 DEF Instances
    <2> HIDE DEF t
    <2>4. Legal(p, t)
      BY <1>2, <2>3 DEF Legal, KeysOnce, Progress
    <2>5. Legal(p, Fail(Reject(t, "unsupp")))
      BY <2>4, LegalFail, LegalReject
    <2> QED
      BY <2>1, <2>5, <1>2, BecomesLemma
  <1> QED
    BY <1>3, <1>4

\* Giving up and refusing may be done in either order.
LEMMA FailReject ==
    ASSUME NEW s, s \in Instances, NEW status
    PROVE  Reject(Fail(s), status) = Fail(Reject(s, status))
  BY DEF Fail, Reject, Transmit, Instances

\* The group is changed on a commit in another group, and the keys with it: none are left.
LEMMA RxCommitOtherGroupLemma ==
    ASSUME IInv, NEW p \in Peers, NEW m, RxCommitOtherGroup(p, m)
    PROVE  IInv'
  <1> DEFINE s == sm[p]
             rx == Tail(chan[p])
             t == [s EXCEPT !.sync = 0, !.sc = @ + 1, !.group = m.group]
             u == SendNewCommit(p, t)
             v == [u EXCEPT !.state = "confirmed"]
  <1>1. /\ Receives(p, "committed", m) /\ m.trans = "commit" /\ m.status = "ok"
        /\ Contains(EccGroups[p], m.group)
    BY DEF RxCommitOtherGroup
  <1>2. /\ Legal(p, s) /\ rx \in Seq(Frames) /\ ToSet(rx) \subseteq ToSet(chan[p])
        /\ s.alive /\ s.state = "committed" /\ s \in Instances /\ m \in Frames
    BY <1>1, Received
  <1>3. s.commit # None /\ s.key = None /\ s.sc = 0 /\ s.pmk = None
    BY <1>2 DEF Legal, KeysOnce, Progress
  <1>4. CASE Becomes(p, Reject(SendOldCommit(s), "unsupp"), rx)
    BY <1>2, <1>3, <1>4, LegalOldCommit, LegalReject, BecomesLemma
  <1>5. CASE Becomes(p, BadCommit(SendOldCommit(s)), rx)
    <2>1. Legal(p, SendOldCommit(s))
      BY <1>2, <1>3, LegalOldCommit
    <2> DEFINE y == BadCommit(SendOldCommit(s))
    <2>2. Legal(p, y)
      BY <2>1, LegalFail, LegalReject DEF BadCommit
    <2>3. Becomes(p, y, rx)
      BY <1>5
    <2> HIDE DEF s, rx, y
    <2> QED
      BY <1>2, <2>2, <2>3, BecomesLemma
  <1>6. CASE Becomes(p, BadCommit(v), rx)
    <2>1. m.group \in Nat
      BY <1>1, <1>2, FrameFields
    <2>2. s.sc + 1 \in SendConfirms
      BY <1>3 DEF SendConfirms, ScMax
    <2>3. /\ t \in Instances /\ t.alive = s.alive /\ t.out = s.out
          /\ t.retry = s.retry /\ t.group = m.group /\ t.state = s.state
          /\ t.commit = s.commit /\ t.p_commit = s.p_commit
          /\ t.key = s.key /\ t.pmk = s.pmk
      BY <1>2, <2>1, <2>2, ZeroSync DEF Instances
    <2> HIDE DEF t
    <2>4. /\ Fail(t) \in Instances /\ ~Fail(t).alive /\ Fail(t).out = s.out
          /\ Fail(t).retry = s.retry /\ Fail(t).group = m.group /\ Fail(t).state = s.state
          /\ Fail(t).commit = s.commit /\ Fail(t).p_commit = s.p_commit
          /\ Fail(t).key = s.key /\ Fail(t).pmk = s.pmk
      BY <2>3 DEF Fail, Instances
    <2>5. Legal(p, Fail(t))
      BY <2>4, <1>1, <1>2, <1>3 DEF Legal, KeysOnce, Progress
    <2> DEFINE w == SendNewCommit(p, Fail(t))
    <2>6. Legal(p, w)
      BY <2>4, <2>5, <1>2, <1>3, LegalNewCommit
    <2>7. /\ w = Fail(u) /\ u \in Instances
          /\ w.key = None /\ w.pmk = None /\ ~w.alive
      <3> DEFINE c == [from |-> p, group |-> m.group, gen |-> t.gen + 1]
      <3>1. t.gen \in Nat /\ t.gen + 1 \in Nat /\ t.out \in Seq(Frames)
        BY <2>3 DEF Instances
      <3>2. c \in Commits
        BY <3>1, <2>1 DEF Commits
      <3>3. Append(t.out, Commit(c)) \in Seq(Frames)
        BY <3>1, <3>2, FrameTypes, SetOfAppend
      <3>4. /\ u = [t EXCEPT !.gen = t.gen + 1, !.commit = c, !.state = "committed",
                             !.out = Append(t.out, Commit(c))]
            /\ w = [Fail(t) EXCEPT !.gen = t.gen + 1, !.commit = c, !.state = "committed",
                             !.out = Append(t.out, Commit(c))]
        BY <2>3, <2>4 DEF SendNewCommit, SendOldCommit, Transmit, Fail, Instances
      <3> HIDE DEF c
      <3>5. u \in Instances
        BY <3>1, <3>2, <3>3, <3>4, <2>3 DEF Instances
      <3>6. w = Fail(u)
        BY <3>4, <2>3 DEF Fail, Instances
      <3>7. w.key = None /\ w.pmk = None /\ ~w.alive
        BY <3>4, <2>4, <1>3 DEF Instances
      <3> QED
        BY <3>5, <3>6, <3>7
    <2> HIDE DEF u, w
    <2> DEFINE x == [w EXCEPT !.state = "confirmed"]
    <2>8. w \in Instances
      BY <2>6 DEF Legal
    <2>9. /\ x \in Instances /\ x.alive = w.alive /\ x.sc = w.sc /\ x.out = w.out
          /\ x.retry = w.retry /\ x.group = w.group /\ x.state = "confirmed"
          /\ x.commit = w.commit /\ x.p_commit = w.p_commit
          /\ x.key = w.key /\ x.pmk = w.pmk
      BY <2>8 DEF Instances
    <2>10. v \in Instances /\ x = Fail(v)
      BY <2>7 DEF Fail, Instances
    <2> HIDE DEF v, x
    <2>11. Legal(p, x)
      BY <2>6, <2>7, <2>9 DEF Legal, KeysOnce, Progress
    <2>12. Legal(p, Reject(x, "unspecified"))
      BY <2>11, LegalReject
    <2>13. Reject(x, "unspecified") = BadCommit(v)
      BY <2>10, FailReject DEF BadCommit
    <2> QED
      BY <2>12, <2>13, <1>2, <1>6, BecomesLemma
  <1> QED
    BY <1>4, <1>5, <1>6 DEF RxCommitOtherGroup


\* A refusal ends the authentication.
LEMMA RxRefusedLemma ==
    ASSUME IInv, NEW p \in Peers, NEW m, RxRefusedCommitted(p, m)
    PROVE  IInv'
  <1>1. Receives(p, "committed", m) /\ Becomes(p, BadCommit(sm[p]), Tail(chan[p]))
    BY DEF RxRefusedCommitted
  <1>2. /\ Legal(p, sm[p]) /\ Tail(chan[p]) \in Seq(Frames)
        /\ ToSet(Tail(chan[p])) \subseteq ToSet(chan[p])
    BY <1>1, Received
  <1>3. Legal(p, BadCommit(sm[p]))
    BY <1>2, LegalFail, LegalReject DEF BadCommit
  <1> QED
    BY <1>1, <1>2, <1>3, BecomesLemma

\* A commit in confirmed state: the commit and a confirm are sent again, and
\* the authentication ends.
LEMMA RxCommitConfirmedLemma ==
    ASSUME IInv, NEW p \in Peers, NEW m, RxCommitConfirmed(p, m)
    PROVE  IInv'
  <1> DEFINE s == sm[p]
             rx == Tail(chan[p])
             t == [s EXCEPT !.sync = @ + 1, !.sc = @ + 1]
             u == SendOldCommit(t)
             r == SendConfirm(u)
  <1>1. Receives(p, "confirmed", m)
    BY DEF RxCommitConfirmed
  <1>2. /\ Legal(p, s) /\ rx \in Seq(Frames) /\ ToSet(rx) \subseteq ToSet(chan[p])
        /\ s.alive /\ s.state = "confirmed" /\ s \in Instances /\ s.out = <<>>
    BY <1>1, Received
  <1>3. s.commit # None /\ s.key # None /\ s.sc = 1 /\ s.commit \in Commits
    BY <1>2 DEF Legal, KeysOnce, Progress, Instances
  <1>4. CASE Becomes(p, BadCommit(s), rx) \/ Becomes(p, Fail(s), rx)
    BY <1>2, <1>4, LegalFail, LegalReject, BecomesLemma DEF BadCommit
  <1>5. CASE InSync(s) /\ Becomes(p, BadCommit(r), rx)
    <2>1. s.sync + 1 \in Syncs
      <3>1. s.sync \in Syncs /\ s.sync <= SaeSyncMax
        BY <1>2, <1>5 DEF InSync, Instances
      <3> QED
        BY <3>1, BoundsAssumption DEF Syncs
    <2>2. s.sc + 1 \in SendConfirms
      BY <1>3 DEF SendConfirms, ScMax
    <2>3. /\ t \in Instances /\ t.alive = s.alive /\ t.out = <<>>
          /\ t.retry = s.retry /\ t.group = s.group
          /\ t.commit = s.commit /\ t.p_commit = s.p_commit
          /\ t.key = s.key /\ t.pmk = s.pmk
      BY <1>2, <2>1, <2>2 DEF Instances
    <2> HIDE DEF t
    <2>4. Commit(s.commit) \in Frames /\ Commit(s.commit).trans = "commit"
      BY <1>3, FrameTypes
    <2>5. /\ Append(<<>>, Commit(s.commit)) \in Seq(Frames)
          /\ ToSet(Append(<<>>, Commit(s.commit))) = {Commit(s.commit)}
      <3>1. <<>> \in Seq(Frames)
        OBVIOUS
      <3> QED
        BY <3>1, <2>4, SetOfOne
    <2>6. u = [t EXCEPT !.state = "committed", !.out = Append(<<>>, Commit(s.commit))]
      BY <2>3 DEF SendOldCommit, Transmit, Instances
    <2>7. /\ u \in Instances /\ u.alive = s.alive /\ u.out = Append(<<>>, Commit(s.commit))
          /\ u.retry = s.retry /\ u.group = s.group
          /\ u.commit = s.commit /\ u.p_commit = s.p_commit
          /\ u.key = s.key /\ u.pmk = s.pmk
      BY <2>3, <2>5, <2>6 DEF Instances
    <2> HIDE DEF u
    <2>8. /\ r \in Instances /\ r.state = "confirmed" /\ r.alive = s.alive
          /\ r.retry = s.retry /\ r.group = s.group /\ r.commit = s.commit
          /\ r.p_commit = s.p_commit /\ r.key = s.key /\ r.pmk = s.pmk
          /\ \A f \in ToSet(r.out) : f \in ToSet(u.out) \/ (f.key = s.key /\ f.c = s.commit)
      BY <2>7, <1>3, ConfirmFields
    <2> HIDE DEF r
    <2>9. \A f \in ToSet(r.out) : f.trans = "confirm" => f.key = r.key /\ f.c = r.commit
      BY <2>4, <2>5, <2>7, <2>8
    <2>10. /\ Fail(r) \in Instances /\ Fail(r).state = "confirmed" /\ ~Fail(r).alive
           /\ Fail(r).retry = s.retry /\ Fail(r).group = s.group /\ Fail(r).commit = s.commit
           /\ Fail(r).p_commit = s.p_commit /\ Fail(r).key = s.key /\ Fail(r).pmk = s.pmk
           /\ Fail(r).out = r.out
      BY <2>8 DEF Fail, Instances
    <2>11. Legal(p, Fail(r))
      BY <2>8, <2>9, <2>10, <1>2, <1>3 DEF Legal, KeysOnce, Progress
    <2>12. Legal(p, Reject(Fail(r), "unspecified"))
      BY <2>11, LegalReject
    <2>13. Reject(Fail(r), "unspecified") = BadCommit(r)
      BY <2>8, FailReject DEF BadCommit
    <2> QED
      BY <2>12, <2>13, <1>2, <1>5, BecomesLemma
  <1> QED
    BY <1>4, <1>5 DEF RxCommitConfirmed

\* A confirm that verifies comes from the peer, which has the same keys.
LEMMA VerifiedConfirm ==
    ASSUME IInv, NEW p \in Peers, NEW m, m \in ToSet(chan[p]), m \in Frames,
           m.trans = "confirm", VerifyConfirm(sm[p], m)
    PROVE  /\ sm[Other(p)].key = sm[p].key /\ sm[p].key # None
           /\ m.sc \in SendConfirms
  <1>1. m.key # None /\ m.key = sm[p].key /\ m.c = sm[p].p_commit /\ m.sc \in SendConfirms
    BY FrameFields, NotNone DEF VerifyConfirm
  <1>2. PICK q \in Peers : m.key = sm[q].key /\ m.c = sm[q].commit
    BY DEF IInv, ConfirmsSent
  <1>3. KeysOnce(sm[p])
    BY DEF IInv
  <1>4. q # p
    BY <1>1, <1>2, <1>3 DEF KeysOnce
  <1>5. q = Other(p)
    BY <1>4, OtherPeer
  <1> QED
    BY <1>1, <1>2, <1>5

\* A confirm that verifies makes the instance accept.
LEMMA LegalProcessConfirm ==
    ASSUME IInv, NEW p \in Peers, NEW s, s \in Instances, NEW m, m.sc \in SendConfirms,
           sm[Other(p)].key = s.key, s.key # None, s.commit # None, s.p_commit # s.commit,
           s.key = sm[p].key, s.commit = sm[p].commit,
           s.retry = sm[p].retry, s.group = sm[p].group, s.alive = sm[p].alive,
           \A f \in ToSet(s.out) : f.key = s.key /\ f.c = s.commit
    PROVE  /\ Legal(p, ProcessConfirm(s, m))
           /\ ProcessConfirm(s, m).rc = m.sc /\ ProcessConfirm(s, m).assoc_retry = s.assoc_retry
           /\ ProcessConfirm(s, m) \in Instances
  <1> DEFINE t == ProcessConfirm(s, m)
  <1>1. ScMax \in SendConfirms
    BY LastConfirm
  <1>2. /\ t \in Instances /\ t.state = "accepted" /\ t.alive = s.alive
        /\ t.retry = s.retry /\ t.group = s.group /\ t.commit = s.commit
        /\ t.p_commit = s.p_commit /\ t.key = s.key /\ t.pmk = s.key /\ t.out = s.out
        /\ t.rc = m.sc /\ t.assoc_retry = s.assoc_retry
    BY <1>1 DEF ProcessConfirm, Instances
  <1> HIDE DEF t
  <1>3. Legal(p, sm[p])
    BY LegalSame
  <1>4. Legal(p, t)
    BY <1>2, <1>3 DEF Legal, KeysOnce, Progress
  <1> QED
    BY <1>2, <1>4 DEF t

\* The confirm of the peer.
LEMMA RxConfirmLemma ==
    ASSUME IInv, NEW p \in Peers, NEW m, RxConfirm(p, m)
    PROVE  IInv'
  <1> DEFINE s == sm[p]
             rx == Tail(chan[p])
  <1>1. Receives(p, "confirmed", m) /\ m.trans = "confirm"
    BY DEF RxConfirm
  <1>2. /\ Legal(p, s) /\ rx \in Seq(Frames) /\ ToSet(rx) \subseteq ToSet(chan[p])
        /\ s \in Instances /\ s.out = <<>> /\ m \in Frames /\ m \in ToSet(chan[p])
    BY <1>1, Received
  <1>3. CASE VerifyConfirm(s, m) /\ Becomes(p, ProcessConfirm(s, m), rx)
    <2>1. sm[Other(p)].key = s.key /\ s.key # None /\ m.sc \in SendConfirms
      BY <1>1, <1>2, <1>3, VerifiedConfirm
    <2>2. s.commit # None /\ s.p_commit # s.commit
      BY <2>1, <1>2 DEF Legal, KeysOnce
    <2>3. \A f \in ToSet(s.out) : f.key = s.key /\ f.c = s.commit
      BY <1>2, SetOfEmpty
    <2>4. Legal(p, ProcessConfirm(s, m))
      BY <2>1, <2>2, <2>3, <1>2, LegalProcessConfirm
    <2> QED
      BY <2>4, <1>2, <1>3, BecomesLemma
  <1>4. CASE Becomes(p, Fail(Reject(s, "unspecified")), rx)
    BY <1>2, <1>4, LegalFail, LegalReject, BecomesLemma
  <1> QED
    BY <1>3, <1>4 DEF RxConfirm

\* What a confirm makes of an accepted instance that answers it.
LEMMA RxAcceptedAgain ==
    ASSUME IInv, NEW p \in Peers, NEW m, Receives(p, "accepted", m), m.trans = "confirm",
           InSync(sm[p]), VerifyConfirm(sm[p], m)
    PROVE  LET r == ProcessConfirm(SendConfirm([sm[p] EXCEPT !.rc = m.sc, !.sync = @ + 1,
                                                             !.sc = ScMax]), m)
           IN  Legal(p, r) /\ r.rc = m.sc /\ r \in Instances
  <1> DEFINE s == sm[p]
             t == [s EXCEPT !.rc = m.sc, !.sync = @ + 1, !.sc = ScMax]
             u == SendConfirm(t)
  <1>1. /\ Legal(p, s) /\ s \in Instances /\ s.out = <<>> /\ m \in Frames
        /\ m \in ToSet(chan[p])
    BY Received
  <1>2. sm[Other(p)].key = s.key /\ s.key # None /\ m.sc \in SendConfirms
    BY <1>1, VerifiedConfirm
  <1>3. s.commit # None /\ s.p_commit # s.commit
    BY <1>1, <1>2 DEF Legal, KeysOnce
  <1>4. s.sync + 1 \in Syncs
    <2>1. s.sync \in Syncs /\ s.sync <= SaeSyncMax
      BY <1>1 DEF InSync, Instances
    <2> QED
      BY <2>1, BoundsAssumption DEF Syncs
  <1>5. ScMax \in SendConfirms
    BY LastConfirm
  <1>6. /\ t \in Instances /\ t.alive = s.alive /\ t.out = <<>>
        /\ t.retry = s.retry /\ t.group = s.group
        /\ t.commit = s.commit /\ t.p_commit = s.p_commit
        /\ t.key = s.key /\ t.pmk = s.pmk
    BY <1>1, <1>2, <1>4, <1>5 DEF Instances
  <1>7. LET r == ProcessConfirm(SendConfirm(t), m)
        IN  Legal(p, r) /\ r.rc = m.sc /\ r \in Instances
    <2> HIDE DEF t
    <2>1. /\ u \in Instances /\ u.alive = s.alive
          /\ u.retry = s.retry /\ u.group = s.group /\ u.commit = s.commit
          /\ u.p_commit = s.p_commit /\ u.key = s.key
          /\ \A f \in ToSet(u.out) : f \in ToSet(t.out) \/ (f.key = s.key /\ f.c = s.commit)
      BY <1>2, <1>3, <1>6, ConfirmFields
    <2> HIDE DEF u
    <2>2. \A f \in ToSet(u.out) : f.key = u.key /\ f.c = u.commit
      BY <2>1, <1>6, SetOfEmpty
    <2>3. /\ Legal(p, ProcessConfirm(u, m)) /\ ProcessConfirm(u, m).rc = m.sc
          /\ ProcessConfirm(u, m) \in Instances
      BY <2>1, <2>2, <1>2, <1>3, LegalProcessConfirm
    <2> QED
      BY <2>3 DEF u
  <1> QED
    BY <1>7

\* A confirm after acceptance is answered, or ends the authentication.
LEMMA RxAcceptedLemma ==
    ASSUME IInv, NEW p \in Peers, NEW m, RxAccepted(p, m)
    PROVE  IInv'
  <1> DEFINE s == sm[p]
             rx == Tail(chan[p])
             r == ProcessConfirm(SendConfirm([s EXCEPT !.rc = m.sc, !.sync = @ + 1,
                                                       !.sc = ScMax]), m)
  <1>1. Receives(p, "accepted", m)
    BY DEF RxAccepted
  <1>2. Legal(p, s) /\ rx \in Seq(Frames) /\ ToSet(rx) \subseteq ToSet(chan[p])
    BY <1>1, Received
  <1>3. CASE Becomes(p, Fail(s), rx)
    BY <1>2, <1>3, LegalFail, BecomesLemma
  <1>4. CASE m.trans = "confirm" /\ InSync(s) /\ VerifyConfirm(s, m) /\ Becomes(p, r, rx)
    <2>1. Legal(p, r)
      BY <1>1, <1>4, RxAcceptedAgain
    <2> QED
      BY <2>1, <1>2, <1>4, BecomesLemma
  <1> QED
    BY <1>3, <1>4 DEF RxAccepted

\* What an association timeout makes of an accepted instance.
LEMMA AssocTimeoutFields ==
    ASSUME IInv, NEW p \in Peers, sm[p].assoc_retry < SaeMaxAssocRetry
    PROVE  LET t == [sm[p] EXCEPT !.assoc_retry = @ + 1, !.assoc = TRUE]
           IN  /\ Legal(p, t) /\ t \in Instances
               /\ sm[p].assoc_retry \in Nat /\ t.assoc_retry = sm[p].assoc_retry + 1
  <1> DEFINE s == sm[p]
             t == [s EXCEPT !.assoc_retry = @ + 1, !.assoc = TRUE]
  <1>1. Legal(p, s) /\ s \in Instances /\ s.out = <<>>
    BY LegalSame
  <1>2. s.assoc_retry \in AssocRetries
    BY <1>1 DEF Instances
  <1>3. s.assoc_retry + 1 \in AssocRetries /\ s.assoc_retry \in Nat
    BY <1>2, BoundsAssumption DEF AssocRetries
  <1>4. /\ t \in Instances /\ t.alive = s.alive /\ t.out = s.out /\ t.state = s.state
        /\ t.retry = s.retry /\ t.group = s.group /\ t.sc = s.sc
        /\ t.commit = s.commit /\ t.p_commit = s.p_commit
        /\ t.key = s.key /\ t.pmk = s.pmk /\ t.assoc_retry = s.assoc_retry + 1
    BY <1>1, <1>3 DEF Instances
  <1> HIDE DEF t
  <1>5. Legal(p, t)
    BY <1>1, <1>4 DEF Legal, KeysOnce, Progress
  <1> QED
    BY <1>3, <1>4, <1>5 DEF t

\* An association that times out is tried again, SAE_MAX_ASSOC_RETRY times.
LEMMA AssocTimeoutLemma ==
    ASSUME IInv, NEW p \in Peers, AssocTimeout(p)
    PROVE  IInv'
  <1>1. Legal(p, sm[p]) /\ chan[p] \in Seq(Frames)
    BY LegalSame
  <1>2. CASE Becomes(p, Fail(sm[p]), chan[p])
    BY <1>1, <1>2, LegalFail, BecomesLemma
  <1>3. CASE /\ sm[p].assoc_retry < SaeMaxAssocRetry
             /\ Becomes(p, [sm[p] EXCEPT !.assoc_retry = @ + 1, !.assoc = TRUE], chan[p])
    <2>1. Legal(p, [sm[p] EXCEPT !.assoc_retry = @ + 1, !.assoc = TRUE])
      BY <1>3, AssocTimeoutFields
    <2> QED
      BY <2>1, <1>1, <1>3, BecomesLemma
  <1> QED
    BY <1>2, <1>3 DEF AssocTimeout

\* sae_start() sends the first commit.
LEMMA StartLemma ==
    ASSUME IInv, NEW p \in Peers, Start(p)
    PROVE  IInv'
  <1>1. Legal(p, sm[p]) /\ chan[p] \in Seq(Frames)
    BY LegalSame
  <1>2. sm[p].alive /\ sm[p].state = "nothing" /\ Becomes(p, SendNewCommit(p, sm[p]), chan[p])
    BY DEF Start
  <1>3. sm[p].key = None /\ sm[p].sc = 0
    BY <1>1, <1>2 DEF Legal, KeysOnce, Progress
  <1>4. Legal(p, SendNewCommit(p, sm[p]))
    BY <1>1, <1>2, <1>3, LegalNewCommit
  <1> QED
    BY <1>1, <1>2, <1>4, BecomesLemma


\* What happens to frames that nobody handles: each that is on its way
\* afterwards was on its way before, or is no confirm.
LEMMA ChannelLemma ==
    ASSUME IInv, chan' \in [Peers -> Seq(Frames)], sm' = sm, assocs' = assocs, env' = env,
           faults' \in 0 .. MaxFaults,
           \A p \in Peers : \A m \in ToSet(chan'[p]) :
              m.trans = "confirm" => \E q \in Peers : m \in ToSet(chan[q])
    PROVE  IInv'
  <1>1. TypeOK'
    BY DEF IInv, Inv, TypeOK
  <1>2. ConfirmsSent'
    BY DEF IInv, ConfirmsSent
  <1>3. KeysAgree' /\ PmkMeansPeerConfirmed'
    BY DEF IInv, Inv, KeysAgree, PmkMeansPeerConfirmed, Accepted
  <1>4. \A p \in Peers : KeysOnce(sm[p])' /\ Progress(p, sm[p])'
    BY DEF IInv, KeysOnce, Progress
  <1> QED
    BY <1>1, <1>2, <1>3, <1>4 DEF IInv, Inv

\* One queue becomes q.
LEMMA OneQueue ==
    ASSUME IInv, NEW p \in Peers, NEW q, q \in Seq(Frames), chan' = [chan EXCEPT ![p] = q],
           sm' = sm, assocs' = assocs, env' = env, faults' \in 0 .. MaxFaults,
           \A m \in ToSet(q) : \E r \in Peers : m \in ToSet(chan[r])
    PROVE  IInv'
  <1>1. chan \in [Peers -> Seq(Frames)]
    BY DEF IInv, Inv, TypeOK
  <1>2. chan' \in [Peers -> Seq(Frames)]
    BY <1>1
  <1>3. \A r \in Peers : chan'[r] = chan[r] \/ chan'[r] = q
    BY <1>1
  <1>4. ASSUME NEW r \in Peers, NEW m \in ToSet(chan'[r])
        PROVE  \E t \in Peers : m \in ToSet(chan[t])
    BY <1>3, <1>4
  <1> QED
    BY <1>2, <1>4, ChannelLemma

\* Frames may be lost, repeated, overtaken and reflected.
LEMMA FaultLemma ==
    ASSUME IInv, NEW p \in Peers, Fault(p)
    PROVE  IInv'
  <1>1. /\ chan \in [Peers -> Seq(Frames)] /\ chan[p] \in Seq(Frames) /\ chan[p] # <<>>
        /\ sm' = sm /\ assocs' = assocs /\ env' = env
    BY DEF IInv, Inv, TypeOK, Fault
  <1>2. faults' \in 0 .. MaxFaults
    BY BoundsAssumption DEF IInv, Inv, TypeOK, Fault
  <1>3. /\ Head(chan[p]) \in Frames /\ Head(chan[p]) \in ToSet(chan[p])
        /\ Tail(chan[p]) \in Seq(Frames)
        /\ ToSet(Tail(chan[p])) \subseteq ToSet(chan[p])
    BY <1>1, SetOfTail
  <1>4. CASE chan' = [chan EXCEPT ![p] = Tail(@)]
    BY <1>1, <1>2, <1>3, <1>4, OneQueue
  <1>5. CASE chan' = [chan EXCEPT ![p] = Append(@, Head(@))]
    <2>1. /\ Append(chan[p], Head(chan[p])) \in Seq(Frames)
          /\ ToSet(Append(chan[p], Head(chan[p]))) = ToSet(chan[p]) \cup {Head(chan[p])}
      BY <1>1, <1>3, SetOfAppend
    <2> QED
      BY <2>1, <1>1, <1>2, <1>3, <1>5, OneQueue
  <1>6. CASE chan' = [chan EXCEPT ![p] = Append(Tail(@), Head(@))]
    <2> DEFINE t == Tail(chan[p])
               h == Head(chan[p])
    <2>1. t \in Seq(Frames) /\ h \in Frames /\ ToSet(t) \subseteq ToSet(chan[p])
          /\ h \in ToSet(chan[p]) /\ chan' = [chan EXCEPT ![p] = Append(t, h)]
      BY <1>3, <1>6
    <2> HIDE DEF t, h
    <2>2. /\ Append(t, h) \in Seq(Frames)
          /\ ToSet(Append(t, h)) = ToSet(t) \cup {h}
      BY <2>1, SetOfAppend
    <2> QED
      BY <2>1, <2>2, <1>1, <1>2, OneQueue
  <1>7. CASE \E k \in DOMAIN chan[p] : chan' = [chan EXCEPT ![Other(p)] = Append(@, chan[p][k])]
    <2> DEFINE o == Other(p)
    <2>1. PICK k \in DOMAIN chan[p] : chan' = [chan EXCEPT ![o] = Append(@, chan[p][k])]
      BY <1>7
    <2>2. o \in Peers /\ chan[o] \in Seq(Frames)
      BY <1>1, OtherPeer
    <2> HIDE DEF o
    <2> DEFINE f == chan[p][k]
    <2>3. f \in Frames /\ f \in ToSet(chan[p])
      BY <1>1 DEF ToSet
    <2>4. /\ Append(chan[o], f) \in Seq(Frames)
          /\ ToSet(Append(chan[o], f)) = ToSet(chan[o]) \cup {f}
      BY <2>2, <2>3, SetOfAppend
    <2>5. \A m \in ToSet(Append(chan[o], f)) : \E r \in Peers : m \in ToSet(chan[r])
      BY <2>2, <2>3, <2>4
    <2>6. chan' = [chan EXCEPT ![o] = Append(chan[o], f)]
      BY <2>1
    <2> HIDE DEF f
    <2> QED
      BY <2>2, <2>4, <2>5, <2>6, <1>1, <1>2, OneQueue
  <1> QED
    BY <1>4, <1>5, <1>6, <1>7 DEF Fault

\* The access point refuses a commit.
LEMMA ApRefusesLemma ==
    ASSUME IInv, ApRefuses
    PROVE  IInv'
  <1>1. /\ chan \in [Peers -> Seq(Frames)] /\ Ap \in Peers /\ Sta \in Peers
        /\ chan[Ap] \in Seq(Frames) /\ chan[Sta] \in Seq(Frames) /\ chan[Ap] # <<>>
        /\ Sta # Ap /\ Peers = {Sta, Ap}
    BY PeersAssumption DEF IInv, Inv, TypeOK, ApRefuses, Peers
  <1>2. /\ Head(chan[Ap]) \in Frames /\ Tail(chan[Ap]) \in Seq(Frames)
        /\ ToSet(Tail(chan[Ap])) \subseteq ToSet(chan[Ap])
    BY <1>1, SetOfTail
  <1>3. Head(chan[Ap]).trans = "commit"
    BY DEF ApRefuses
  <1>4. Head(chan[Ap]).group \in Nat
    BY <1>2, <1>3, FrameFields
  <1>5. PICK answer \in {Refusal("token", 0), Refusal("unspecified", 0),
                         Refusal("unsupp", 0), Refusal("unsupp", Head(chan[Ap]).group)} :
             chan' = [chan EXCEPT ![Ap] = Tail(@), ![Sta] = Append(@, answer)]
    BY DEF ApRefuses
  <1>6. answer \in Frames /\ answer.trans = "commit"
    BY <1>4, FrameTypes
  <1>7. /\ Append(chan[Sta], answer) \in Seq(Frames)
        /\ ToSet(Append(chan[Sta], answer)) = ToSet(chan[Sta]) \cup {answer}
    BY <1>1, <1>6, SetOfAppend
  <1>8. chan' \in [Peers -> Seq(Frames)]
    BY <1>1, <1>2, <1>5, <1>7
  <1>9. chan'[Ap] = Tail(chan[Ap]) /\ chan'[Sta] = Append(chan[Sta], answer)
    BY <1>1, <1>5
  <1>10. sm' = sm /\ assocs' = assocs /\ env' = env /\ faults' \in 0 .. MaxFaults
    BY DEF ApRefuses, IInv, Inv, TypeOK
  <1>11. \A p \in Peers : \A m \in ToSet(chan'[p]) :
              m.trans = "confirm" => \E q \in Peers : m \in ToSet(chan[q])
    BY <1>1, <1>2, <1>6, <1>7, <1>9
  <1> QED
    BY <1>8, <1>10, <1>11, ChannelLemma

-----------------------------------------------------------------------------
(* The theorems.                                                            *)

\* Two instances that sae_sm_new() has made know nothing.
LEMMA InitIInv == Init => IInv
  <1> SUFFICES ASSUME Init PROVE IInv
    OBVIOUS
  <1>1. \A p \in Peers : /\ EccGroups[p] \in Seq(Nat) /\ Len(EccGroups[p]) \in Nat
                         /\ 1 \in 1 .. Len(EccGroups[p]) /\ EccGroups[p][1] \in Nat
                         /\ Contains(EccGroups[p], EccGroups[p][1])
    BY GroupsAssumption DEF Contains
  <1>2. \A p \in Peers : sm[p] = NewSm(p) /\ chan[p] = <<>>
    BY DEF Init
  <1>3. 0 \in SendConfirms /\ 0 \in AssocRetries
    BY BoundsAssumption DEF SendConfirms, AssocRetries, ScMax
  <1>4. \A p \in Peers : NewSm(p) \in Instances
    BY <1>1, <1>3, ZeroSync DEF NewSm, Instances
  <1>5. TypeOK
    <2>1. sm \in [Peers -> Instances] /\ chan \in [Peers -> Seq(Frames)] /\ assocs \in [Peers -> Nat]
      BY <1>4 DEF Init
    <2>2. faults \in 0 .. MaxFaults /\ env \in SUBSET EnvEvents
      BY BoundsAssumption, EnvAssumption DEF Init
    <2>3. \A p \in Peers : /\ sm[p].retry = 1 /\ sm[p].group = EccGroups[p][1]
                           /\ sm[p].out = <<>> /\ sm[p].assoc = FALSE
      <3>1. ASSUME NEW p \in Peers
            PROVE  /\ NewSm(p).retry = 1 /\ NewSm(p).group = EccGroups[p][1]
                   /\ NewSm(p).out = <<>> /\ NewSm(p).assoc = FALSE
        BY DEF NewSm
      <3> QED
        BY <3>1, <1>2
    <2> QED
      BY <2>1, <2>2, <2>3, <1>1 DEF TypeOK
  <1>6. \A p \in Peers : /\ sm[p].key = None /\ sm[p].pmk = None /\ sm[p].state = "nothing"
                         /\ sm[p].sc = 0 /\ sm[p].retry = 1
    <2>1. ASSUME NEW p \in Peers
          PROVE  /\ NewSm(p).key = None /\ NewSm(p).pmk = None /\ NewSm(p).state = "nothing"
                 /\ NewSm(p).sc = 0 /\ NewSm(p).retry = 1
      BY DEF NewSm
    <2> QED
      BY <2>1, <1>2
  <1>7. \A p \in Peers : KeysOnce(sm[p]) /\ Progress(p, sm[p])
    BY <1>1, <1>6 DEF KeysOnce, Progress
  <1>8. ConfirmsSent
    BY <1>2, SetOfEmpty DEF ConfirmsSent
  <1>9. KeysAgree /\ PmkMeansPeerConfirmed
    BY <1>6 DEF KeysAgree, PmkMeansPeerConfirmed, Accepted, Peers
  <1> QED
    BY <1>5, <1>7, <1>8, <1>9 DEF IInv, Inv

\* Every step keeps the invariant.
LEMMA NextIInv == IInv /\ [Next]_vars => IInv'
  <1> SUFFICES ASSUME IInv, [Next]_vars PROVE IInv'
    OBVIOUS
  <1>1. ASSUME NEW p \in Peers, Start(p) PROVE IInv'
    BY <1>1, StartLemma
  <1>2. ASSUME NEW p \in Peers, Rx(p) PROVE IInv'
    <2> DEFINE m == Head(chan[p])
    <2>1. \/ RxNothing(p, m) \/ RxConfirmCommitted(p, m) \/ RxTokenRequired(p, m)
          \/ RxUnsupportedGroup(p, m) \/ RxCommit(p, m) \/ RxCommitUnsupported(p, m)
          \/ RxCommitOtherGroup(p, m) \/ RxRefusedCommitted(p, m)
          \/ RxCommitConfirmed(p, m) \/ RxConfirm(p, m) \/ RxAccepted(p, m)
      BY <1>2 DEF Rx
    <2> HIDE DEF m
    <2> QED
      BY <2>1, <1>2, RxNothingLemma, RxConfirmCommittedLemma, RxTokenRequiredLemma,
         RxUnsupportedGroupLemma, RxCommitLemma, RxCommitUnsupportedLemma,
         RxCommitOtherGroupLemma, RxRefusedLemma, RxCommitConfirmedLemma, RxConfirmLemma,
         RxAcceptedLemma
  <1>3. ASSUME NEW p \in Peers, AssocTimeout(p) PROVE IInv'
    BY <1>3, AssocTimeoutLemma
  <1>4. ASSUME NEW p \in Peers, Fault(p) PROVE IInv'
    BY <1>4, FaultLemma
  <1>5. CASE ApRefuses
    BY <1>5, ApRefusesLemma
  <1>6. CASE UNCHANGED vars
    BY <1>6 DEF vars, IInv, Inv, TypeOK, KeysAgree, PmkMeansPeerConfirmed, Accepted,
       ConfirmsSent, KeysOnce, Progress
  <1> QED
    BY <1>1, <1>2, <1>3, <1>4, <1>5, <1>6 DEF Next

\* Two instances that have accepted have the same PMK, and an instance that has
\* one has a peer that derived it too (sae_process_confirm()), however frames are
\* lost, repeated, overtaken or reflected.
THEOREM Invariance == Spec => []IInv
  BY InitIInv, NextIInv, PTL DEF Spec


\* The keys of an instance whose peer has accepted are those of the peer: the
\* two hand the same PMK to the handshake.
COROLLARY Agreement == Spec => [](KeysAgree /\ PmkMeansPeerConfirmed)
  <1>1. IInv => KeysAgree /\ PmkMeansPeerConfirmed
    BY DEF IInv, Inv
  <1> QED
    BY <1>1, Invariance, PTL

\* What Becomes() does to the instances and to the count of associations.
LEMMA BecomesFields ==
    ASSUME IInv, NEW p \in Peers, NEW s, s \in Instances, NEW rx, Becomes(p, s, rx)
    PROVE  /\ \A q \in Peers : assocs'[q] > assocs[q] => q = p /\ s.assoc
           /\ sm'[p].rc = s.rc /\ sm'[p].assoc_retry = s.assoc_retry
  <1>1. sm \in [Peers -> Instances] /\ assocs \in [Peers -> Nat]
    BY DEF IInv, Inv, TypeOK
  <1>2. sm'[p] = Rest(s)
    BY <1>1 DEF Becomes, Rest
  <1>3. ASSUME NEW q \in Peers, q # p \/ ~s.assoc
        PROVE  assocs'[q] = assocs[q]
    BY <1>1, <1>3 DEF Becomes
  <1>4. \A q \in Peers : assocs'[q] > assocs[q] => q = p /\ s.assoc
    BY <1>1, <1>3
  <1> QED
    BY <1>2, <1>4, RestFields

\* A confirm that was seen before does not make an accepted instance associate
\* again: sae_verify_accepted() lets only a newer one pass.
THEOREM NoReplay == Spec => NoReplayedAssociation
  <1>1. ASSUME IInv, [Next]_vars, NEW p \in Peers, assocs'[p] > assocs[p], Accepted(p)
        PROVE  \/ sm'[p].rc > sm[p].rc
               \/ sm'[p].assoc_retry > sm[p].assoc_retry
    <2>1. assocs \in [Peers -> Nat]
      BY <1>1 DEF IInv, Inv, TypeOK
    <2>2. assocs' # assocs
      BY <1>1, <2>1
    <2>3. PICK q \in Peers : Start(q) \/ Rx(q) \/ AssocTimeout(q)
      BY <1>1, <2>2 DEF Next, vars, Fault, ApRefuses
    <2>4. \E s, rx : Becomes(q, s, rx)
      BY <2>3, Zenon DEF Start, Rx, AssocTimeout, RxNothing, RxConfirmCommitted, RxTokenRequired,
         RxUnsupportedGroup, RxCommit, RxCommitUnsupported, RxCommitOtherGroup,
         RxRefusedCommitted, RxCommitConfirmed, RxConfirm, RxAccepted
    <2>5. q = p
      BY <1>1, <2>1, <2>4 DEF Becomes
    <2>6. sm[p] \in Instances /\ sm[p].assoc = FALSE /\ sm[p].state = "accepted"
      BY <1>1, LegalSame DEF Accepted
    <2>7. \/ RxAccepted(p, Head(chan[p])) \/ AssocTimeout(p)
      BY <2>3, <2>5, <2>6 DEF Start, Rx, Receives, RxNothing, RxConfirmCommitted,
         RxTokenRequired, RxUnsupportedGroup, RxCommit, RxCommitUnsupported,
         RxCommitOtherGroup, RxRefusedCommitted, RxCommitConfirmed, RxConfirm
    <2>8. ASSUME NEW rx PROVE ~Becomes(p, Fail(sm[p]), rx)
      <3>1. Fail(sm[p]) \in Instances /\ Fail(sm[p]).assoc = FALSE
        BY <2>6 DEF Fail, Instances
      <3> QED
        BY <1>1, <3>1, BecomesFields
    <2>9. CASE RxAccepted(p, Head(chan[p]))
      <3> DEFINE m == Head(chan[p])
                 r == ProcessConfirm(SendConfirm([sm[p] EXCEPT !.rc = m.sc, !.sync = @ + 1,
                                                               !.sc = ScMax]), m)
      <3>1. /\ Receives(p, "accepted", m) /\ m.trans = "confirm" /\ InSync(sm[p])
            /\ FreshConfirm(sm[p], m) /\ VerifyConfirm(sm[p], m)
            /\ Becomes(p, r, Tail(chan[p]))
        BY <2>8, <2>9 DEF RxAccepted
      <3>2. r.rc = m.sc /\ r \in Instances
        BY <1>1, <3>1, RxAcceptedAgain
      <3> HIDE DEF r
      <3>3. sm'[p].rc = m.sc
        BY <1>1, <3>1, <3>2, BecomesFields
      <3> QED
        BY <3>1, <3>3 DEF FreshConfirm
    <2>10. CASE AssocTimeout(p)
      <3> DEFINE t == [sm[p] EXCEPT !.assoc_retry = @ + 1, !.assoc = TRUE]
      <3>1. sm[p].assoc_retry < SaeMaxAssocRetry /\ Becomes(p, t, chan[p])
        BY <2>8, <2>10 DEF AssocTimeout
      <3>2. /\ t \in Instances /\ sm[p].assoc_retry \in Nat
            /\ t.assoc_retry = sm[p].assoc_retry + 1
        BY <1>1, <3>1, AssocTimeoutFields
      <3> HIDE DEF t
      <3>3. sm'[p].assoc_retry = sm[p].assoc_retry + 1
        BY <1>1, <3>1, <3>2, BecomesFields
      <3> QED
        BY <3>2, <3>3
    <2> QED
      BY <2>7, <2>9, <2>10
  <1>2. IInv /\ [Next]_vars =>
           [\A p \in Peers :
               assocs'[p] > assocs[p] /\ Accepted(p)
                  => \/ sm'[p].rc > sm[p].rc
                     \/ sm'[p].assoc_retry > sm[p].assoc_retry]_vars
    BY <1>1
  <1> QED
    BY <1>2, Invariance, PTL DEF Spec, NoReplayedAssociation


=============================================================================
