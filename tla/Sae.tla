--------------------------------- MODULE Sae --------------------------------
(***************************************************************************)
(* SAE authentication (src/src/sae.c): two protocol instances, as in        *)
(* unit/test-sae.c, over a channel that may lose, duplicate and reorder     *)
(* Authentication frames.  An instance is used by netdev_authenticate_event *)
(* (src/src/netdev.c): a result other than 0 or -EAGAIN ends the connection *)
(* attempt and frees the instance.                                          *)
(*                                                                         *)
(* Cryptography is symbolic: a commit is the pair scalar and element made   *)
(* from fresh secrets, the keys derived from two commits are that pair of   *)
(* commits, and a confirm can only be computed from them.                   *)
(***************************************************************************)
EXTENDS Integers, Sequences, SequencesExt, FiniteSets

CONSTANTS
    Sta, Ap,        \* the two instances
    EccGroups,      \* the groups each supports, in order of preference
    SaeSyncMax,     \* SAE_SYNC_MAX
    SaeMaxAssocRetry, \* SAE_MAX_ASSOC_RETRY
    MaxFaults,      \* bound: frames lost, duplicated or overtaken
    MaxTimeouts,    \* bound: association timeouts per instance
    Envs            \* the environments explored, sets of EnvEvents

Peers == {Sta, Ap}
Other(p) == IF p = Sta THEN Ap ELSE Sta

\* faults: the channel is not reliable; cold: frames arrive before sae_start();
\* token, unsupp: the AP demands an anti-clogging token, refuses a group;
\* refuse: it refuses with another status; ap_greater: the order of the two MAC
\* addresses; passwords: the two passphrases differ; reflect: an instance hears
\* its own frames.
EnvEvents == {"faults", "cold", "token", "unsupp", "refuse", "ap_greater",
              "passwords", "reflect"}

ASSUME PeersAssumption == Sta # Ap
ASSUME GroupsAssumption ==
    /\ DOMAIN EccGroups = Peers
    /\ \A p \in Peers : EccGroups[p] \in Seq(Nat) /\ EccGroups[p] # <<>>
ASSUME EnvAssumption == Envs \subseteq SUBSET EnvEvents
ASSUME BoundsAssumption ==
    {SaeSyncMax, SaeMaxAssocRetry, MaxFaults, MaxTimeouts} \subseteq Nat

VARIABLES
    sm,         \* the instances, one record for struct sae_sm
    chan,       \* frames on their way to each instance
    assocs,     \* history: tx_assoc() calls of each instance
    faults,     \* number of channel faults so far
    env         \* what the environment may do, chosen at the start

vars == <<sm, chan, assocs, faults, env>>

None == <<>>
ScMax == 65535      \* 2^16 - 1

Commit(c) == [trans |-> "commit", status |-> "ok", group |-> c.group, c |-> c]
Refusal(status, g) == [trans |-> "commit", status |-> status, group |-> g]

\* sae_cn(): keyed with KCK, over send-confirm and the commits, the sender's
\* one first.
Confirm(k, sc, c) ==
    [trans |-> "confirm", status |-> "ok", key |-> k, sc |-> sc, c |-> c]

\* sae_sm_new()
NewSm(p) ==
    [state |-> "nothing", retry |-> 1, group |-> EccGroups[p][1], gen |-> 0,
     commit |-> None, p_commit |-> None, key |-> None, pmk |-> None,
     token |-> FALSE, sync |-> 0, sc |-> 0, rc |-> 0, assoc_retry |-> 0,
     out |-> <<>>, alive |-> TRUE, assoc |-> FALSE]

Init ==
    /\ sm = [p \in Peers |-> NewSm(p)]
    /\ chan = [p \in Peers |-> <<>>]
    /\ assocs = [p \in Peers |-> 0]
    /\ faults = 0
    /\ env \in Envs

-----------------------------------------------------------------------------
(* What the functions of sae.c do to an instance s; out collects the frames *)
(* it transmits, in order, and assoc notes a call of tx_assoc().            *)

Transmit(s, m) == [s EXCEPT !.out = Append(@, m)]

\* sae_send_commit() with retry set: the last commit is sent again.
SendOldCommit(s) ==
    Transmit([s EXCEPT !.state = "committed"], Commit(s.commit))

\* sae_send_commit() with new secrets in the current group.
SendNewCommit(p, s) ==
    SendOldCommit([s EXCEPT !.gen = @ + 1,
        !.commit = [from |-> p, group |-> s.group, gen |-> s.gen + 1]])

\* sae_send_confirm()
SendConfirm(s) ==
    Transmit([s EXCEPT !.state = "confirmed"], Confirm(s.key, s.sc, s.commit))

\* sae_reject_authentication()
Reject(s, status) ==
    Transmit(s, Refusal(status, IF status = "unsupp" THEN s.group ELSE 0))

\* An error is returned: netdev_connect_failed() frees the instance.
Fail(s) == [s EXCEPT !.alive = FALSE]

\* sae_process_commit() where it cannot process the frame.
BadCommit(s) == Fail(Reject(s, "unspecified"))

\* sae_compute_pwe(): the password element of the passphrase.
Pwe(p) == IF "passwords" \in env THEN p ELSE "shared"

\* Mutated form: the keys do not depend on the peer's commit.
OwnKey(p, c1, c2) == [commits |-> {c1}, pwe |-> Pwe(p)]

\* KCK and PMK: equal for both instances if they use the same two commits and
\* the same passphrase.
DerivedKey(p, c1, c2) == [commits |-> {c1, c2}, pwe |-> Pwe(p)]

\* sae_process_commit() of a commit in the same group.
ProcessCommit(p, s, c) ==
    SendConfirm([s EXCEPT !.p_commit = c, !.sc = @ + 1,
                          !.key = DerivedKey(p, s.commit, c)])

\* Mutated form: the value of the received confirm is not compared.
AnyConfirm(s, m) == TRUE

\* sae_verify_confirm(): computed from the same keys.
VerifyConfirm(s, m) == m.key = s.key /\ m.c = s.p_commit

\* sae_process_confirm() of a confirm that verifies.
ProcessConfirm(s, m) ==
    [s EXCEPT !.rc = m.sc, !.sc = ScMax, !.pmk = s.key, !.state = "accepted",
              !.assoc = TRUE]

-----------------------------------------------------------------------------
(* Actions of an instance.                                                  *)

\* The instance becomes s: its frames are sent and its calls recorded.
Becomes(p, s, rx) ==
    /\ sm' = [sm EXCEPT ![p] = [s EXCEPT !.out = <<>>, !.assoc = FALSE]]
    /\ chan' = [chan EXCEPT ![p] = rx, ![Other(p)] = @ \o s.out]
    /\ assocs' = [assocs EXCEPT ![p] = IF s.assoc THEN @ + 1 ELSE @]
    /\ UNCHANGED <<faults, env>>

\* sae_start()
Start(p) ==
    /\ sm[p].alive
    /\ sm[p].state = "nothing" /\ sm[p].gen = 0
    /\ Becomes(p, SendNewCommit(p, sm[p]), chan[p])

\* sae_rx_authenticate() in a given state.
Receives(p, state, m) ==
    /\ sm[p].alive
    /\ sm[p].state = state
    /\ chan[p] # <<>>
    /\ m = Head(chan[p])

\* sae_verify_nothing(): nothing gets past it, sae_process_commit() only works
\* in committed state.
RxNothing(p, m) ==
    LET s == sm[p]
    IN  /\ "cold" \in env
        /\ Receives(p, "nothing", m)
        /\ \/ /\ m.trans = "confirm" \/ m.status # "ok"
              /\ Becomes(p, Fail(s), Tail(chan[p]))
           \/ /\ m.trans = "commit" /\ m.status = "ok"
              /\ m.group # s.group
              /\ Becomes(p, Fail(Reject(s, "unsupp")), Tail(chan[p]))
           \/ /\ m.trans = "commit" /\ m.status = "ok"
              /\ m.group = s.group
              /\ Becomes(p, BadCommit(s), Tail(chan[p]))

InSync(s) == s.sync <= SaeSyncMax

\* sae_verify_committed(): an early confirm.
RxConfirmCommitted(p, m) ==
    LET s == sm[p]
    IN  /\ Receives(p, "committed", m)
        /\ m.trans = "confirm"
        /\ \/ /\ ~InSync(s)
              /\ Becomes(p, Fail(s), Tail(chan[p]))
           \/ /\ InSync(s)
              /\ Becomes(p, SendOldCommit([s EXCEPT !.sync = @ + 1]), Tail(chan[p]))

\* sae_process_anti_clogging()
RxTokenRequired(p, m) ==
    /\ Receives(p, "committed", m)
    /\ m.status = "token"
    /\ Becomes(p, SendOldCommit([sm[p] EXCEPT !.token = TRUE, !.sync = 0]),
               Tail(chan[p]))

\* sae_verify_committed(): the group is refused and the next one tried.
RxUnsupportedGroup(p, m) ==
    LET s == sm[p]
        next == s.retry + 1
    IN  /\ Receives(p, "committed", m)
        /\ m.status = "unsupp"
        /\ \/ /\ m.group \notin {0, s.group}
              /\ Becomes(p, Fail(s), Tail(chan[p]))
           \/ /\ m.group \in {0, s.group}
              /\ next > Len(EccGroups[p])
              /\ Becomes(p, Fail(Reject([s EXCEPT !.state = "nothing",
                                                  !.retry = next], "unsupp")),
                         Tail(chan[p]))
           \/ /\ m.group \in {0, s.group}
              /\ next <= Len(EccGroups[p])
              /\ Becomes(p, SendNewCommit(p,
                            [s EXCEPT !.retry = next, !.sync = 0,
                                      !.group = EccGroups[p][next],
                                      !.token = FALSE, !.p_commit = None]),
                         Tail(chan[p]))

Reflected(s, c) == c = s.commit

\* sae_verify_committed() and sae_process_commit() of the peer's commit; one's
\* own commit is discarded.
RxCommit(p, m) ==
    /\ Receives(p, "committed", m)
    /\ m.trans = "commit" /\ m.status = "ok"
    /\ m.group = sm[p].group
    /\ \/ /\ ~Reflected(sm[p], m.c)
          /\ Becomes(p, ProcessCommit(p, sm[p], m.c), Tail(chan[p]))
       \/ /\ Reflected(sm[p], m.c)
          /\ Becomes(p, [sm[p] EXCEPT !.p_commit = m.c], Tail(chan[p]))

\* A commit in a group that is not supported at all.
RxCommitUnsupported(p, m) ==
    LET s == sm[p]
    IN  /\ Receives(p, "committed", m)
        /\ m.trans = "commit" /\ m.status = "ok"
        /\ ~Contains(EccGroups[p], m.group)
        /\ Becomes(p, Fail(IF InSync(s)
                             THEN Reject([s EXCEPT !.sync = @ + 1], "unsupp")
                             ELSE s), Tail(chan[p]))

Greater(p) == (p = Ap) = ("ap_greater" \in env)

\* A commit in another supported group: the instance with the greater address
\* sends its commit again and sae_process_commit() refuses the group, or the length of
\* the frame: a group with a smaller number has shorter scalars (19: 32 bytes, 20: 48).
\* The other one changes its group and sets the state to confirmed, in which
\* sae_process_commit() does not process the commit.
RxCommitOtherGroup(p, m) ==
    LET s == sm[p]
    IN  /\ Receives(p, "committed", m)
        /\ m.trans = "commit" /\ m.status = "ok"
        /\ m.group # s.group /\ Contains(EccGroups[p], m.group)
        /\ \/ /\ Greater(p)
              /\ Becomes(p, IF m.group < s.group THEN BadCommit(SendOldCommit(s))
                            ELSE Reject(SendOldCommit(s), "unsupp"), Tail(chan[p]))
           \/ /\ ~Greater(p)
              /\ LET changed == SendNewCommit(p, [s EXCEPT !.sync = 0, !.sc = @ + 1,
                                                           !.group = m.group])
                 IN  Becomes(p, BadCommit([changed EXCEPT !.state = "confirmed"]),
                             Tail(chan[p]))

\* sae_verify_committed() lets any other status pass; the frame is then too
\* short for sae_process_commit().
RxRefusedCommitted(p, m) ==
    /\ Receives(p, "committed", m)
    /\ m.status = "unspecified"
    /\ Becomes(p, BadCommit(sm[p]), Tail(chan[p]))

\* sae_verify_confirmed(): a commit in confirmed state.  sae_process_commit()
\* then refuses it whatever sae_verify_confirmed() did.
RxCommitConfirmed(p, m) ==
    LET s == sm[p]
    IN  /\ Receives(p, "confirmed", m)
        /\ m.trans = "commit"
        /\ \/ /\ m.status # "ok"
              /\ Becomes(p, BadCommit(s), Tail(chan[p]))
           \/ /\ m.status = "ok" /\ ~InSync(s)
              /\ Becomes(p, Fail(s), Tail(chan[p]))
           \/ /\ m.status = "ok" /\ InSync(s) /\ m.group # s.group
              /\ Becomes(p, BadCommit(s), Tail(chan[p]))
           \/ /\ m.status = "ok" /\ InSync(s) /\ m.group = s.group
              /\ LET resync == [s EXCEPT !.sync = @ + 1, !.sc = @ + 1]
                 IN  Becomes(p, BadCommit(SendConfirm(SendOldCommit(resync))),
                             Tail(chan[p]))

\* sae_process_confirm()
RxConfirm(p, m) ==
    LET s == sm[p]
    IN  /\ Receives(p, "confirmed", m)
        /\ m.trans = "confirm"
        /\ \/ /\ VerifyConfirm(s, m)
              /\ Becomes(p, ProcessConfirm(s, m), Tail(chan[p]))
           \/ /\ ~VerifyConfirm(s, m)
              /\ Becomes(p, Fail(Reject(s, "unspecified")), Tail(chan[p]))

\* Mutated form: a confirm that was seen before is taken for a new one.
SeenIsFresh(s, m) == m.sc >= s.rc /\ m.sc # ScMax

\* sae_verify_accepted(): only a newer confirm is processed.
FreshConfirm(s, m) == m.sc > s.rc /\ m.sc # ScMax

RxAccepted(p, m) ==
    LET s == sm[p]
    IN  /\ Receives(p, "accepted", m)
        /\ \/ /\ m.trans = "commit"
              /\ Becomes(p, Fail(s), Tail(chan[p]))
           \/ /\ m.trans = "confirm"
              /\ ~(InSync(s) /\ FreshConfirm(s, m) /\ VerifyConfirm(s, m))
              /\ Becomes(p, Fail(s), Tail(chan[p]))
           \/ /\ m.trans = "confirm"
              /\ InSync(s) /\ FreshConfirm(s, m) /\ VerifyConfirm(s, m)
              /\ LET again == SendConfirm([s EXCEPT !.rc = m.sc, !.sync = @ + 1,
                                                    !.sc = ScMax])
                 IN  Becomes(p, ProcessConfirm(again, m), Tail(chan[p]))

\* sae_assoc_timeout(), from netdev_associate_event()
AssocTimeout(p) ==
    LET s == sm[p]
    IN  /\ s.alive /\ s.state = "accepted"
        /\ assocs[p] <= MaxTimeouts
        /\ \/ /\ s.assoc_retry >= SaeMaxAssocRetry
              /\ Becomes(p, Fail(s), chan[p])
           \/ /\ s.assoc_retry < SaeMaxAssocRetry
              /\ Becomes(p, [s EXCEPT !.assoc_retry = @ + 1, !.assoc = TRUE], chan[p])

-----------------------------------------------------------------------------
(* The environment (external).                                              *)

\* The access point answers the first commit that waits for it otherwise than
\* with a commit of its own.
ApRefuses ==
    /\ chan[Ap] # <<>> /\ Head(chan[Ap]).trans = "commit"
    /\ Head(chan[Ap]).status = "ok"
    /\ \E answer \in {Refusal("token", 0), Refusal("unspecified", 0),
                      Refusal("unsupp", 0), Refusal("unsupp", Head(chan[Ap]).group)} :
          /\ answer.status = "token" => "token" \in env /\ ~sm[Sta].token
          /\ answer.status = "unsupp" => "unsupp" \in env
          /\ answer.status = "unspecified" => "refuse" \in env
          /\ chan' = [chan EXCEPT ![Ap] = Tail(@), ![Sta] = Append(@, answer)]
    /\ UNCHANGED <<sm, assocs, faults, env>>

Fault(p) ==
    /\ faults < MaxFaults
    /\ faults' = faults + 1
    /\ chan[p] # <<>>
    /\ \/ /\ "faults" \in env
          /\ \/ chan' = [chan EXCEPT ![p] = Tail(@)]
             \/ chan' = [chan EXCEPT ![p] = Append(@, Head(@))]
             \/ chan' = [chan EXCEPT ![p] = Append(Tail(@), Head(@))]
       \/ /\ "reflect" \in env
          /\ \E k \in DOMAIN chan[p] :
                chan' = [chan EXCEPT ![Other(p)] = Append(@, chan[p][k])]
    /\ UNCHANGED <<sm, assocs, env>>

Rx(p) ==
    /\ chan[p] # <<>>
    /\ LET m == Head(chan[p])
       IN  \/ RxNothing(p, m)
           \/ RxConfirmCommitted(p, m)
           \/ RxTokenRequired(p, m)
           \/ RxUnsupportedGroup(p, m)
           \/ RxCommit(p, m)
           \/ RxCommitUnsupported(p, m)
           \/ RxCommitOtherGroup(p, m)
           \/ RxRefusedCommitted(p, m)
           \/ RxCommitConfirmed(p, m)
           \/ RxConfirm(p, m)
           \/ RxAccepted(p, m)

Next ==
    \/ \E p \in Peers : Start(p)
    \/ \E p \in Peers : Rx(p)
    \/ \E p \in Peers : AssocTimeout(p)
    \/ \E p \in Peers : Fault(p)
    \/ ApRefuses

Spec == Init /\ [][Next]_vars

\* Both instances are started and frames that arrive are handled.
FairSpec ==
    /\ Spec
    /\ \A p \in Peers : WF_vars(Start(p))
    /\ \A p \in Peers : WF_vars(Rx(p))

-----------------------------------------------------------------------------
Accepted(p) == sm[p].state = "accepted"

Commits == [from : Peers, group : Nat, gen : Nat]
Keys == [commits : SUBSET Commits, pwe : Peers \cup {"shared"}]
Syncs == 0 .. SaeSyncMax + 1
SendConfirms == 0 .. ScMax
AssocRetries == 0 .. SaeMaxAssocRetry
Frames ==
    [trans : {"commit"}, status : {"ok"}, group : Nat, c : Commits]
        \cup [trans : {"commit"}, status : {"token", "unsupp", "unspecified"}, group : Nat]
        \cup [trans : {"confirm"}, status : {"ok"}, key : Keys, sc : SendConfirms, c : Commits]
Instances ==
    [state : {"nothing", "committed", "confirmed", "accepted"},
     retry : Nat, group : Nat, gen : Nat,
     commit : Commits \cup {None}, p_commit : Commits \cup {None},
     key : Keys \cup {None}, pmk : Keys \cup {None},
     token : BOOLEAN, sync : Syncs, sc : SendConfirms, rc : SendConfirms,
     assoc_retry : AssocRetries, out : Seq(Frames), alive : BOOLEAN,
     assoc : BOOLEAN]

TypeOK ==
    /\ sm \in [Peers -> Instances]
    /\ chan \in [Peers -> Seq(Frames)]
    /\ assocs \in [Peers -> Nat]
    /\ faults \in 0 .. MaxFaults
    /\ env \in SUBSET EnvEvents
    /\ \A p \in Peers :
          /\ sm[p].retry \in 1 .. Len(EccGroups[p]) + 1
          /\ Contains(EccGroups[p], sm[p].group)
          /\ sm[p].out = <<>> /\ ~sm[p].assoc

\* Two instances that have both accepted hand the same PMK to the handshake.
KeysAgree == (\A p \in Peers : Accepted(p)) => sm[Sta].pmk = sm[Ap].pmk

\* "don't set the handshakes pmkid until confirm is verified"
\* (src/src/sae.c:592): an instance that has a PMK knows that its peer, too, has
\* processed both commits: the peer holds the same keys, or held them when it
\* failed.
PmkMeansPeerConfirmed ==
    \A p \in Peers : sm[p].pmk # None => sm[Other(p)].key = sm[p].pmk

\* A confirm that is received again does not make an accepted instance
\* associate again: every association after the first is due to a newer confirm
\* or to an association timeout.
NoReplayedAssociation ==
    [][\A p \in Peers :
          assocs'[p] > assocs[p] /\ Accepted(p)
             => \/ sm'[p].rc > sm[p].rc
                \/ sm'[p].assoc_retry > sm[p].assoc_retry]_vars

\* On a reliable channel two instances that are both started first accept each
\* other.
BothAccept ==
    env \subseteq {"ap_greater"} => <>(\A p \in Peers : Accepted(p))

\* Whatever the channel does, a PMK is only kept when the peer has the same keys: the
\* promise of sae_process_confirm() to the handshake that follows.
Inv ==
    /\ TypeOK
    /\ KeysAgree
    /\ PmkMeansPeerConfirmed

-----------------------------------------------------------------------------
(* The inductive invariant.                                                 *)

\* Keys are derived once, when the peer's commit is processed, from two
\* different commits; a PMK is these keys.
KeysOnce(s) ==
    /\ s.key # None => /\ s.state \in {"confirmed", "accepted"}
                       /\ s.commit # None /\ s.p_commit # s.commit
    /\ s.pmk \in {None, s.key}
    /\ s.state = "accepted" => s.pmk = s.key /\ s.key # None

\* How far instance p, with state s, has come unless it has failed: it has a
\* commit once it is started, keys once it is confirmed, and has sent no confirm
\* before and one then.
Progress(p, s) ==
    s.alive =>
        /\ s.retry <= Len(EccGroups[p])
        /\ s.state # "nothing" => s.commit # None
        /\ s.state \in {"nothing", "committed"} => s.sc = 0
        /\ s.state = "confirmed" => s.sc = 1 /\ s.key # None

\* A confirm on its way was computed by an instance from the keys it still has.
ConfirmsSent ==
    \A p \in Peers : \A m \in ToSet(chan[p]) :
        m.trans = "confirm" =>
            \E q \in Peers : m.key = sm[q].key /\ m.c = sm[q].commit

IInv ==
    /\ Inv
    /\ ConfirmsSent
    /\ \A p \in Peers : KeysOnce(sm[p]) /\ Progress(p, sm[p])

=============================================================================
