# TLA+ models of iwd

iwd is the Wi-Fi daemon under `src/src/`: it drives the kernel's nl80211
interface, scans, authenticates, runs the key handshakes and keeps a station
connected.  It is one single-threaded process around the main loop of the
vendored library `src/ell/`.  There are no data races; what makes it hard is that

- every request to the kernel is answered later, and events of the kernel, frames
  of the other side, timers and user commands arrive in between in any order;
- callbacks re-enter the code that calls them (a failure callback starts the next
  attempt before the function that failed has returned);
- frames are lost, repeated and overtaken;
- one radio is shared by scans, connections and frame exchanges.

This directory holds models of the parts where these things meet, the
configurations that check them with TLC, and proofs that TLAPS checks.
`PROJECT.json` lists the components, the runs, the source lines behind each
definition, the findings, the hazards and the theorems.

## Inventory

The table names each part, the state it keeps, its operations and how it talks to
the others, with the module that models it.

| part | state | operations | interacts with | module |
|---|---|---|---|---|
| radio work queue (`wiphy.c`) | priority queue of work items, their ids | insert, done, next | calls `do_work` and `destroy` of scan, netdev, frame-xchg | `RadioWork` |
| scans (`scan.c`) | request queue per wdev, flags of the running command, periodic timer | scan, cancel, periodic start and stop, kernel answers and events | radio work, kernel, station, RRM, P2P | `Scan` |
| SAE (`sae.c`) | one instance per authentication: state, group, scalars, Sync, Sc | start, frame received, association timeout | netdev sends its frames | `Sae` |
| frame exchanges (`frame-xchg.c`) | list of exchanges, retries, cookies, timers | start, cancel, TX status, response, timers | radio work, kernel, ANQP, P2P, AP | `FrameXchg` |
| key handshakes (`eapol.c`, `handshake.c`) | supplicant and authenticator state machine, nonces, keys, replay counters | start, frames 1 to 4, group frames, timers | netdev installs the keys | `Eapol` |
| key installation (`netdev.c`) | pending key commands, what is installed | set TK, GTK, IGTK, answers of the kernel | eapol, kernel | `Eapol`, as one request in `Netdev` |
| connections (`netdev.c`) | one connection: flags, callbacks, commands in flight | connect, reassociate, fast transition, disconnect, answers, events | radio work, eapol, auth protocols, kernel, station | `Netdev` |
| auth protocols (`owe.c`, `ft.c`, `fils.c`, `erp.c`) | a few fields per attempt | start, frames, retry | netdev | how they drive `Netdev`; frames later |
| the contract of a connection (`netdev.h`) | what a client asked for, has, and waits for | ask, succeed, fail, lose, leave | netdev keeps it, station uses it | `Connection` |
| station (`station.c`) | connection state, autoconnect list, roam state, pending scans | D-Bus commands, netdev callbacks and events, timers | netdev, scan, network, netconfig | `Station` |
| networks (`network.c`, `knownnetworks.c`, `blacklist.c`) | secrets, ranks, blacklisted BSSes, stored networks | connect, forget, agent answers | station, agent, storage | `Agent` (Connect, secrets, ANQP), `Station` (choice of access point, blacklists, Forget) |
| agents (`agent.c`) | registered agents, a queue of questions each, a timer | register, unregister, ask, answer, cancel, time out | network, D-Bus | `Agent` |
| AP (`ap.c`) | stations and their handshakes, group key, address pool | start, stop, management frames, kernel events | eapol, frame exchanges, netdev | `Ap` |
| ad-hoc (`adhoc.c`) | two handshakes for each peer | start, stop, peer events | eapol, netdev | planned |
| Wi-Fi Direct, WSC (`p2p.c`, `wsc.c`, `eap-wsc.c`) | discovery and group formation | many | scan, frame exchanges, netdev | planned |
| EAP (`eap.c`, `eap-tls-common.c`, methods) | peer state machine, TLS fragments in both directions, timer | packets, timers | eapol, TLS | `EapTls` (EAP-TLS and PEAPv0) |
| RRM, Hotspot, netconfig, manager, device | small request state | | | planned or left out, see `PROJECT.json` |
| crypto, elements, frames, storage, util | none, conversions | | all | not modelled |

What makes each of the modelled parts correct:

- **radio work**: one item at a time has the radio, items are served by priority
  and age, and no sequence of re-entrant calls leaves work waiting for an idle
  radio.
- **scans**: the request queue, the flags and the radio agree; a request is told
  its result once, and success only for a scan that ran to its end; the events of
  somebody else's scan are not taken for our own.
- **SAE**: both sides that accept have the same PMK, and only with the password;
  a repeated frame changes nothing.
- **frame exchanges**: a transmission is acknowledged by its own status only, and
  each exchange has exactly one outcome.
- **key handshakes**: both sides use the same keys, no key is installed twice, old
  group keys do not come back, and completion means that the kernel has the keys.
- **connections**: success is reported only for what the kernel has, nothing stays
  behind in the kernel, and the client's callbacks and the radio are never lost.
- **station**: the state it shows is the state of its interface; it follows no
  pointer to a network or BSS that is gone; it never stops looking for a network
  when it should, and never connects when the user said not to; every call is
  replied to.
- **agents and networks**: a question belongs to a network and a call that wait for
  it, until it is answered, timed out, cancelled or its agent leaves; a call is
  replied to once.
- **EAP**: TLS gets what TLS wrote, whatever is lost, repeated and cut; success
  means keys; an authentication ends, and does not fail by itself.
- **AP**: the kernel and `ap.c` agree on who is associated and authorized; what is
  freed is not used again; addresses are given back.

## Plan

1. Done: `RadioWork` and the abstract `Radio`, `Scan`, `Sae`, `FrameXchg`, `Eapol`,
   `Netdev`, the contract `Connection`, `Station`, `Agent`, `EapTls`, `Ap`.
2. Done: the proofs of `RadioWork`, `Scan`, `Sae`, `Eapol`, `FrameXchg` and `Station`
   (section *Proofs*).  Next, in this order: `Inv` and `Intact` of `EapTls`; `Inv` of `Agent`;
   `OkMeansConnected` of `Netdev` and the step simulation of `Connection` by `Netdev`.
3. Later: the frames of `Ft` and `Owe`; `Adhoc`; `Wsc` and
   `P2p` on top of `FrameXchg` and `Ap`; ranking of networks as functions checked
   against a reference definition.

## How the models are written

Each module has the state of its component as variables, one action for each
entry point of the code (a command of a client, an answer or an event of the
kernel, a frame, a timer) and operators with the names of the functions an entry
point calls.  An entry point runs to completion, as in the code, except where it
calls client code that may call back: then a variable holds the stack of active
calls (`stack` in `RadioWork`, `calls` in `Scan`, the one active `call` in `FrameXchg`)
and the client's calls are actions while it is not empty.

The kernel, the radio medium and the clients are external: they do what the code
has to expect of them.  Sockets are queues in both directions.  What they may do in
one behaviour is chosen in `Init` from the constant `Envs`, a set of sets of
features (`env`).  One run thus explores many small worlds, each with the faults
that matter together, rather than one world with all of them.

Bounds have names: `MaxIds`, `MaxCmds`, `MaxEvents`, `MaxFaults`, `MaxTimeouts`,
`MaxRekeys`, `MaxBusy`, `MaxConnects`, `MaxRounds`, `Cookies`, `MaxCalls`, `MaxLost`,
`MaxExtra`, `MaxFrames`, `MaxUp`, `MaxStarts`.  They bound what the outside does, never
what the code does.  Objects that the code frees and allocates
again are reused, so that stale references are found.

Definitions called *Mutated form* are not part of a specification.  Each is a
plausible mistake in the definition that follows it, for which one of the
properties fails; they show that the properties depend on the code.

Each module states its invariants as named parts.  `Inv` is the conjunction of `TypeOK`
with the parts that belong together as the consistency of the component between two
events.  Where it is proved, `IInv` adds what makes it inductive, and is what the run
checks; the runs of `Scan` and `Station`, which also have environments that their `IInv` says
less about, check `Inv`.  Properties that say something of their own stay apart.

`Queues` has the operations of `ell/queue.c` on queues that several modules use, and
`QueueTheorems` what is known of them.

Some combinations of features meet a hazard of the code, and a property fails.  The
passing runs leave those combinations out, by their `Envs` or by a feature that no
passing run has (`hasty`, `abrupt`, `early`, `workaround`, `ackloss`, ...); the
section *Observations* and the notes of the hazards in `PROJECT.json` name each of
them.  The behaviour itself is in the models.

## Modules and runs

### RadioWork

`wiphy_radio_work_insert()`, `wiphy_radio_work_done()` and
`wiphy_radio_work_next()`.  `Insert`, `WorkDone`, `WorkNext`, `ReturnFalse`,
`ReturnTrue` and `GiveUp` (an item that reports itself done inside its own
`do_work()`) are the actions.

Run `radio_work`: one frame exchange, one connection attempt that may fail at once
and two scans, five insertions.  `ServiceOrder`, the
action property `KeepsRadio` (nobody takes the radio from a started item), the
liveness property `Drains`, the inductive invariant `IInv` with `RadioExclusive`, and
`KeepsContract`: the queue implements `Radio`.  Four items with
all three priorities, two of them equal, are enough for every insertion position.

### Radio

What the users of the queue may rely on, in two variables: who has the radio, and who
waits since when.  `Ask`, `Grant`, `Finish`, `Withdraw`; an idle radio goes to the most urgent
and oldest.  There is no queue and no call stack.  `RadioWork` implements it, with the started
item as the holder and the ids as turns; a second call of `do_work()` for an item that has
been started (`wiphy.c:1540`) is not seen at this level.

### Scan

`scan_common()`, `scan_cancel()`, `scan_periodic_start()` and `_stop()`, the
answers to `TRIGGER_SCAN` and `GET_SCAN`, the events, the periodic timer, with the
radio work queue as a queue whose head has the radio.

Run `scan`: two requests of up to two commands, reused, in four environments.
In `Inv`, `QueuesAgree`, `WorkStartedOwnsRadio`, `TriggerOwnsRadio` and
`TriggerTracked` relate the queues and flags, `WaitingHaveCommands` says that a request
that gets the radio has a command to send (`RadioNext` relies on it: such a request does not
fail inside its own `do_work()`, and `l_genl_family_send()` fails only without the nl80211
family) and `ToldOnce` is about the callback;
`SuccessIsComplete` says that success is told only for a scan that ran to its end, `ContinuesOwnRequest` says that a scan result goes to the request it
belongs to, `RequestsEnd` that every request ends.  Two requests suffice for one
to be current and one waiting, or one freed and allocated again.

Cancelling a command (`TriggerUnsent`, `TriggerUnheard`, `DumpUnsent`, `DumpUnheard`) takes
the newest command of its kind out of the socket, or the answer to it, as
`l_genl_family_cancel()` does by its id.

The parts hold in different environments, and each definition names the ones it leaves out:
`NoRefusal` (a refused trigger leaves `work_started` set), `Undisturbed` (no scan starts or
ends, and nobody cancels, while results are read) and, in `SuccessIsComplete`, `slow_dump` and
`lagging`.  `QueuesAgree` and `ToldOnce` hold in every environment.  In the excluded ones a
part fails: a socket in which messages lag behind commands, where a second `TRIGGER_SCAN` is
sent, and a request cancelled during `GET_SCAN`, which may keep the next one from its second
command, are the main ones; `RequestsEnd` leaves out the latter.

### Sae

Two instances of `sae.c`, as in `unit/test-sae.c`.  Commits, confirms, refusals and
tokens are symbolic: a confirm can only be made with the keys of its two commits.
Frames may be lost, duplicated, reordered or reflected.

Run `sae`: seven environments, three faults, `SaeSyncMax` lowered to 1 so that the
limit is reached.  `IInv` has `KeysAgree` (two instances that accepted have the same PMK)
and `PmkMeansPeerConfirmed`; apart are `NoReplayedAssociation` and the liveness `BothAccept` on a
channel without faults.

### FrameXchg

`frame_xchg_start()`, `frame_xchg_cancel()`, `frame_xchg_stop_wdev()`, TX answers
and statuses, retries, timers and responses.

Run `frame_xchg`: two exchange objects, reused, two kinds of exchanges, two
retries in place of fifteen.  `IInv` (`OneAtATime`, `OwnAck`), `OneOutcome` and the
liveness `ExchangesEnd`.  The limit on retries only has to be reached; its value plays no
role.

### Eapol

The 4-way and group handshakes between a station and an access point that both run
iwd (or another access point, for rekeys and repeated nonces), and the key
commands of `netdev.c` up to `try_handshake_complete()`.

Run `eapol`: ten environments, two faults, two rekeys, three transmissions as in
the code.  `IInv` (`KeysAgree`, `CompleteMeansKeys`, `KernelUpToDate`: the kernel ends
with the latest key), `NoReinstallation`, the action property `GroupKeysAdvance` and
the liveness `Completes`.  Two faults lose any two frames or repeat one and lose
another; a third only shortens what the retries allow.

### Netdev

The life of a connection: `netdev_connect()`, `netdev_reassociate()`, the two fast
transitions, `netdev_disconnect()`, every answer and event they lead to, the
per-network address change, the SA query timer.  The state is `nd` (`struct
netdev`), `out` and `in` (the request queue of `ell/genl.c` and what the kernel has
sent), `kern` and `client` (external).  Handlers are operators on a record of the
parts they change (`World`), in the order of the code: `ConnectFailed` frees before
it calls back, `ConnectOk` calls back before it gives up the radio.  A cancelled
request disappears from both queues, as in `l_genl_family_cancel()`; the kernel may
have acted on it.

Run `netdev`: three connections in fourteen environments.

- `OkMeansConnected`: a client told `NETDEV_RESULT_OK` has that connection in the
  kernel, or the end of it is on its way.
- `NothingLeftBehind`: when everything is answered and the client has no connection
  the kernel has none.  Two exceptions are part of the definition (`Abandons`):
  `netdev_connect_failed()` does not disconnect, so that a roam which the kernel
  refuses at once, or a handshake that cannot start, leaves an association.
- `Inv`: `CallbackKept`, `RadioReleased`, `MacChangeOwned`.
- `Answered`: every request of the client is answered.
- `KeepsContract`: seen from its client, the interface implements `Connection`.

Three connections let the answers of a first one meet a second, and the failure of
a roam a third.  `MaxRounds` is one: a second round of SAE or OWE is like the first
but for the group.

Combinations for which a property fails are kept out of the run: a disconnect while
a reassociation waits for the radio, a fast transition during a rekey, a disconnect
while `CMD_AUTHENTICATE` is being refused, an OWE access point that refuses every
group (`picky`), an SA query during a roam, a disconnect during an address change,
and rekeys that fail while keys are being set.

### Connection

What `netdev.h` promises a client, in four variables: the connection that was asked
for, the one that is up, whether the client waits for its disconnect, and whether
the interface is ending a connection by itself.  A request has one answer; nothing
is up that was not asked for; a connection that ends is reported unless the client
ends it; a client asks for nothing while its disconnect is unanswered.

Both sides are shown to keep it, each with `INSTANCE Connection WITH` and the
specification as a property of its run.  `Netdev` maps the state of its external
client, so that the guards of `Connection` are what its client does and the effects
what netdev does; `Station` maps the state of its external interface, so that it is
the other way round.  The module is thus the assumption that each of the two makes
about the other and the promise that the other keeps.  The two are not composed
mechanically: that the runs use the same contract is what ties them.

### Station

`station.c` with what it does to `network.c` and `blacklist.c` while it connects:
the states of `enum station_state` (`quick` and `full` for the two autoconnect
states, `gone` once freed), the five kinds of scans with their ids and destroy
callbacks, the connection with its retries on other access points, blacklists,
disconnects by the user, for another network and for `station_reconnect()`, roaming
by signal or by request of the access point (neighbour report, scan, fast
transition, preauthentication), hidden networks, IP configuration, Forget, and the
end of the interface.  `st` is `struct station`, `sc` the scans under way (external,
module `Scan`), `net` the interface (external, module `Connection`), `nets` what is
in range, known and blacklisted.  A pointer that is followed after it was cleared or
freed sets `st.fault`.

Run `station`: two access points of a known network and one of another, seventeen
environments.  Three access points are the fewest with a retry inside a network, a
roam target, and another network to change to.

- `Inv`: `StatesAgree`, `NoFault`, `RepliesKept` (a call that waits has a callback
  coming that replies), `RoamOwned` (a roam is prepared by one thing at a time),
  `NothingOutlives` (nothing calls back a freed station).
- `AutoconnectAlive`: a station that may connect by itself has a scan under way.
- `NoUnaskedConnect`: and one that may not does not connect.
- `Settles`: calls are replied to, passing states are left, a roam ends.
- `KeepsContract`: `Connection`, from the client's side.

Run `station_disconnect` finds `NoUnaskedConnect` violated: Disconnect leaves a
quick scan that waits for the radio; when the kernel then refuses it,
`station_quick_scan_triggered()` turns the autoconnect scan on, although
`station_dbus_disconnect()` says that the station waits for the user.

### Agent

`agent.c` with its only user, Connect of `network.c`.  `ag` has the queue of
questions of each client's agent, `bus` the replies that `l_dbus` waits for
(external), `nets` the networks, `anqp` the ANQP requests of `station.c` and `calls`
the Connect calls, with a count of their replies.  Callbacks nest, as in the code:
the answer to one question asks the next from inside.

Run `agent`: two clients, each of which may register, leave, be slow or fail, a
network with a passphrase and one that needs a user name, a private key passphrase
and a password; two Connect calls; five environments.  Two calls on two networks are
enough for a queue of two questions at one agent; the second network has a question
of each kind of callback.  A client whose last question timed out does not leave the
bus afterwards (feature `stale`, section *Observations*), and a network has an access
point it can use when its ANQP request ends, unless it may go out of range.

- `Inv`: `QuestionsOwned` (an open question belongs to a network that exists, is
  open and waits for it, and to a call that is not replied to), `OneQuestion` (one at
  a time, with the timer and the pending reply), `RepliedOnce`, `NoFault`.
- `WaitsForAgent`: a network that says that it waits for an agent does.
- `Answered`: every Connect is replied to or handed to the station, even when the
  user never answers.

### EapTls

The peer side of an authentication through TLS: `eap.c` (identifiers, repeated
requests, Success, Failure and the timer for a lost one), `eap-tls-common.c`
(fragments in both directions, acknowledgements, the answer that is kept to be
repeated), and the two ways in which it ends, EAP-TLS and PEAPv0.  A TLS message is
a name and a size; `SendFragment` and `Assembly` have the arithmetic of the code.
The server and the network are external.

Run `eap_tls`: an MTU of 16 octets with 10 for data, messages of 4 (one packet), 10
(just one) and 17 octets (three fragments), server messages of one and of three
fragments; two packets are lost and one is repeated too early; twelve kinds of
servers: some ask first for a method the peer does not have (it answers with a NAK),
some send notifications in between, some end PEAP with a Result TLV that says failure or
cannot be parsed.  With identifiers modulo 16 the wrap-around is met in the run.

- `Intact`: both sides put together what the other took apart.
- `NoFalseFailure`: losses alone do not fail an authentication (a server with a bad
  Result TLV is not one that lost something).
- `Inv`: success means keys, and a server that completed the same tunnel.
- `Ends`: both sides come to an end, although Success and Failure are sent once.

### Ap

`ap.c` with its D-Bus interface: Start, StartProfile and Stop, the address of the
pool, authentication, association, the group key, the handshake (one step; module
`Eapol` has its frames), a DHCP server that does not start, stations that leave, are removed by the kernel or are
associated by the firmware, and the interface going down.  `ap` and `sta` are
`struct ap_state` and `struct sta_state`; `down` and `up` are the netlink socket, in
order; `air` the responses given to `frame-xchg.c`.  Freeing a station cancels the
commands that the code cancels; a callback that is left with a pointer to it is
marked `freed_assoc` or `freed_resp`: freeing the AP cancels the former with the
netlink family, and not the latter, which is a frame exchange.

Run `ap`: two stations, a pool of one subnet, two starts, five frames of stations,
five environments.  Two stations let one have the group key made for the other, and
two starts show what the first has left.  Five frames are enough for both stations to
associate and for one to leave.

- `Inv`: `NoFault`, `UserAgrees`, `AidsDistinct`, `GroupKeyThere`, `PoolReturned`,
  `BeaconOwned` (a kernel that beacons does it for an AP that exists, except after the
  failure of the DHCP server).
- `StationsAgree`: when nothing is under way the kernel has the stations that
  `ap.c` has, authorized if and only if they have an RSNA.
- `Answered`, `Served`: Start and Stop are answered; a station that is associated is
  authorized or removed.

Run `ap_free` finds `ReleasedOnce` violated: an interface that goes down after Stop
calls `ap_free()`, as the comment of `ap_shutdown()` asks, and `ap_reset()` frees the
stations, the rates and the address again.

## Observations

Behaviours that the models show, outside of the passing runs:

- `wiphy.c:1540`: an item that is inserted again from the failure callback of its own
  `do_work()` is removed and destroyed by `wiphy_radio_work_next()`, although
  `netdev.c:769` says that re-entrant connects are allowed.
- `scan.c:1812`: `SCAN_ABORTED` of somebody else's scan during `GET_SCAN` fails the
  request whose results are being read; the comment at `scan.c:1722` says that it
  stays at the top of the queue.
- `sae.c:981`: the answer to a repeated commit, which the comment quotes from the
  standard, is sent and then followed by a rejection.
- `frame-xchg.c:911`: an exchange without a retry interval (`anqp.c`, `ap.c`) that is
  answered with EBUSY waits for a timer that `l_timeout_create_ms()` does not arm.
- `netdev.c:3371`: a disconnect while a reassociation waits for the radio sends
  nothing, and the kernel stays connected to the old access point; the comment at
  `netdev.c:3361` takes only a first connection into account.
- `netdev.c:3726`: `prepare_ft()` does not cancel the pairwise key and SET_STATION of a
  rekey; the answer reports the transition as done before it has begun.
- `netdev.c:1343`, `netdev.c:4249`, `netdev.c:2989`: a second disconnect, the SA query
  timer and an address change outlive the connection they were for.
- `station.c:1630`: the full roam scan after an empty limited one loses its id to the
  destroy callback of the first, and can then not be cancelled.
- `station.c:2921`, `2872`, `2633`, `2247`, `3540` (feature `hasty`): Disconnect or
  Forget while netdev ends a connection or during `station_reconnect()`, Connect
  during a roam, a late transition request, and an interface that goes down with a
  disconnect pending find pointers cleared or call back a freed station.
- `station.c:1464`, `1501` (feature `hasty`): a neighbour report that was asked for when the
  connection came up is still awaited when netdev ends the connection by itself; a Disconnect
  then clears `connected_bss`, while `netdev_disconnect()` returns `-EINPROGRESS`
  (`netdev.c:3349`) and does not cancel the report, and `parse_neighbor_report()` follows the
  cleared pointer when it comes.  In the other environments the guard `CallbackDue` of
  `Disconnect` and `Forget` has the user wait for the callback.
- `network.c:1518`: forgetting a network that is in range also ends a connection to another
  network that is not known yet.
- `station.c:2643`, `network.c:798`: new scan results free the BSS that Connect, or the
  temporary blacklist, still points to.
- `station.c:2528`: `NETDEV_RESULT_ABORTED` leaves the station connecting (feature
  `abort`); `station.c:1641`: an IP configuration event moves a roaming station to
  connected.
- `station.c:2686`, `2612`: a Connect whose access point cannot be used fails after the quick
  scan was cancelled, or after the old connection was left; the station then has no scan
  under way, although autoconnect is on.
- `agent.c:232` (feature `abrupt`): an agent that leaves with questions of two networks
  has the callback of one called; the other network answers Connect with busy for ever.
- `agent.c:244` (feature `stale`): `request_timeout()` keeps `pending_id`; when the agent has
  no further question and then leaves the bus, `agent_disconnect()` (`agent.c:528`) finishes
  the first request of an empty queue, and `agent_finalize_pending()` follows NULL
  (`agent.c:203`).
- `network.c:1416`: a network that is removed during ANQP leaves its address in the ANQP
  entry, and the call that waits for it is not replied to; when none of its access points
  can be used at the end of ANQP, `network_connect_8021x()` is given the NULL that
  `network_bss_select()` returns (`network.c:1585`).
- `eap-tls-common.c:365` (feature `workaround`): the length field that PEAPv0 adds cuts
  messages of the last four sizes below the MTU; `eap-tls-common.c:809` (`ackloss`): the
  repetition of a request whose empty answer was lost fails the authentication;
  `eap.c:581`: an incremented identifier that wraps around is not taken.
- `ap.c:281` (feature `early`): the report of an association response and the answer to
  NEW_STATION find a freed station; `ap.c:1213` (`refuse_new`): a station that the kernel
  refuses stays associated without a handshake; `ap.c:2595` (`profile`): a subnet leaks;
  `ap.c:2166` (`noserver`): when the DHCP server does not start, the AP is freed without
  `STOP_AP`, the kernel goes on beaconing, and the next `START_AP` is refused.

Met while reading, and not in a model: the doubled `uint16_t` interval of
periodic scans wraps for maxima above nine hours (`scan.c:862`); `sp.retry` is set
without a timer, so that periodic scanning can end (`scan.c:742`); an exchange
allocated at the address of one its callback has just cancelled is taken for it
(`frame-xchg.c:1035`); a response saved early ends the listen period of every retry
(`frame-xchg.c:882`); `eapol_start()` uses a state machine that an invalid early
frame may have freed (`eapol.c:2553`); `retry_auth` stays set after the retry, so
that later scan results fail the connection (`netdev.c:2584`); the mobility domain
element is compared with itself (`ft.c:452`), and `ft_rx_authenticate()` returns 0 when
the elements do not match (`ft.c:613`); `scan_context_free()` destroys requests
before it cancels the `GET_SCAN` whose destroy callback looks at them (`scan.c:205`);
`netdev_connect_free()` frees `ft_ds_info` and keeps the pointer (`netdev.c:757`), and
`netdev_ft_over_ds_auth_failed()` uses it after freeing it (`netdev.c:3756`);
the push-button timer of the AP is not removed by `ap_reset()` (`ap.c:291`), and the
loop of `ap_process_wsc_probe_req()` reads an entry it has freed (`ap.c:501`); AIDs are
counted in 16 bits and never reused (`ap.c:1706`).

## Fairness

Weak fairness on the handlers (the main loop runs whatever is ready), on the
returns of callbacks, on the kernel answering what it was asked, on the ends of
scans, transmissions and associations, which the kernel bounds by timers of its
own, and on timers that are armed.  `FrameXchg` has strong fairness for its
handlers: they are disabled while a callback of a client is active, which happens
again and again.  `Eapol` and `Sae` have weak fairness for the receivers and
timers; frames are lost at most `MaxFaults` times.  Nothing is asked of clients or
of access points; `HandshakeKeys \/ HandshakeFails` in `Netdev` stands for the
handshake, which ends because `eapol.c` has timers.  `RadioWork` assumes that the
owner of the head of the queue finishes, which the other modules check of the
owners.

`Station`: the interface answers, because `Netdev` does; scans end, because `Scan`
says so, and have their turn under strong fairness, since `scan.c` serves requests in
order: scans that are asked for again and again do not keep another from its turn;
neighbour reports, action frames and preauthentications have timers.  Users and
access points need do nothing.  `Agent`: the idle callback and the timers run; clients
need not answer, and `Answered` is stated where the timer of 120 s may fire.  `EapTls`:
packets that are there are handled, and the server repeats its request while it has no
answer, as RFC 3748 asks of it; the number of losses is bounded.  `Ap`: the main loop
reads its socket, the kernel executes commands in order, frame exchanges end
(`ExchangesEnd`), and handshakes end one way or the other, by the timers of `eapol.c`.

## Proofs

Each theorem is about every value of the constants: any number of items, exchanges,
groups, faults, retries and rekeys, every set of environments `Envs`.  An
environment in which a property fails is an exception in its definition (`Wpa1Rekey`).
The assumptions are those next to the constants: limits and numbers are naturals,
distinguished values are not members of the sets they are distinguished from.

| module | theorem | says |
|---|---|---|
| `RadioWorkProofs` | `Invariance`, `TypeCorrect`, `Exclusive`, `NeverStalls`, `ServedInOrder` | `IInv`, `TypeOK`, `RadioExclusive`, `NoStall`, `ServiceOrder` |
| | `RadioIsKept` | the action property `KeepsRadio` |
| | `ImplementsRadio` | `KeepsContract`: `Spec => Contract!Spec`, the abstract `Radio` |
| `ScanProofs` | `ScanInductive`, `ScanConsistent` | `IInv`; `Inv`, with all its parts |
| | `ScanSuccess` | `SuccessIsComplete` |
| | `ScanContinues` | the action property `ContinuesOwnRequest` |
| `StationProofs` | `StationInductive`, `StationConsistent` | `IInv`; in calm environments `Inv`, with all its parts |
| | `StationAlive` | in calm environments, `AutoconnectAlive` |
| | `StationAsked` | in calm environments without the finding, the action property `NoUnaskedConnect` |
| | `StationKeepsContract` | in calm environments, the initial states and steps of `KeepsContract`: `Connection` |
| `SaeProofs` | `Invariance` | `IInv`, with `KeysAgree` and `PmkMeansPeerConfirmed` |
| | `NoReplay` | the action property `NoReplayedAssociation` |
| `EapolProofs` | `ProtocolInvariant`, `InvariantTheorem` | `PInv`; `IInv`, with `KeysAgree`, `CompleteMeansKeys`, `KernelUpToDate` |
| | `NoReinstallationTheorem` | `NoReinstallation` |
| | `GroupKeysAdvanceTheorem` | the action property `GroupKeysAdvance` |
| `FrameXchgProofs` | `Invariance` | `IInv`, with `OneAtATime` and `OwnAck` |
| | `EndsOnce` | `OneOutcome` |

**RadioWork.**  `RadioExclusive`, `ServiceOrder` and `NoStall` are not inductive.  An
insertion keeps the order only because a started item is pinned below every priority
(`StartedPinned`, the code's `INT_MIN`); a removal finds the item it looks for only
because nothing is queued twice (`NoDuplicates`); and `NoStall` speaks of the main
loop, while in the middle of nested calls the head may be waiting as long as a call
of `wiphy_radio_work_next()` is pending on the stack (`NextPending`).  `KeepsRadio`
follows from `RadioExclusive` after the step: nothing but an insertion clears the count of
starts, and what is queued is not inserted.  For the refinement each action is shown to be a
step of `Radio` or none (`StepSimulation`): a removal finishes or withdraws, depending on
whether its item was started, and the head that is started is the most urgent because waiting
items still have the priority they came with (`StartedPinned`).

**Scan.**  `IInv` has four levels, by how much the environment has to leave alone.  In every
environment (`Linked`, `Explained`): the two queues differ by the requests whose callback is
running (`Pending`, read off the stack of calls), each of which is done once and not by a
cancellation that is itself waiting for it.  That gives `QueuesAgree` and `ToldOnce`.  When no scan
starts or ends while iwd is busy (`Quiet`): the end of a scan is the first thing iwd hears of
(`EndsFirst`), and a `GET_SCAN` for a request is the next thing that happens to it
(`DumpNext`), which gives `SuccessIsComplete`.  When moreover nobody cancels late
(`Undisturbed`): there is one trigger at a time, which the context knows of (`OneTrigger`); it,
its scan and its `GET_SCAN` belong to the request that holds the radio, and a holder without
a command left is being scanned or read for (`OwnScan`); and a `work_started` that is stale
after a refused trigger meets no end of a scan before the next request gets the radio
(`Refused`).  Without other radio work and refusals, even with late cancels (`Alone`): the
request that keeps the radio is the one whose callback is outermost (`Nested`).  The last two
give `WorkStartedOwnsRadio` and `ContinuesOwnRequest`, each in the environments of `NoRefusal`
that the other does not cover.  `StepCases` folds the actions into ten kinds of steps, and
`HandlerCases` the seven handlers into the ten things a message can do; every level is then
one lemma (`TypeStep`, `LinkedStep`, `ExplainedStep`, `EndsFirstStep`, `DumpNextStep`,
`SuccessStep`, `CalmStep`, `NestedStep`).  Two things came out of the proof.  The model had
removed every trigger when one is cancelled, where the code removes the one it knows of.  And
three conditions had been too weak, for environments that the run does not have: other radio
work together with late cancels or scans during a `GET_SCAN` (`NoRefusal`), refused triggers
together with external scans (`Undisturbed`), and `lagging` (`SuccessIsComplete`).

**Station.**  `Inv` does not hold in every environment (section *Observations*), and the
theorems name the ones they are about: `Calm` is a condition on `env`, which no step changes,
and fourteen of the seventeen environments of the run are calm.  It leaves out `hasty` and
`abort`; `low` together with anything that ends a connection, since the second scan of a roam
cannot be cancelled (`station.c:1630`); any two of roams (`low`, `btm`), `rekey` and `netconfig`,
since each moves a state that the other waits in (`station.c:1641`); and Connect or hidden
networks together with a user's scan, which frees `connect_pending_bss` (`station.c:2643`), or
with an access point that cannot be used (`station.c:2686`).  For each of these TLC finds `Inv` or
`AutoconnectAlive` violated, some only together with a further feature such as `poor`.  The other
three environments of the run have `low` with lost connections, Disconnect or an interface that
goes down, where the first scan of a roam always finds something; they are only model-checked.

`IInv` says that the station is `Sound`.  What has to be added to `Inv` is where the interface
is in *every* state and which state each pending disconnect was begun in (`Placed`: the
callback of a disconnect must find the state it was asked in; and that a neighbour report is
awaited only with an access point to parse it for, which is where `CallbackDue` is needed); that what netdev holds for a
connection is gone with it (`Interface`); that a scan has an id exactly while it is under way
(`Scanning`, and `RoamId`, which the second scan of a roam for a low signal breaks); that
`connect_pending_bss` is set exactly while its disconnect is unanswered (`Waiting`); and the
network of the access point that a transition or a preauthentication is about (`Roaming`).  All
of them are about a record of the parts that handlers change (`World`).  The proof follows the
calls of the code: each function of `station.c` that others call has a contract, a relation
between the record it is given and the one it leaves (`Dissociated`, `ConnectionReset`,
`RoamCleared`, `Freed`, `LeftBy`, `Autoconnected`, ...); the callbacks that run inside a scan's
own callback, when its id is stale, are about a record that is sound but for that id (`Lax`),
or for the owner of a roam (`Bereft`); and each entry point leaves a `Good` record: a sound one,
reached by a step of `Connection`, and with a connection only where one was asked for.  The
actions are then one lemma each (`ConnectLed`, ...), and every theorem follows from `NextLed`.
`NoUnaskedConnect` needs `~(Has("disconnect") /\ Has("scanfail"))` at one place only, a periodic
scan that runs with autoconnect off, which is the finding of `station_disconnect`.

**Sae.**  Agreement needs to know where the keys of a confirm come from: a confirm on its
way was computed by an instance from the keys and the commit that it still has
(`ConfirmsSent`), which is true because an instance derives its keys once (`KeysOnce`) and
does not go back (`Progress`).  Every handler is then shown to be a legal change of one
instance (lemma `BecomesLemma`), and the channel only to lose, repeat, reorder or reflect.

**Eapol.**  The proof has two layers.  `Protocol` is about the frames and the two state
machines: which nonce and PTK a frame proves of its sender, by the replay counters.  With
`TypeOK` and `KeysAgree` it is inductive by itself (`PInv`, `NextPInv`), and `NoReinstallation`
follows, since a PTK is not complete, or its ANonce is fresh, when it is handed to a kernel.
`Installation` is about the commands in the socket: the key that is current in
`handshake.c` is the last in the queue, or in the kernel when none is pending
(`LastKeys`), group keys are in order (`CommandsOrdered`), and the flags of
`struct netdev_handshake_state` mean keys (`FlagsMeanKeys`).  It needs the first layer and
gives `CompleteMeansKeys` and `KernelUpToDate`.  While proving it, the exception `Wpa1Rekey`
was found: `netdev_group_timeout_cb()` does not look at `nhs->complete`, and after the rekey
of a WPA1 connection it may report completion again, too early.

**FrameXchg.**  `OwnAck` and `OneOutcome` are about the past of a transmission, and nothing in
the code's state names it: the cookie is unknown until the answer comes, and a status may
come first.  The invariant adds what is known at each stage: what an exchange
without an owner, a pending command, or a saved early status can be (`Lifecycle`,
`Knowledge`), that an exchange has one command or one answer under way (`InFlight`), and
that a status on its way is for a cookie that is no longer pending, and has what
was heard (`Statuses`).  It had to be strengthened once more than TLC would tell: during
the callback of a response that came early the TX command has been answered, else the
code could destroy the exchange with its answer still to come.  The invariant is
split by exchange and by message (`XchgOk`, `CountOk`, `OnceOk`, `AnswerOk`, `StatusOk`), so that a
step of one exchange only has to show its own part (`OneChanges`); destruction
and the start of the next item are `RemovalLemma` and `WorkDoneLemma`, the handlers
of the main loop `SettledLemma`, `RetransmitLemma` and `TxStatusLemma`, and the kernel
`KernelLemma`.

**QueueTheorems.**  What insertion, removal, append and tail do to the elements of a queue,
to how often each occurs and to its head.  `Without` (`l_queue_foreach_remove()`) is a
recursive function over the positions; the library's induction theorems, whose parameter
is an operator, cannot be used, but `InductionUpTo`, whose parameter is a set, can: it
follows from the well-foundedness of `<`, and `WithoutLemma` from it.

Only model-checked:

- all liveness properties (`Drains`, `RequestsEnd`, `BothAccept`, `ExchangesEnd`, `Completes`,
  `Answered`, `Settles`, `Ends`, `Served`): TLAPS 1.4.5 reasons neither about fairness nor
  about ENABLED;
- the properties of `Netdev`, `Agent`, `EapTls` and `Ap`, and the refinement of `Connection` by
  `Netdev`, for which the inductive invariants have yet to be found;
- the fairness of `Connection` in the refinement by `Station`, and the properties of `Station` in
  environments that are not calm.

## Not modelled

Cryptography, element and frame parsers, storage, D-Bus property access, the
command line client, the monitor and the test tools are conversion or plain I/O, and
the largest part of the repository by lines; so are the vendored library and the
kernel headers.  Within the modelled components: the removal of a wdev in `Scan`;
frame watches in `FrameXchg`, and its error paths for frames shorter than their header and
for a socket without the nl80211 family, which no caller reaches; EAP inside EAPoL, preauthentication and rekey offload in
`Eapol`; creation, removal and power of interfaces, RSSI monitoring and firmware
roaming in `Netdev`; signal agents and diagnostics in `Station`; known network files,
ranking and hotspot matching in `Agent`; the authenticator side, EAP-TTLS and methods
without a tunnel in `EapTls`; WSC registration, probe requests, beacons and DHCP leases
in `Ap`.

Still to come, in the plan: ad-hoc networks, Wi-Fi Direct, WSC, the frames of FT, FILS
and OWE, radio measurement, IP configuration, and the manager.
