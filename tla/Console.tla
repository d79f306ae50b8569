------------------------------- MODULE Console -------------------------------
(***************************************************************************)
(* The device console: single-use tokens (console/security.py), host keys  *)
(* (console/hostkeys.py), SSH sessions (console/session.py), their         *)
(* registry (console/manager.py) and the routes that tie them together     *)
(* (web/console_routes.py).                                                *)
(*                                                                         *)
(* A session here is one console_attach handler, a thread of the server,   *)
(* from the redemption of its token to the end of its pump.  The steps     *)
(* between two critical sections of the registry's lock interleave.        *)
(* Expired sessions are ended only when a request looks: by expire_due, or *)
(* by the _reap inside the capacity checks, which leaves no audit record.  *)
(***************************************************************************)
EXTENDS Integers, FiniteSets, Sequences

CONSTANTS
    Sessions,     \* handlers of console_attach
    Devices,      \* devices with a console
    HostKeys,     \* host keys a device may present
    NoHostKey,    \* the device is not in the store
    MaxConcurrent,\* max_concurrent
    IdleLimit,    \* idle_timeout_seconds, in ticks
    DurationLimit,\* max_duration_seconds, in ticks
    TokenLife,    \* the tokens' ttl, in ticks
    MaxTokens,    \* bound: tokens minted
    MaxClock,     \* bound: ticks
    MaxRekeys     \* bound: changes of a device's host key

VARIABLES
    presents,     \* device -> the host key it presents
    trusted,      \* the store: device -> accepted host key
    shown,        \* history: the pairs of device and key an operator was shown
    tickets,      \* outstanding tokens
    minted,       \* tokens minted so far; the last one's number
    handler,      \* session -> the handler's state
    ssh,          \* session -> its SSH connection
    registry,     \* the manager's sessions
    quietFor,     \* session -> ticks since its last activity
    openFor,      \* session -> ticks since it was registered
    closing,      \* sessions popped by close and not yet finished
    tab,          \* session -> is the browser tab open
    log,          \* session -> its audit events, in order
    clock, rekeys

consoleVars == <<presents, trusted, shown, tickets, minted, handler, ssh, registry, quietFor,
                 openFor, closing, tab, log, clock, rekeys>>

ASSUME ConsoleAssumption ==
    /\ NoHostKey \notin HostKeys
    /\ MaxConcurrent \in Nat \ {0}
    /\ IdleLimit \in Nat \ {0} /\ DurationLimit \in Nat \ {0} /\ TokenLife \in Nat \ {0}

\* A handler: where it is, the token it redeemed, the device and the key that
\* the device presented to it.
Handler(pc) == [pc |-> pc, token |-> 0, device |-> CHOOSE d \in Devices : TRUE, key |-> NoHostKey]

ConsoleInit ==
    /\ presents \in [Devices -> HostKeys]
    /\ trusted = [d \in Devices |-> NoHostKey]
    /\ shown = {}
    /\ tickets = {}
    /\ minted = 0
    /\ handler = [s \in Sessions |-> Handler("new")]
    /\ ssh = [s \in Sessions |-> "none"]
    /\ registry = {}
    /\ quietFor = [s \in Sessions |-> 0]
    /\ openFor = [s \in Sessions |-> 0]
    /\ closing = {}
    /\ tab = [s \in Sessions |-> TRUE]
    /\ log = [s \in Sessions |-> <<>>]
    /\ clock = 0
    /\ rekeys = 0

---------------------------------------------------------------------------
(* Host keys.                                                              *)

\* console_hostkey: an operator reads the fingerprint that the device presents.
ShowKey(d) ==
    /\ shown' = shown \cup {<<d, presents[d]>>}
    /\ UNCHANGED <<presents, trusted, tickets, minted, handler, ssh, registry, quietFor, openFor,
                   closing, tab, log, clock, rekeys>>

\* console_hostkey_accept: the device still presents the key that was shown.
AcceptableKey(d, k) == presents[d] = k

AcceptKey(d, k) ==
    /\ <<d, k>> \in shown
    /\ AcceptableKey(d, k)
    /\ trusted' = [trusted EXCEPT ![d] = presents[d]]
    /\ UNCHANGED <<presents, shown, tickets, minted, handler, ssh, registry, quietFor, openFor,
                   closing, tab, log, clock, rekeys>>

\* External: the device gets another key.
Rekey(d, k) ==
    /\ rekeys < MaxRekeys
    /\ rekeys' = rekeys + 1
    /\ presents' = [presents EXCEPT ![d] = k]
    /\ UNCHANGED <<trusted, shown, tickets, minted, handler, ssh, registry, quietFor, openFor,
                   closing, tab, log, clock>>

---------------------------------------------------------------------------
(* The registry.                                                           *)

\* _expiry_reason; a session that somebody closed is not connected.
Due(s) == openFor[s] >= DurationLimit \/ quietFor[s] >= IdleLimit \/ ssh[s] # "open"

\* _reap: due sessions leave the registry and are closed, without a record.
Reaped == {s \in registry : Due(s)}
ClosedSsh(set) == [s \in Sessions |-> IF s \in set /\ ssh[s] = "open" THEN "closed" ELSE ssh[s]]

Full == Cardinality(registry \ Reaped) >= MaxConcurrent

\* Mutant: the capacity is checked when the token is minted, not again.
FullUnchecked == FALSE

\* register checks the capacity again.
FullAtRegister == Full

\* check_capacity, then mint; a refused request has still reaped.
MintToken(d) ==
    /\ minted < MaxTokens
    /\ registry' = registry \ Reaped
    /\ ssh' = ClosedSsh(Reaped)
    /\ IF Full THEN UNCHANGED <<tickets, minted>>
       ELSE /\ minted' = minted + 1
            /\ tickets' = {t \in tickets : t.life > 0}
                          \cup {[number |-> minted + 1, device |-> d, life |-> TokenLife]}
    /\ UNCHANGED <<presents, trusted, shown, handler, quietFor, openFor, closing, tab, log,
                   clock, rekeys>>

\* Mutant: a redeemed token stays valid until it expires.
SpentNever(n) == {t \in tickets : t.life > 0}

\* redeem pops the token, and the expired ones with it.
Spent(n) == {t \in tickets : t.life > 0 /\ t.number # n}

\* console_attach with a token of any number, as a retry or a second tab may.
Attach(s, n, d) ==
    /\ handler[s].pc = "new"
    /\ tickets' = Spent(n)
    /\ handler' = [handler EXCEPT ![s] =
         IF \E t \in tickets : t.number = n /\ t.life > 0 /\ t.device = d
         THEN [Handler("redeemed") EXCEPT !.token = n, !.device = d] ELSE Handler("ended")]
    /\ UNCHANGED <<presents, trusted, shown, minted, ssh, registry, quietFor, openFor, closing,
                   tab, log, clock, rekeys>>

\* Mutant: a key that is not in the store is accepted too.
VerifiesNew(d) == trusted[d] \in {presents[d], NoHostKey}

\* missing_host_key, with allow_new_host_key false
Verifies(d) == trusted[d] = presents[d]

\* connect opens the session ...
Connect(s) ==
    /\ handler[s].pc = "redeemed"
    /\ Verifies(handler[s].device)
    /\ ssh' = [ssh EXCEPT ![s] = "open"]
    /\ handler' = [handler EXCEPT ![s].pc = "connected", ![s].key = presents[handler[s].device]]
    /\ UNCHANGED <<presents, trusted, shown, tickets, minted, registry, quietFor, openFor,
                   closing, tab, log, clock, rekeys>>

\* ... or fails: an unknown or changed key, the credential, the network.
ConnectFails(s) ==
    /\ handler[s].pc = "redeemed"
    /\ handler' = [handler EXCEPT ![s].pc = "ended"]
    /\ UNCHANGED <<presents, trusted, shown, tickets, minted, ssh, registry, quietFor, openFor,
                   closing, tab, log, clock, rekeys>>

\* Mutant: the session that is one too many is not closed.
TurnedAwayOpen(s) == ClosedSsh(Reaped)

\* ConsoleLimitReached: the session that is one too many is closed.
TurnedAway(s) == ClosedSsh(Reaped \cup {s})

\* register
Register(s) ==
    /\ handler[s].pc = "connected"
    /\ IF FullAtRegister
       THEN /\ registry' = registry \ Reaped
            /\ ssh' = TurnedAway(s)
            /\ handler' = [handler EXCEPT ![s].pc = "ended"]
            /\ UNCHANGED <<quietFor, openFor>>
       ELSE /\ registry' = (registry \ Reaped) \cup {s}
            /\ ssh' = ClosedSsh(Reaped)
            /\ handler' = [handler EXCEPT ![s].pc = "recording"]
            /\ quietFor' = [quietFor EXCEPT ![s] = 0]
            /\ openFor' = [openFor EXCEPT ![s] = 0]
    /\ UNCHANGED <<presents, trusted, shown, tickets, minted, closing, tab, log, clock, rekeys>>

\* register writes its audit record after it released the lock.
RecordConnected(s) ==
    /\ handler[s].pc = "recording"
    /\ handler' = [handler EXCEPT ![s].pc = "pumping"]
    /\ log' = [log EXCEPT ![s] = Append(@, "connected")]
    /\ UNCHANGED <<presents, trusted, shown, tickets, minted, ssh, registry, quietFor, openFor,
                   closing, tab, clock, rekeys>>

---------------------------------------------------------------------------
(* The pump and the ends of a session.                                     *)

\* A byte in either direction: touch.
Touch(s) ==
    /\ handler[s].pc = "pumping" /\ tab[s] /\ ssh[s] = "open"
    /\ quietFor' = [quietFor EXCEPT ![s] = IF s \in registry THEN 0 ELSE @]
    /\ UNCHANGED <<presents, trusted, shown, tickets, minted, handler, ssh, registry, openFor,
                   closing, tab, log, clock, rekeys>>

TabCloses(s) ==
    /\ tab[s]
    /\ tab' = [tab EXCEPT ![s] = FALSE]
    /\ UNCHANGED <<presents, trusted, shown, tickets, minted, handler, ssh, registry, quietFor,
                   openFor, closing, log, clock, rekeys>>

\* Mutant: close reads the session and leaves it in the registry.
PopLater(s) == registry

\* close: the registry gives a session away once.
Pop(s) == registry \ {s}

\* Mutant: the handler ends without closing its session.
EndPumpForgets(s) ==
    /\ handler[s].pc = "pumping"
    /\ handler' = [handler EXCEPT ![s].pc = "ended"]
    /\ UNCHANGED <<presents, trusted, shown, tickets, minted, ssh, registry, quietFor, openFor,
                   closing, tab, log, clock, rekeys>>

\* The pump ends: the tab was closed, its operator disconnected or wrote to a
\* session that somebody closed; then manager.close.
EndPump(s) ==
    /\ handler[s].pc = "pumping"
    /\ handler' = [handler EXCEPT ![s].pc = "ended"]
    /\ registry' = Pop(s)
    /\ closing' = IF s \in registry THEN closing \cup {<<s, "pump">>} ELSE closing
    /\ UNCHANGED <<presents, trusted, shown, tickets, minted, ssh, quietFor, openFor, tab, log,
                   clock, rekeys>>

\* console_disconnect, from the list of sessions
Disconnect(s) ==
    /\ s \in registry
    /\ <<s, "list">> \notin closing
    /\ registry' = Pop(s)
    /\ closing' = closing \cup {<<s, "list">>}
    /\ UNCHANGED <<presents, trusted, shown, tickets, minted, handler, ssh, quietFor, openFor,
                   tab, log, clock, rekeys>>

\* _finish, after close released the lock
FinishClose(s, who) ==
    /\ <<s, who>> \in closing
    /\ closing' = closing \ {<<s, who>>}
    /\ ssh' = ClosedSsh({s})
    /\ log' = [log EXCEPT ![s] = Append(@, "disconnected")]
    /\ UNCHANGED <<presents, trusted, shown, tickets, minted, handler, registry, quietFor,
                   openFor, tab, clock, rekeys>>

\* expire_due, under the lock; every page that lists sessions calls it.
ExpireDue ==
    /\ Reaped # {}
    /\ registry' = registry \ Reaped
    /\ ssh' = ClosedSsh(Reaped)
    /\ log' = [s \in Sessions |-> IF s \in Reaped THEN Append(log[s], "disconnected") ELSE log[s]]
    /\ UNCHANGED <<presents, trusted, shown, tickets, minted, handler, quietFor, openFor,
                   closing, tab, clock, rekeys>>

ClockTick ==
    /\ clock < MaxClock
    /\ clock' = clock + 1
    /\ quietFor' = [s \in Sessions |-> IF s \in registry THEN quietFor[s] + 1 ELSE quietFor[s]]
    /\ openFor' = [s \in Sessions |-> IF s \in registry THEN openFor[s] + 1 ELSE openFor[s]]
    /\ tickets' = {[t EXCEPT !.life = @ - 1] : t \in tickets}
    /\ UNCHANGED <<presents, trusted, shown, minted, handler, ssh, registry, closing, tab, log,
                   rekeys>>

ConsoleNext ==
    \/ \E d \in Devices :
         \/ ShowKey(d)
         \/ \E k \in HostKeys : AcceptKey(d, k) \/ Rekey(d, k)
         \/ MintToken(d)
    \/ \E s \in Sessions :
         \/ \E n \in 1 .. minted, d \in Devices : Attach(s, n, d)
         \/ Connect(s) \/ ConnectFails(s) \/ Register(s) \/ RecordConnected(s)
         \/ Touch(s) \/ TabCloses(s) \/ EndPump(s) \/ Disconnect(s)
         \/ \E who \in {"pump", "list"} : FinishClose(s, who)
    \/ ExpireDue
    \/ ClockTick

ConsoleSpec == ConsoleInit /\ [][ConsoleNext]_consoleVars

\* The handler's thread runs on once its tab is closed.
ConsoleFairness ==
    \A s \in Sessions :
        /\ WF_consoleVars(Connect(s) \/ ConnectFails(s))
        /\ WF_consoleVars(Register(s))
        /\ WF_consoleVars(RecordConnected(s))
        /\ WF_consoleVars(~tab[s] /\ EndPump(s))
        /\ WF_consoleVars(FinishClose(s, "pump"))
        /\ WF_consoleVars(FinishClose(s, "list"))

---------------------------------------------------------------------------
(* Properties.                                                             *)

\* A session is registered only while its handler knows of it, and its audit
\* events are at most one connection and one end.
ConsoleTypeOK ==
    /\ \A s \in registry : handler[s].pc \in {"recording", "pumping"}
    /\ \A s \in Sessions :
         /\ Len(log[s]) <= 2
         /\ Len(log[s]) = 2 => log[s][1] # log[s][2]

\* "one browser cannot exhaust the box": however many handlers passed the check
\* at the token, no more sessions than the maximum are ever registered.
ConsoleCapacity == Cardinality(registry) <= MaxConcurrent

\* "none of them leave an SSH session running behind a closed tab": a connection
\* is open only while it is registered, about to be, or about to be closed.
ConsoleNoOrphan ==
    \A s \in Sessions :
        ssh[s] = "open" =>
            \/ s \in registry
            \/ handler[s].pc = "connected"
            \/ \E who \in {"pump", "list"} : <<s, who>> \in closing

\* "Tokens are short-lived, bound to the device they were minted for, and
\* cannot be replayed": one token opens one session, whoever uses it again.
ConsoleTokenOnce ==
    \A s, r \in Sessions :
        handler[s].token # 0 /\ handler[s].token = handler[r].token => s = r

\* "acceptance applies to the key the operator was shown, never to whatever the
\* device happens to present": the store, and every session, has only keys that
\* an operator was shown for that device.
ConsoleKeysWereShown ==
    /\ \A d \in Devices : trusted[d] # NoHostKey => <<d, trusted[d]>> \in shown
    /\ \A s \in Sessions :
         handler[s].key # NoHostKey => <<handler[s].device, handler[s].key>> \in shown

\* "cleanup after browser closure": the connection behind a closed tab is closed.
ConsoleClosedTabEnds ==
    \A s \in Sessions : (~tab[s] /\ handler[s].pc = "pumping") ~> ssh[s] # "open"

\* Every connection is accounted for: within the maximum, registered or about to
\* be closed, recorded at most once.
ConsoleSound ==
    /\ ConsoleTypeOK
    /\ ConsoleCapacity
    /\ ConsoleNoOrphan

\* What opens a console: a token, once, and a host key an operator was shown.
ConsoleTrust ==
    /\ ConsoleTokenOnce
    /\ ConsoleKeysWereShown

=============================================================================
