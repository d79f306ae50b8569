---------------------------- MODULE ConsoleProofs ----------------------------
(***************************************************************************)
(* What Atlas does on the network.                                         *)
(*                                                                         *)
(* The console, for any number of handlers and devices and any limits: no  *)
(* more sessions than the maximum, no connection that nobody answers for,  *)
(* no token used twice and no host key that no operator was shown.         *)
(*                                                                         *)
(* The crawl, for any network, seeds and limits and any order in which the *)
(* attempts of a wave complete: each device once and each host once, in    *)
(* breadth-first order, nobody that the policy forbids, and no neighbor    *)
(* left out of the report.                                                 *)
(*                                                                         *)
(* The calendar, for any zones and times: a daily schedule runs at the     *)
(* first instant that shows its time or a later one, through any change of *)
(* the clocks, and a time that an operator enters is never misread.        *)
(***************************************************************************)
EXTENDS Console, Crawl, DailyTimes, FiniteSetTheorems, FunctionTheorems, SequenceTheorems, TLAPS

Ends == {"pump", "list"}

AnyDevice == Devices \cup {CHOOSE d \in Devices : TRUE}

Stages == {"new", "redeemed", "connected", "recording", "pumping", "ended"}

Handlers == [pc : Stages, token : Nat, device : AnyDevice, key : HostKeys \cup {NoHostKey}]

Tickets == [number : Nat \ {0}, device : Devices, life : Int]

\* What the audit may hold of a session; a session that is recorded after it
\* was expired has its two events in the wrong order.
Histories ==
    {<<>>, <<"connected">>, <<"disconnected">>, <<"connected", "disconnected">>,
     <<"disconnected", "connected">>}

Types ==
    /\ presents \in [Devices -> HostKeys]
    /\ trusted \in [Devices -> HostKeys \cup {NoHostKey}]
    /\ tickets \subseteq Tickets
    /\ minted \in Nat
    /\ handler \in [Sessions -> Handlers]
    /\ ssh \in [Sessions -> {"none", "open", "closed"}]
    /\ registry \subseteq Sessions
    /\ closing \subseteq Sessions \X Ends
    /\ log \in [Sessions -> Histories]

\* The registry is within the maximum.
CapacityInv == IsFiniteSet(registry) /\ ConsoleCapacity

\* A session is in the hands of the registry or of one close, never of two.
Held(s) == s \in registry \/ \E who \in Ends : <<s, who>> \in closing

HeldInv ==
    \A s \in Sessions :
      /\ s \in registry => handler[s].pc \in {"recording", "pumping"}
      /\ s \in registry => \A who \in Ends : <<s, who>> \notin closing
      /\ ~(<<s, "pump">> \in closing /\ <<s, "list">> \in closing)

\* The audit follows the handler: what is still held has not been recorded as
\* ended, and the connection is recorded once.
LogInv ==
    \A s \in Sessions :
      /\ handler[s].pc \in {"new", "redeemed", "connected"} => ~Held(s) /\ log[s] = <<>>
      /\ handler[s].pc = "recording" => log[s] \in {<<>>, <<"disconnected">>}
      /\ handler[s].pc \in {"pumping", "ended"} => log[s] # <<"disconnected">>
      /\ Held(s) => log[s] = IF handler[s].pc = "recording" THEN <<>> ELSE <<"connected">>

\* No token of a handler is outstanding, and none was redeemed by two.
TokensInv ==
    /\ \A t \in tickets : t.number <= minted
    /\ \A s \in Sessions :
         /\ handler[s].token <= minted
         /\ handler[s].token # 0 => \A t \in tickets : t.number # handler[s].token
         /\ handler[s].pc = "redeemed" => handler[s].device \in Devices
    /\ ConsoleTokenOnce

IndInv ==
    /\ Types
    /\ CapacityInv
    /\ HeldInv
    /\ LogInv
    /\ ConsoleNoOrphan
    /\ TokensInv
    /\ ConsoleKeysWereShown

\* The tokens after a mint, a redemption and a tick.
LEMMA TicketTypes ==
    ASSUME Types, ConsoleAssumption
    PROVE  /\ \A d \in Devices : [number |-> minted + 1, device |-> d, life |-> TokenLife] \in Tickets
           /\ \A t \in tickets : [t EXCEPT !.life = @ - 1] \in Tickets
<1>1. ASSUME NEW d \in Devices
      PROVE  [number |-> minted + 1, device |-> d, life |-> TokenLife] \in Tickets
  BY DEF Types, Tickets, ConsoleAssumption
<1>2. ASSUME NEW t \in tickets PROVE [t EXCEPT !.life = @ - 1] \in Tickets
  BY DEF Types, Tickets
<1> QED
  BY <1>1, <1>2

\* What a handler is when it starts, when it redeemed a token and when it ends.
LEMMA HandlerTypes ==
    /\ Handler("new") \in Handlers /\ Handler("ended") \in Handlers
    /\ \A n \in Nat, d \in Devices :
         [Handler("redeemed") EXCEPT !.token = n, !.device = d] \in Handlers
  BY DEF Handler, Handlers, AnyDevice, Stages

\* Closing connections closes open ones.
LEMMA ClosedTypes ==
    ASSUME Types, NEW S
    PROVE  /\ ClosedSsh(S) \in [Sessions -> {"none", "open", "closed"}]
           /\ \A s \in Sessions :
                ClosedSsh(S)[s] = "open" <=> ssh[s] = "open" /\ s \notin S
  BY DEF Types, ClosedSsh

\* The histories grow by one event at a time.
LEMMA Appended ==
    /\ Append(<<>>, "connected") = <<"connected">>
    /\ Append(<<>>, "disconnected") = <<"disconnected">>
    /\ Append(<<"connected">>, "disconnected") = <<"connected", "disconnected">>
    /\ Append(<<"disconnected">>, "connected") = <<"disconnected", "connected">>
<1>1. ASSUME NEW x PROVE Append(<<>>, x) = <<x>>
  <2>1. <<>> \in Seq({x}) /\ <<x>> \in Seq({x}) /\ x \in {x}
    OBVIOUS
  <2>2. Append(<<>>, x) = <<>> \o <<x>>
    BY <2>1, AppendIsConcat
  <2> QED
    BY <2>1, <2>2, ConcatEmptySeq
<1>2. ASSUME NEW y, NEW x PROVE Append(<<y>>, x) = <<y, x>>
  <2> DEFINE S == {x, y}
             e == Append(<<y>>, x)
             f == <<y, x>>
  <2>1. <<y>> \in Seq(S) /\ Len(<<y>>) = 1 /\ <<y>>[1] = y /\ x \in S
    OBVIOUS
  <2>2. f \in Seq(S) /\ Len(f) = 2 /\ f[1] = y /\ f[2] = x
    OBVIOUS
  <2>3. e \in Seq(S) /\ Len(e) = 2 /\ e[1] = y /\ e[2] = x
    BY <2>1, AppendProperties
  <2> HIDE DEF S, e, f
  <2>4. \A i \in 1 .. Len(e) : i = 1 \/ i = 2
    BY <2>3
  <2>5. \A i \in 1 .. Len(e) : e[i] = f[i]
    BY <2>2, <2>3, <2>4
  <2>6. e \in Seq(S) /\ f \in Seq(S) /\ Len(e) = Len(f)
    BY <2>2, <2>3
  <2>7. e = f
    BY <2>5, <2>6, SeqEqual, Zenon
  <2> QED
    BY <2>7 DEF e, f
<1> QED
  BY <1>1, <1>2

LEMMA InitInv == ConsoleInit => IndInv
<1> SUFFICES ASSUME ConsoleInit PROVE IndInv
  OBVIOUS
<1>1. Types
  BY HandlerTypes DEF ConsoleInit, Types, Histories
<1>2. CapacityInv
  BY FS_EmptySet, ConsoleAssumption DEF ConsoleInit, CapacityInv, ConsoleCapacity, ConsoleAssumption
<1>3. \A s \in Sessions : handler[s].pc = "new" /\ handler[s].token = 0 /\ handler[s].key = NoHostKey
  BY DEF ConsoleInit, Handler
<1>4. HeldInv
  BY <1>3 DEF ConsoleInit, HeldInv
<1>5. LogInv
  BY <1>3 DEF ConsoleInit, LogInv, Held
<1>6. ConsoleNoOrphan
  BY DEF ConsoleInit, ConsoleNoOrphan
<1>7. TokensInv
  BY <1>3 DEF ConsoleInit, TokensInv, ConsoleTokenOnce
<1>8. ConsoleKeysWereShown
  BY <1>3 DEF ConsoleInit, ConsoleKeysWereShown
<1> QED
  BY <1>1, <1>2, <1>4, <1>5, <1>6, <1>7, <1>8 DEF IndInv

LEMMA TypesStep == IndInv /\ ConsoleNext => Types'
<1> SUFFICES ASSUME IndInv, ConsoleNext PROVE Types'
  OBVIOUS
<1>0. Types
  BY DEF IndInv
<1>a. Reaped \subseteq Sessions
  BY <1>0 DEF Types, Reaped
<1>b. ASSUME NEW s \in Sessions, NEW pc \in Stages
      PROVE  [handler EXCEPT ![s].pc = pc] \in [Sessions -> Handlers]
  BY <1>0, <1>b DEF Types, Handlers
<1>1. CASE \E d \in Devices : ShowKey(d)
  BY <1>0, <1>1 DEF Types, ShowKey
<1>2. CASE \E d \in Devices, k \in HostKeys : AcceptKey(d, k) \/ Rekey(d, k)
  BY <1>0, <1>2 DEF Types, AcceptKey, Rekey
<1>3. ASSUME NEW d \in Devices, MintToken(d) PROVE Types'
  <2>1. tickets' \subseteq Tickets /\ minted' \in Nat
    BY <1>0, <1>3, TicketTypes, ConsoleAssumption DEF Types, MintToken
  <2>2. ssh' \in [Sessions -> {"none", "open", "closed"}] /\ registry' \subseteq Sessions
    BY <1>0, <1>3, ClosedTypes DEF Types, MintToken
  <2> QED
    BY <1>0, <1>3, <2>1, <2>2 DEF Types, MintToken
<1>4. ASSUME NEW s \in Sessions, NEW n \in 1 .. minted, NEW d \in Devices, Attach(s, n, d)
      PROVE  Types'
  <2>1. n \in Nat
    BY <1>0 DEF Types
  <2>2. handler' \in [Sessions -> Handlers]
    BY <1>0, <1>4, <2>1, HandlerTypes DEF Types, Attach
  <2>3. tickets' \subseteq Tickets
    BY <1>0, <1>4 DEF Types, Attach, Spent
  <2> QED
    BY <1>0, <1>4, <2>2, <2>3 DEF Types, Attach
<1>5. ASSUME NEW s \in Sessions, Connect(s) PROVE Types'
  <2> DEFINE k == presents[handler[s].device]
  <2>1. k \in HostKeys \cup {NoHostKey}
    <3>1. trusted[handler[s].device] = presents[handler[s].device] /\ handler[s].device \in Devices
      BY <1>5 DEF IndInv, TokensInv, Connect, Verifies
    <3> QED
      BY <1>0, <3>1 DEF Types
  <2>2. handler' \in [Sessions -> Handlers]
    <3>1. handler' = [handler EXCEPT ![s].pc = "connected", ![s].key = k]
      BY <1>5 DEF Connect
    <3> HIDE DEF k
    <3>2. handler[s] \in Handlers
      BY <1>0 DEF Types
    <3>3. [[handler[s] EXCEPT !.pc = "connected"] EXCEPT !.key = k] \in Handlers
      BY <2>1, <3>2 DEF Handlers, Stages
    <3> QED
      BY <1>0, <3>1, <3>3 DEF Types
  <2> QED
    BY <1>0, <1>5, <2>2 DEF Types, Connect
<1>6. ASSUME NEW s \in Sessions, ConnectFails(s) PROVE Types'
  <2>1. handler' \in [Sessions -> Handlers]
    BY <1>b, <1>6 DEF ConnectFails, Stages
  <2> QED
    BY <1>0, <1>6, <2>1 DEF Types, ConnectFails
<1>7. ASSUME NEW s \in Sessions, Register(s) PROVE Types'
  <2>1. handler' \in [Sessions -> Handlers]
    BY <1>b, <1>7 DEF Register, Stages
  <2>2. ssh' \in [Sessions -> {"none", "open", "closed"}] /\ registry' \subseteq Sessions
    BY <1>0, <1>7, ClosedTypes DEF Types, Register, TurnedAway
  <2> QED
    BY <1>0, <1>7, <2>1, <2>2 DEF Types, Register
<1>8. ASSUME NEW s \in Sessions, RecordConnected(s) PROVE Types'
  <2>1. handler' \in [Sessions -> Handlers]
    BY <1>b, <1>8 DEF RecordConnected, Stages
  <2>2. log[s] \in {<<>>, <<"disconnected">>}
    BY <1>8 DEF IndInv, LogInv, RecordConnected
  <2>3. Append(log[s], "connected") \in Histories
    BY <2>2, Appended DEF Histories
  <2>4. log' \in [Sessions -> Histories]
    BY <1>0, <1>8, <2>3 DEF Types, RecordConnected
  <2> QED
    BY <1>0, <1>8, <2>1, <2>4 DEF Types, RecordConnected
<1>9. ASSUME NEW s \in Sessions, EndPump(s) PROVE Types'
  <2>1. handler' \in [Sessions -> Handlers]
    BY <1>b, <1>9 DEF EndPump, Stages
  <2> QED
    BY <1>0, <1>9, <2>1 DEF Types, EndPump, Pop, Ends
<1>c. ASSUME NEW s \in Sessions, Held(s) PROVE Append(log[s], "disconnected") \in Histories
  <2>1. log[s] \in {<<>>, <<"connected">>}
    BY <1>c DEF IndInv, LogInv
  <2> QED
    BY <2>1, Appended DEF Histories
<1>10. ASSUME NEW s \in Sessions, NEW who \in Ends, FinishClose(s, who) PROVE Types'
  <2>1. log' \in [Sessions -> Histories]
    BY <1>0, <1>c, <1>10 DEF Types, FinishClose, Held
  <2> QED
    BY <1>0, <1>10, <2>1, ClosedTypes DEF Types, FinishClose
<1>11. CASE ExpireDue
  <2>1. log' \in [Sessions -> Histories]
    <3>1. \A s \in Reaped : Held(s)
      BY DEF Reaped, Held
    <3> QED
      BY <1>0, <1>c, <1>11, <3>1 DEF Types, ExpireDue
  <2> QED
    BY <1>0, <1>11, <2>1, ClosedTypes DEF Types, ExpireDue
<1>12. CASE ClockTick
  BY <1>0, <1>12, TicketTypes, ConsoleAssumption DEF Types, ClockTick
<1>13. CASE \E s \in Sessions : Touch(s) \/ TabCloses(s) \/ Disconnect(s)
  BY <1>0, <1>13 DEF Types, Touch, TabCloses, Disconnect, Pop, Ends
<1> QED
  BY <1>1, <1>2, <1>3, <1>4, <1>5, <1>6, <1>7, <1>8, <1>9, <1>10, <1>11, <1>12, <1>13
     DEF ConsoleNext, Ends

\* Only Register can add a session to the registry, and it looks first.
LEMMA CapacityStep == IndInv /\ ConsoleNext => CapacityInv'
<1> SUFFICES ASSUME IndInv, ConsoleNext PROVE CapacityInv'
  OBVIOUS
<1>0. IsFiniteSet(registry) /\ Cardinality(registry) <= MaxConcurrent
  BY DEF IndInv, CapacityInv, ConsoleCapacity
<1>1. ASSUME registry' \subseteq registry PROVE CapacityInv'
  <2>1. IsFiniteSet(registry') /\ Cardinality(registry') <= Cardinality(registry)
    BY <1>0, <1>1, FS_Subset
  <2>2. Cardinality(registry') \in Nat /\ Cardinality(registry) \in Nat
    BY <1>0, <2>1, FS_CardinalityType
  <2> QED
    BY <1>0, <2>1, <2>2, ConsoleAssumption DEF ConsoleAssumption, CapacityInv, ConsoleCapacity
<1>2. ASSUME NEW s \in Sessions, Register(s), ~Full PROVE CapacityInv'
  <2> DEFINE kept == registry \ Reaped
  <2>1. registry' = kept \cup {s}
    BY <1>2 DEF Register, FullAtRegister
  <2>2. IsFiniteSet(kept)
    BY <1>0, FS_Subset
  <2>3. Cardinality(kept) \in Nat
    BY <2>2, FS_CardinalityType
  <2>4. ~(Cardinality(kept) >= MaxConcurrent)
    BY <1>2 DEF Full
  <2> HIDE DEF kept
  <2>5. IsFiniteSet(registry') /\ Cardinality(registry') <= Cardinality(kept) + 1
    BY <2>1, <2>2, <2>3, FS_AddElement
  <2>6. Cardinality(registry') \in Nat
    BY <2>5, FS_CardinalityType
  <2> QED
    BY <2>3, <2>4, <2>5, <2>6, ConsoleAssumption DEF ConsoleAssumption, CapacityInv, ConsoleCapacity
<1>3. ASSUME NEW s \in Sessions, Register(s) PROVE CapacityInv'
  BY <1>1, <1>2, <1>3 DEF Register, FullAtRegister
<1>4. CASE \E d \in Devices : ShowKey(d) \/ (\E k \in HostKeys : AcceptKey(d, k) \/ Rekey(d, k))
                               \/ MintToken(d)
  BY <1>1, <1>4 DEF ShowKey, AcceptKey, Rekey, MintToken
<1>5. CASE \E s \in Sessions : \/ \E n \in 1 .. minted, d \in Devices : Attach(s, n, d)
                               \/ Connect(s) \/ ConnectFails(s) \/ RecordConnected(s)
                               \/ Touch(s) \/ TabCloses(s) \/ EndPump(s) \/ Disconnect(s)
                               \/ \E who \in Ends : FinishClose(s, who)
  BY <1>1, <1>5 DEF Attach, Connect, ConnectFails, RecordConnected, Touch, TabCloses, EndPump,
                    Disconnect, FinishClose, Pop
<1>6. CASE ExpireDue \/ ClockTick
  BY <1>1, <1>6 DEF ExpireDue, ClockTick
<1> QED
  BY <1>3, <1>4, <1>5, <1>6 DEF ConsoleNext, Ends

\* Handler s moves on to pc with its token and device, and no other does.
Moves(s, pc) ==
    /\ \A r \in Sessions : r # s => handler'[r] = handler[r]
    /\ handler'[s].pc = pc
    /\ handler'[s].token = handler[s].token
    /\ handler'[s].device = handler[s].device

\* Where the steps of a handler take it.
LEMMA Progress ==
    ASSUME Types, NEW s \in Sessions
    PROVE  /\ Connect(s) => Moves(s, "connected") /\ handler'[s].key = presents[handler[s].device]
           /\ ConnectFails(s) \/ EndPump(s) =>
                Moves(s, "ended") /\ handler'[s].key = handler[s].key
           /\ Register(s) => /\ Moves(s, IF FullAtRegister THEN "ended" ELSE "recording")
                             /\ handler'[s].key = handler[s].key
           /\ RecordConnected(s) => Moves(s, "pumping") /\ handler'[s].key = handler[s].key
<1>0. handler \in [Sessions -> Handlers]
  BY DEF Types
<1>1. ASSUME Connect(s)
      PROVE  Moves(s, "connected") /\ handler'[s].key = presents[handler[s].device]
  <2> DEFINE k == presents[handler[s].device]
  <2>1. handler' = [handler EXCEPT ![s].pc = "connected", ![s].key = k]
    BY <1>1 DEF Connect
  <2> HIDE DEF k
  <2>2. Moves(s, "connected") /\ handler'[s].key = k
    BY <1>0, <2>1 DEF Moves, Handlers
  <2> QED
    BY <2>2 DEF k
<1>2. ASSUME NEW pc, handler' = [handler EXCEPT ![s].pc = pc]
      PROVE  Moves(s, pc) /\ handler'[s].key = handler[s].key
  BY <1>0, <1>2 DEF Moves, Handlers
<1>3. ConnectFails(s) \/ EndPump(s) => handler' = [handler EXCEPT ![s].pc = "ended"]
  BY DEF ConnectFails, EndPump
<1>4. Register(s) =>
        handler' = [handler EXCEPT ![s].pc = IF FullAtRegister THEN "ended" ELSE "recording"]
  BY DEF Register
<1>5. RecordConnected(s) => handler' = [handler EXCEPT ![s].pc = "pumping"]
  BY DEF RecordConnected
<1> QED
  BY <1>1, <1>2, <1>3, <1>4, <1>5

\* A handler that starts has redeemed its token or is refused.
LEMMA Attached ==
    ASSUME Types, NEW s \in Sessions, NEW n \in Nat, NEW d \in Devices, Attach(s, n, d)
    PROVE  /\ \A r \in Sessions : r # s => handler'[r] = handler[r]
           /\ handler[s].pc = "new"
           /\ handler'[s].key = NoHostKey
           /\ \/ /\ handler'[s].pc = "redeemed" /\ handler'[s].token = n /\ handler'[s].device = d
                 /\ \E t \in tickets : t.number = n
              \/ handler'[s].pc = "ended" /\ handler'[s].token = 0
<1> DEFINE first == [Handler("redeemed") EXCEPT !.token = n, !.device = d]
<1>1. first.pc = "redeemed" /\ first.token = n /\ first.device = d /\ first.key = NoHostKey
  BY DEF Handler
<1>2. Handler("ended").pc = "ended" /\ Handler("ended").token = 0 /\ Handler("ended").key = NoHostKey
  BY DEF Handler
<1>3. handler[s].pc = "new"
  BY DEF Attach
<1>4. handler' = [handler EXCEPT ![s] =
         IF \E t \in tickets : t.number = n /\ t.life > 0 /\ t.device = d
         THEN first ELSE Handler("ended")]
  BY DEF Attach
<1> HIDE DEF first
<1> QED
  BY <1>1, <1>2, <1>3, <1>4 DEF Types

\* The registry and the closes hold a session at most once.
LEMMA HeldStep == IndInv /\ ConsoleNext => HeldInv'
<1> SUFFICES ASSUME IndInv, ConsoleNext PROVE HeldInv'
  OBVIOUS
<1>0. Types /\ HeldInv
  BY DEF IndInv
<1>l. \A s \in Sessions : handler[s].pc \in {"new", "redeemed", "connected"} => ~Held(s)
  BY DEF IndInv, LogInv
<1>1. ASSUME registry' \subseteq registry, closing' = closing,
             \A s \in Sessions : s \in registry => handler'[s].pc \in {"recording", "pumping"}
      PROVE  HeldInv'
  BY <1>0, <1>1 DEF HeldInv
<1>2. CASE UNCHANGED handler /\ UNCHANGED closing /\ registry' \subseteq registry
  BY <1>0, <1>1, <1>2 DEF HeldInv
<1>3. ASSUME NEW s \in Sessions, NEW n \in 1 .. minted, NEW d \in Devices, Attach(s, n, d)
      PROVE  HeldInv'
  <2>1. n \in Nat
    BY <1>0 DEF Types
  <2>2. s \notin registry
    BY <1>l, <1>3, <2>1, <1>0, Attached DEF Held
  <2> QED
    BY <1>0, <1>1, <1>3, <2>1, <2>2, Attached DEF Attach, HeldInv
<1>4. ASSUME NEW s \in Sessions, Connect(s) \/ ConnectFails(s) PROVE HeldInv'
  <2>1. s \notin registry
    BY <1>l, <1>4 DEF Connect, ConnectFails, Held
  <2> QED
    BY <1>0, <1>1, <1>4, <2>1, Progress DEF Connect, ConnectFails, Moves, HeldInv
<1>5. ASSUME NEW s \in Sessions, Register(s) PROVE HeldInv'
  <2>1. ~Held(s)
    BY <1>l, <1>5 DEF Register
  <2>2. CASE FullAtRegister
    BY <1>0, <1>1, <1>5, <2>1, <2>2, Progress DEF Register, Moves, HeldInv, Held
  <2>3. CASE ~FullAtRegister
    <3>1. registry' \subseteq registry \cup {s} /\ closing' = closing /\ Moves(s, "recording")
      BY <1>0, <1>5, <2>3, Progress DEF Register
    <3> QED
      BY <1>0, <2>1, <3>1 DEF Moves, HeldInv, Held
  <2> QED
    BY <2>2, <2>3
<1>6. ASSUME NEW s \in Sessions, RecordConnected(s) PROVE HeldInv'
  BY <1>0, <1>1, <1>6, Progress DEF RecordConnected, Moves, HeldInv
<1>7. ASSUME NEW s \in Sessions, EndPump(s) PROVE HeldInv'
  <2>1. Moves(s, "ended") /\ registry' = registry \ {s}
    BY <1>0, <1>7, Progress DEF EndPump, Pop
  <2>2. \A r \in Sessions, who \in Ends :
          <<r, who>> \in closing' =>
            <<r, who>> \in closing \/ (r = s /\ who = "pump" /\ s \in registry)
    BY <1>7 DEF EndPump
  <2> QED
    BY <1>0, <2>1, <2>2 DEF HeldInv, Moves, Ends
<1>8. ASSUME NEW s \in Sessions, Disconnect(s) PROVE HeldInv'
  <2>1. UNCHANGED handler /\ registry' = registry \ {s} /\ s \in registry
    BY <1>8 DEF Disconnect, Pop
  <2>2. \A r \in Sessions, who \in Ends :
          <<r, who>> \in closing' => <<r, who>> \in closing \/ (r = s /\ who = "list")
    BY <1>8 DEF Disconnect
  <2> QED
    BY <1>0, <2>1, <2>2 DEF HeldInv, Ends
<1>9. ASSUME NEW s \in Sessions, NEW who \in Ends, FinishClose(s, who) PROVE HeldInv'
  BY <1>0, <1>9 DEF HeldInv, FinishClose
<1>10. CASE \E s \in Sessions : Touch(s) \/ TabCloses(s)
  BY <1>2, <1>10 DEF Touch, TabCloses
<1>11. CASE \E d \in Devices : ShowKey(d) \/ (\E k \in HostKeys : AcceptKey(d, k) \/ Rekey(d, k))
                               \/ MintToken(d)
  BY <1>2, <1>11 DEF ShowKey, AcceptKey, Rekey, MintToken
<1>12. CASE ExpireDue \/ ClockTick
  BY <1>2, <1>12 DEF ExpireDue, ClockTick
<1> QED
  BY <1>3, <1>4, <1>5, <1>6, <1>7, <1>8, <1>9, <1>10, <1>11, <1>12 DEF ConsoleNext, Ends

\* The audit keeps following the handler.
LEMMA LogStep == IndInv /\ ConsoleNext => LogInv'
<1> SUFFICES ASSUME IndInv, ConsoleNext PROVE LogInv'
  OBVIOUS
<1>0. Types /\ LogInv /\ HeldInv
  BY DEF IndInv
<1>1. ASSUME UNCHANGED log, \A r \in Sessions : Held(r)' => Held(r),
             \A r \in Sessions :
               \/ handler'[r].pc = handler[r].pc
               \/ /\ handler[r].pc \in {"new", "redeemed", "connected"}
                  /\ handler'[r].pc \in {"redeemed", "connected", "ended"}
               \/ handler[r].pc = "pumping" /\ handler'[r].pc = "ended"
      PROVE  LogInv'
  <2> SUFFICES ASSUME NEW r \in Sessions
               PROVE  LogInv!(r)'
    BY DEF LogInv
  <2>1. LogInv!(r)
    BY <1>0 DEF LogInv
  <2>2. log'[r] = log[r] /\ (Held(r)' => Held(r))
    BY <1>1
  <2>3. CASE handler'[r].pc = handler[r].pc
    BY <2>1, <2>2, <2>3
  <2>4. CASE /\ handler[r].pc \in {"new", "redeemed", "connected"}
             /\ handler'[r].pc \in {"redeemed", "connected", "ended"}
    BY <2>1, <2>2, <2>4
  <2>5. CASE handler[r].pc = "pumping" /\ handler'[r].pc = "ended"
    BY <2>1, <2>2, <2>5
  <2> QED
    BY <1>1, <2>3, <2>4, <2>5
<1>2. CASE UNCHANGED <<handler, closing, log>> /\ registry' \subseteq registry
  BY <1>1, <1>2 DEF Held
<1>3. ASSUME NEW s \in Sessions, NEW n \in 1 .. minted, NEW d \in Devices, Attach(s, n, d)
      PROVE  LogInv'
  <2>1. n \in Nat
    BY <1>0 DEF Types
  <2>2. UNCHANGED <<closing, log, registry>>
    BY <1>3 DEF Attach
  <2>3. /\ \A r \in Sessions : r # s => handler'[r] = handler[r]
        /\ handler[s].pc = "new" /\ handler'[s].pc \in {"redeemed", "ended"}
    BY <1>0, <1>3, <2>1, Attached
  <2> QED
    BY <1>1, <2>2, <2>3 DEF Held
<1>4. ASSUME NEW s \in Sessions, Connect(s) \/ ConnectFails(s) PROVE LogInv'
  <2>1. handler[s].pc = "redeemed" /\ UNCHANGED <<closing, log, registry>>
    BY <1>4 DEF Connect, ConnectFails
  <2>2. Moves(s, "connected") \/ Moves(s, "ended")
    BY <1>0, <1>4, Progress
  <2> QED
    BY <1>1, <2>1, <2>2 DEF Held, Moves
<1>5. ASSUME NEW s \in Sessions, Register(s) PROVE LogInv'
  <2>1. handler[s].pc = "connected" /\ UNCHANGED <<closing, log>>
    BY <1>5 DEF Register
  <2>2. CASE FullAtRegister
    <3>1. Moves(s, "ended") /\ registry' \subseteq registry
      BY <1>0, <1>5, <2>2, Progress DEF Register
    <3> QED
      BY <1>1, <2>1, <3>1 DEF Held, Moves
  <2>3. CASE ~FullAtRegister
    <3>1. Moves(s, "recording") /\ registry' \subseteq registry \cup {s}
      BY <1>0, <1>5, <2>3, Progress DEF Register
    <3>2. \A r \in Sessions : r # s => (Held(r)' => Held(r))
      BY <2>1, <3>1 DEF Held
    <3>3. log'[s] = <<>>
      BY <1>0, <2>1 DEF LogInv
    <3> QED
      BY <1>0, <2>1, <3>1, <3>2, <3>3 DEF LogInv, Moves
  <2> QED
    BY <2>2, <2>3
<1>6. ASSUME NEW s \in Sessions, RecordConnected(s) PROVE LogInv'
  <2>1. Moves(s, "pumping") /\ UNCHANGED <<registry, closing>>
    BY <1>0, <1>6, Progress DEF RecordConnected
  <2>2. handler[s].pc = "recording" /\ log[s] \in {<<>>, <<"disconnected">>}
    BY <1>0, <1>6 DEF RecordConnected, LogInv
  <2>3. /\ \A r \in Sessions : r # s => log'[r] = log[r]
        /\ log'[s] = Append(log[s], "connected")
    BY <1>0, <1>6 DEF RecordConnected, Types
  <2>4. \A r \in Sessions : Held(r)' => Held(r)
    BY <2>1 DEF Held
  <2>5. Held(s) => log[s] = <<>>
    BY <1>0, <2>2 DEF LogInv
  <2>6. log'[s] # <<"disconnected">> /\ (Held(s)' => log'[s] = <<"connected">>)
    <3>1. <<"connected">> # <<"disconnected">> /\ <<"disconnected", "connected">> # <<"disconnected">>
      OBVIOUS
    <3> QED
      BY <2>2, <2>3, <2>4, <2>5, <3>1, Appended
  <2> QED
    BY <1>0, <2>1, <2>3, <2>4, <2>6 DEF LogInv, Moves
<1>7. ASSUME NEW s \in Sessions, EndPump(s) PROVE LogInv'
  <2>1. Moves(s, "ended") /\ handler[s].pc = "pumping" /\ UNCHANGED log
    BY <1>0, <1>7, Progress DEF EndPump
  <2>2. \A r \in Sessions : Held(r)' => Held(r)
    BY <1>7 DEF EndPump, Pop, Held
  <2> QED
    BY <1>1, <2>1, <2>2 DEF Moves
<1>8. ASSUME NEW s \in Sessions, Disconnect(s) PROVE LogInv'
  <2>1. \A r \in Sessions : Held(r)' => Held(r)
    BY <1>8 DEF Disconnect, Pop, Held
  <2>2. UNCHANGED <<handler, log>>
    BY <1>8 DEF Disconnect
  <2> QED
    BY <1>1, <2>1, <2>2
\* the end of a session that was held is recorded once
<1>9. ASSUME NEW S \in SUBSET Sessions, \A r \in S : Held(r) /\ ~Held(r)',
             UNCHANGED handler, \A r \in Sessions : Held(r)' => Held(r),
             \A r \in Sessions :
               log'[r] = IF r \in S THEN Append(log[r], "disconnected") ELSE log[r]
      PROVE  LogInv'
  <2> SUFFICES ASSUME NEW r \in Sessions
               PROVE  LogInv!(r)'
    BY DEF LogInv
  <2>1. LogInv!(r)
    BY <1>0 DEF LogInv
  <2>2. CASE r \notin S
    BY <1>9, <2>1, <2>2
  <2>3. CASE r \in S
    <3>1. Held(r) /\ ~Held(r)' /\ handler'[r] = handler[r]
      BY <1>9, <2>3
    <3>2. log'[r] = IF handler[r].pc = "recording" THEN <<"disconnected">>
                    ELSE <<"connected", "disconnected">>
      BY <1>9, <2>1, <2>3, <3>1, Appended
    <3>3. <<"connected", "disconnected">> # <<"disconnected">>
      OBVIOUS
    <3> QED
      BY <2>1, <3>1, <3>2, <3>3
  <2> QED
    BY <2>2, <2>3
<1>10. ASSUME NEW s \in Sessions, NEW who \in Ends, FinishClose(s, who) PROVE LogInv'
  <2>1. UNCHANGED <<handler, registry>> /\ closing' = closing \ {<<s, who>>} /\ <<s, who>> \in closing
    BY <1>10 DEF FinishClose
  <2>2. Held(s)
    BY <2>1 DEF Held
  <2>3. ~Held(s)'
    BY <1>0, <2>1 DEF Held, HeldInv, Ends
  <2>4. \A r \in Sessions : Held(r)' => Held(r)
    BY <2>1 DEF Held
  <2>5. \A r \in Sessions :
          log'[r] = IF r \in {s} THEN Append(log[r], "disconnected") ELSE log[r]
    BY <1>0, <1>10 DEF FinishClose, Types
  <2> QED
    BY <1>9, <2>1, <2>2, <2>3, <2>4, <2>5
<1>11. CASE ExpireDue
  <2>1. registry' = registry \ Reaped /\ UNCHANGED <<handler, closing>>
    BY <1>11 DEF ExpireDue
  <2>2. Reaped \subseteq registry /\ Reaped \in SUBSET Sessions
    BY <1>0 DEF Reaped, Types
  <2>3. \A r \in Reaped : Held(r) /\ ~Held(r)'
    BY <1>0, <2>1, <2>2 DEF Held, HeldInv
  <2>4. \A r \in Sessions : Held(r)' => Held(r)
    BY <2>1 DEF Held
  <2>5. \A r \in Sessions :
          log'[r] = IF r \in Reaped THEN Append(log[r], "disconnected") ELSE log[r]
    BY <1>11 DEF ExpireDue
  <2> QED
    BY <1>9, <2>1, <2>2, <2>3, <2>4, <2>5
<1>12. CASE ClockTick \/ \E s \in Sessions : Touch(s) \/ TabCloses(s)
  BY <1>2, <1>12 DEF ClockTick, Touch, TabCloses
<1>13. CASE \E d \in Devices : ShowKey(d) \/ (\E k \in HostKeys : AcceptKey(d, k) \/ Rekey(d, k))
                               \/ MintToken(d)
  BY <1>2, <1>13 DEF ShowKey, AcceptKey, Rekey, MintToken
<1> QED
  BY <1>3, <1>4, <1>5, <1>6, <1>7, <1>8, <1>10, <1>11, <1>12, <1>13 DEF ConsoleNext, Ends

\* An open connection keeps somebody who will close it.
LEMMA OrphanStep == IndInv /\ ConsoleNext => ConsoleNoOrphan'
<1> SUFFICES ASSUME IndInv, ConsoleNext PROVE ConsoleNoOrphan'
  OBVIOUS
<1> DEFINE Kept(s) == handler[s].pc = "connected" \/ Held(s)
<1>0. Types
  BY DEF IndInv
<1>k. \A s \in Sessions : ssh[s] = "open" => Kept(s)
  BY DEF IndInv, ConsoleNoOrphan, Held, Ends
<1>g. (\A s \in Sessions : ssh'[s] = "open" => Kept(s)') => ConsoleNoOrphan'
  BY DEF ConsoleNoOrphan, Held, Ends
<1>1. ASSUME \A r \in Sessions : ssh'[r] = "open" => ssh[r] = "open" /\ (Kept(r) => Kept(r)')
      PROVE  ConsoleNoOrphan'
  BY <1>k, <1>g, <1>1
<1>2. ASSUME UNCHANGED <<handler, closing>>, registry' = registry \ Reaped,
             ssh' = ClosedSsh(Reaped)
      PROVE  ConsoleNoOrphan'
  <2>1. \A r \in Sessions : ssh'[r] = "open" => ssh[r] = "open" /\ r \notin Reaped
    BY <1>0, <1>2, ClosedTypes
  <2> QED
    BY <1>1, <1>2, <2>1 DEF Held
<1>3. ASSUME NEW s \in Sessions, NEW n \in 1 .. minted, NEW d \in Devices, Attach(s, n, d)
      PROVE  ConsoleNoOrphan'
  <2>1. n \in Nat
    BY <1>0 DEF Types
  <2>2. UNCHANGED <<closing, ssh, registry>>
    BY <1>3 DEF Attach
  <2>3. (\A r \in Sessions : r # s => handler'[r] = handler[r]) /\ handler[s].pc = "new"
    BY <1>0, <1>3, <2>1, Attached
  <2> QED
    BY <1>1, <2>2, <2>3 DEF Held
<1>4. ASSUME NEW s \in Sessions, Connect(s) PROVE ConsoleNoOrphan'
  <2>1. Moves(s, "connected") /\ UNCHANGED <<closing, registry>>
    BY <1>0, <1>4, Progress DEF Connect
  <2>2. \A r \in Sessions : r # s => ssh'[r] = ssh[r]
    BY <1>0, <1>4 DEF Connect, Types
  <2> QED
    BY <1>k, <1>g, <2>1, <2>2 DEF Held, Moves
<1>5. ASSUME NEW s \in Sessions, ConnectFails(s) \/ RecordConnected(s) PROVE ConsoleNoOrphan'
  <2>1. /\ \A r \in Sessions : r # s => handler'[r] = handler[r]
        /\ handler[s].pc # "connected" /\ UNCHANGED <<closing, registry, ssh>>
    BY <1>0, <1>5, Progress DEF ConnectFails, RecordConnected, Moves
  <2> QED
    BY <1>1, <2>1 DEF Held
<1>6. ASSUME NEW s \in Sessions, Register(s) PROVE ConsoleNoOrphan'
  <2>0. UNCHANGED closing
    BY <1>6 DEF Register
  <2>1. CASE FullAtRegister
    <3>1. Moves(s, "ended") /\ registry' = registry \ Reaped /\ ssh' = ClosedSsh(Reaped \cup {s})
      BY <1>0, <1>6, <2>1, Progress DEF Register, TurnedAway
    <3>2. \A r \in Sessions : ssh'[r] = "open" => ssh[r] = "open" /\ r \notin Reaped /\ r # s
      BY <1>0, <3>1, ClosedTypes
    <3> QED
      BY <1>1, <2>0, <3>1, <3>2 DEF Moves, Held
  <2>2. CASE ~FullAtRegister
    <3>1. /\ Moves(s, "recording") /\ registry' = (registry \ Reaped) \cup {s}
          /\ ssh' = ClosedSsh(Reaped)
      BY <1>0, <1>6, <2>2, Progress DEF Register
    <3>2. \A r \in Sessions : ssh'[r] = "open" => ssh[r] = "open" /\ r \notin Reaped
      BY <1>0, <3>1, ClosedTypes
    <3> QED
      BY <1>1, <2>0, <3>1, <3>2 DEF Moves, Held
  <2> QED
    BY <2>1, <2>2
<1>7. ASSUME NEW s \in Sessions, EndPump(s) PROVE ConsoleNoOrphan'
  <2>1. Moves(s, "ended") /\ handler[s].pc = "pumping" /\ UNCHANGED ssh
    BY <1>0, <1>7, Progress DEF EndPump
  <2>2. /\ registry' = registry \ {s} /\ closing \subseteq closing'
        /\ s \in registry => <<s, "pump">> \in closing'
    BY <1>7 DEF EndPump, Pop
  <2> QED
    BY <1>1, <2>1, <2>2 DEF Moves, Held, Ends
<1>8. ASSUME NEW s \in Sessions, Disconnect(s) PROVE ConsoleNoOrphan'
  <2>1. UNCHANGED <<handler, ssh>> /\ registry' = registry \ {s} /\ closing \subseteq closing'
        /\ <<s, "list">> \in closing'
    BY <1>8 DEF Disconnect, Pop
  <2> QED
    BY <1>1, <2>1 DEF Held, Ends
<1>9. ASSUME NEW s \in Sessions, NEW who \in Ends, FinishClose(s, who) PROVE ConsoleNoOrphan'
  <2>1. /\ UNCHANGED <<handler, registry>> /\ closing' = closing \ {<<s, who>>}
        /\ ssh' = ClosedSsh({s})
    BY <1>9 DEF FinishClose
  <2>2. \A r \in Sessions : ssh'[r] = "open" => ssh[r] = "open" /\ r # s
    BY <1>0, <2>1, ClosedTypes
  <2> QED
    BY <1>1, <2>1, <2>2 DEF Held
<1>10. CASE ExpireDue \/ \E d \in Devices : MintToken(d)
  BY <1>2, <1>10 DEF ExpireDue, MintToken
<1>11. CASE UNCHANGED <<handler, closing, registry, ssh>>
  BY <1>1, <1>11 DEF Held
<1>12. CASE ClockTick \/ \E s \in Sessions : Touch(s) \/ TabCloses(s)
  BY <1>11, <1>12 DEF ClockTick, Touch, TabCloses
<1>13. CASE \E d \in Devices : ShowKey(d) \/ \E k \in HostKeys : AcceptKey(d, k) \/ Rekey(d, k)
  BY <1>11, <1>13 DEF ShowKey, AcceptKey, Rekey
<1> QED
  BY <1>3, <1>4, <1>5, <1>6, <1>7, <1>8, <1>9, <1>10, <1>12, <1>13 DEF ConsoleNext, Ends

\* A token is given out once and redeemed once.
LEMMA TokensStep == IndInv /\ ConsoleNext => TokensInv'
<1> SUFFICES ASSUME IndInv, ConsoleNext PROVE TokensInv'
  OBVIOUS
<1>0. Types /\ TokensInv
  BY DEF IndInv
<1>t. minted \in Nat /\ (\A t \in tickets : t.number \in Nat \ {0}) /\ \A s \in Sessions : handler[s].token \in Nat
  BY <1>0 DEF Types, Tickets, Handlers
<1>1. ASSUME UNCHANGED minted, \A t \in tickets' : \E u \in tickets : t.number = u.number,
             \A r \in Sessions : /\ handler'[r].token = handler[r].token
                                 /\ handler'[r].device = handler[r].device
                                 /\ handler'[r].pc = "redeemed" => handler[r].pc = "redeemed"
      PROVE  TokensInv'
  BY <1>0, <1>1 DEF TokensInv, ConsoleTokenOnce
<1>2. ASSUME NEW d \in Devices, MintToken(d) PROVE TokensInv'
  <2>1. CASE UNCHANGED <<tickets, minted>>
    BY <1>1, <1>2, <2>1 DEF MintToken
  <2>2. CASE ~Full
    <3>1. minted' = minted + 1 /\ UNCHANGED handler
      BY <1>2, <2>2 DEF MintToken
    <3>2. \A t \in tickets' : t \in tickets \/ t.number = minted + 1
      BY <1>2, <2>2 DEF MintToken
    <3>3. \A t \in tickets' : t.number <= minted'
      BY <1>0, <1>t, <3>1, <3>2 DEF TokensInv
    <3>4. \A r \in Sessions : /\ handler[r].token <= minted'
                              /\ handler[r].token # 0 =>
                                   \A t \in tickets' : t.number # handler[r].token
      BY <1>0, <1>t, <3>1, <3>2 DEF TokensInv
    <3> QED
      BY <1>0, <3>1, <3>3, <3>4 DEF TokensInv, ConsoleTokenOnce
  <2> QED
    BY <1>2, <2>1, <2>2 DEF MintToken
<1>3. ASSUME NEW s \in Sessions, NEW n \in 1 .. minted, NEW d \in Devices, Attach(s, n, d)
      PROVE  TokensInv'
  <2>1. n \in Nat /\ n # 0 /\ n <= minted
    BY <1>t
  <2>2. UNCHANGED minted /\ \A t \in tickets' : t \in tickets /\ t.number # n
    BY <1>3 DEF Attach, Spent
  <2>3. \A r \in Sessions : r # s => handler'[r] = handler[r]
    BY <1>0, <1>3, <2>1, Attached
  <2>4. CASE /\ handler'[s].pc = "redeemed" /\ handler'[s].token = n /\ handler'[s].device = d
             /\ \E t \in tickets : t.number = n
    <3>1. \A r \in Sessions : handler[r].token # n
      BY <1>0, <2>1, <2>4 DEF TokensInv
    <3> QED
      BY <1>0, <2>1, <2>2, <2>3, <2>4, <3>1 DEF TokensInv, ConsoleTokenOnce
  <2>5. CASE handler'[s].pc = "ended" /\ handler'[s].token = 0
    BY <1>0, <1>t, <2>1, <2>2, <2>3, <2>5 DEF TokensInv, ConsoleTokenOnce
  <2> QED
    BY <1>0, <1>3, <2>1, <2>4, <2>5, Attached
<1>4. ASSUME NEW s \in Sessions, NEW pc \in Stages, Moves(s, pc), pc # "redeemed",
             UNCHANGED <<minted, tickets>>
      PROVE  TokensInv'
  BY <1>1, <1>4 DEF Moves
<1>5. ASSUME NEW s \in Sessions,
             Connect(s) \/ ConnectFails(s) \/ Register(s) \/ RecordConnected(s) \/ EndPump(s)
      PROVE  TokensInv'
  <2>1. UNCHANGED <<minted, tickets>>
    BY <1>5 DEF Connect, ConnectFails, Register, RecordConnected, EndPump
  <2>2. \E pc \in Stages : pc # "redeemed" /\ Moves(s, pc)
    BY <1>0, <1>5, Progress DEF Stages
  <2> QED
    BY <1>4, <2>1, <2>2
<1>6. CASE ClockTick
  <2>1. \A t \in tickets : [t EXCEPT !.life = @ - 1].number = t.number
    BY <1>0 DEF Types, Tickets
  <2> QED
    BY <1>1, <1>6, <2>1 DEF ClockTick
<1>7. CASE UNCHANGED <<minted, tickets, handler>>
  BY <1>1, <1>7
<1>8. CASE ExpireDue \/ \E s \in Sessions : \/ Touch(s) \/ TabCloses(s) \/ Disconnect(s)
                                            \/ \E who \in Ends : FinishClose(s, who)
  BY <1>7, <1>8 DEF ExpireDue, Touch, TabCloses, Disconnect, FinishClose
<1>9. CASE \E d \in Devices : ShowKey(d) \/ \E k \in HostKeys : AcceptKey(d, k) \/ Rekey(d, k)
  BY <1>7, <1>9 DEF ShowKey, AcceptKey, Rekey
<1> QED
  BY <1>2, <1>3, <1>5, <1>6, <1>8, <1>9 DEF ConsoleNext, Ends

\* A key gets into the store only from an operator, and into a session only from
\* the store.
LEMMA ShownStep == IndInv /\ ConsoleNext => ConsoleKeysWereShown'
<1> SUFFICES ASSUME IndInv, ConsoleNext PROVE ConsoleKeysWereShown'
  OBVIOUS
<1>0. Types /\ ConsoleKeysWereShown
  BY DEF IndInv
<1>1. ASSUME shown \subseteq shown', UNCHANGED trusted,
             \A r \in Sessions : handler'[r].key # NoHostKey =>
               /\ handler'[r].key = handler[r].key
               /\ handler'[r].device = handler[r].device
      PROVE  ConsoleKeysWereShown'
  BY <1>0, <1>1 DEF ConsoleKeysWereShown
<1>2. ASSUME NEW d \in Devices, NEW k \in HostKeys, AcceptKey(d, k) PROVE ConsoleKeysWereShown'
  <2>1. <<d, k>> \in shown /\ trusted' = [trusted EXCEPT ![d] = k] /\ UNCHANGED <<shown, handler>>
    BY <1>2 DEF AcceptKey, AcceptableKey
  <2> QED
    BY <1>0, <2>1 DEF ConsoleKeysWereShown, Types
<1>3. ASSUME NEW s \in Sessions, NEW n \in 1 .. minted, NEW d \in Devices, Attach(s, n, d)
      PROVE  ConsoleKeysWereShown'
  <2>1. n \in Nat
    BY <1>0 DEF Types
  <2>2. (\A r \in Sessions : r # s => handler'[r] = handler[r]) /\ handler'[s].key = NoHostKey
    BY <1>0, <1>3, <2>1, Attached
  <2> QED
    BY <1>1, <1>3, <2>2 DEF Attach
<1>4. ASSUME NEW s \in Sessions, Connect(s) PROVE ConsoleKeysWereShown'
  <2>1. Moves(s, "connected") /\ handler'[s].key = presents[handler[s].device]
    BY <1>0, <1>4, Progress
  <2>2. handler[s].device \in Devices /\ trusted[handler[s].device] = presents[handler[s].device]
    BY <1>4 DEF Connect, Verifies, IndInv, TokensInv
  <2>3. UNCHANGED <<shown, trusted>>
    BY <1>4 DEF Connect
  <2> QED
    BY <1>0, <2>1, <2>2, <2>3 DEF ConsoleKeysWereShown, Moves
<1>5. ASSUME NEW s \in Sessions,
             ConnectFails(s) \/ Register(s) \/ RecordConnected(s) \/ EndPump(s)
      PROVE  ConsoleKeysWereShown'
  <2>1. UNCHANGED <<shown, trusted>>
    BY <1>5 DEF ConnectFails, Register, RecordConnected, EndPump
  <2>2. /\ handler'[s].key = handler[s].key /\ handler'[s].device = handler[s].device
        /\ \A r \in Sessions : r # s => handler'[r] = handler[r]
    BY <1>0, <1>5, Progress DEF Moves
  <2> QED
    BY <1>1, <2>1, <2>2
<1>6. CASE \E d \in Devices : ShowKey(d) \/ MintToken(d) \/ \E k \in HostKeys : Rekey(d, k)
  BY <1>1, <1>6 DEF ShowKey, MintToken, Rekey
<1>7. CASE \/ ExpireDue \/ ClockTick
           \/ \E s \in Sessions : \/ Touch(s) \/ TabCloses(s) \/ Disconnect(s)
                                  \/ \E who \in Ends : FinishClose(s, who)
  BY <1>1, <1>7 DEF ExpireDue, ClockTick, Touch, TabCloses, Disconnect, FinishClose
<1> QED
  BY <1>2, <1>3, <1>4, <1>5, <1>6, <1>7 DEF ConsoleNext, Ends

---------------------------------------------------------------------------
(* The theorems.                                                           *)

LEMMA ConsoleInvariant == ConsoleSpec => []IndInv
<1>1. IndInv /\ [ConsoleNext]_consoleVars => IndInv'
  <2> SUFFICES ASSUME IndInv, [ConsoleNext]_consoleVars PROVE IndInv'
    OBVIOUS
  <2>1. CASE ConsoleNext
    <3>1. Types' /\ CapacityInv' /\ HeldInv' /\ LogInv'
      BY <2>1, TypesStep, CapacityStep, HeldStep, LogStep
    <3>2. ConsoleNoOrphan' /\ TokensInv' /\ ConsoleKeysWereShown'
      BY <2>1, OrphanStep, TokensStep, ShownStep
    <3> QED
      BY <3>1, <3>2 DEF IndInv
  <2>2. CASE UNCHANGED consoleVars
    BY <2>2 DEF consoleVars, IndInv, Types, CapacityInv, ConsoleCapacity, HeldInv, LogInv, Held,
                ConsoleNoOrphan, TokensInv, ConsoleTokenOnce, ConsoleKeysWereShown
  <2> QED
    BY <2>1, <2>2
<1> QED
  BY <1>1, InitInv, PTL DEF ConsoleSpec

\* However many handlers race from the check at the token to register, no more
\* sessions than the maximum are registered, every open connection is
\* registered or about to be closed, and its audit has each event once.
THEOREM SpecConsoleSound == ConsoleSpec => []ConsoleSound
<1>1. IndInv => ConsoleSound
  <2> SUFFICES ASSUME IndInv PROVE ConsoleSound
    OBVIOUS
  <2>1. ASSUME NEW h \in Histories PROVE Len(h) <= 2 /\ (Len(h) = 2 => h[1] # h[2])
    <3>1. CASE h = <<>>
      BY <3>1
    <3>2. ASSUME NEW x, h = <<x>> PROVE Len(h) = 1
      BY <3>2
    <3>3. ASSUME NEW x, NEW y, h = <<x, y>>
          PROVE  Len(h) = 2 /\ h[1] = x /\ h[2] = y
      BY <3>3
    <3>4. CASE h \in {<<"connected">>, <<"disconnected">>}
      <4>1. Len(h) = 1
        BY <3>2, <3>4
      <4> QED
        BY <4>1
    <3>5. CASE h \in {<<"connected", "disconnected">>, <<"disconnected", "connected">>}
      BY <3>3, <3>5
    <3> QED
      BY <3>1, <3>4, <3>5 DEF Histories
  <2>2. ConsoleTypeOK
    BY <2>1 DEF IndInv, Types, HeldInv, ConsoleTypeOK
  <2> QED
    BY <2>2 DEF IndInv, CapacityInv, ConsoleSound
<1> QED
  BY <1>1, ConsoleInvariant, PTL

\* A token opens one console, whoever presents it again, and only to a device
\* whose key an operator was shown, whatever the device presents by then.
THEOREM SpecConsoleTrust == ConsoleSpec => []ConsoleTrust
<1>1. IndInv => ConsoleTrust
  BY DEF IndInv, TokensInv, ConsoleTrust
<1> QED
  BY <1>1, ConsoleInvariant, PTL

---------------------------------------------------------------------------
(* Crawl                                                                   *)

Hosts == DOMAIN network

Neighbors(h) == ToSet(network[h].neighbors)

\* What a visit may be of: a host, or a neighbor's name.
Mentionable == Hosts \cup {x.name : x \in UNION {Neighbors(h) : h \in Hosts}}

Taken == [host : Hosts, depth : 0 .. MaxDepth]

Discovered ==
    [id : {network[h].id : h \in Hosts}, serial : {network[h].serial : h \in Hosts},
     host : Hosts, depth : 0 .. MaxDepth]

Mention ==
    [host : Mentionable, depth : 0 .. MaxDepth,
     status : HostVisits \cup {"boundary", "unresolved", "noaddress"}]

CrawlTypes ==
    /\ network \in Networks /\ seeds \in SeedLists
    /\ crawl \in {"ready", "attempting", "integrating", "reported", "raised"}
    /\ queue \in Seq(Taken) /\ wave \in Seq(Taken)
    /\ answered \in Seq(Nat) /\ integrated \in Nat
    /\ found \in Seq(Discovered) /\ visits \in Seq(Mention) /\ order \in Seq(Hosts)
    /\ enqueued \in SUBSET Hosts

\* The attempts of a wave: each of its first hosts once, within the budget.
AnswersInv ==
    /\ crawl = "attempting" =>
         /\ integrated = 0 /\ ToSet(answered) \subseteq Attempted
         /\ \A i, j \in DOMAIN answered : answered[i] = answered[j] => i = j
    /\ crawl = "integrating" => integrated <= Len(answered) /\ Len(answered) <= Len(wave)
    /\ Len(found) <= MaxDevices

\* The neighbors that were not looked at are those of the last result, which is
\* not at the edge.
AheadInv ==
    ahead # <<>> =>
        /\ crawl = "integrating" /\ found # <<>> /\ Last(found).depth < MaxDepth
        /\ ahead \in Seq(Neighbors(Last(found).host))

IsHostVisit(v) == v.status \in HostVisits

\* How many hosts the first visits are of.
Rank(s, i) == Cardinality({k \in 1 .. i : IsHostVisit(s[k])})

\* The visits of hosts are of the first hosts that were taken, in order.
Tally(s, hosts) ==
    /\ \A i \in DOMAIN s : IsHostVisit(s[i]) => Rank(s, i) \in DOMAIN hosts /\ s[i].host = hosts[Rank(s, i)]
    /\ \A k \in 1 .. Rank(s, Len(s)) : \E i \in DOMAIN s : IsHostVisit(s[i]) /\ s[i].host = hosts[k]

Busy == crawl \in {"attempting", "integrating"}

\* The others that were taken are the rest of the wave.
VisitsInv ==
    /\ Tally(visits, order)
    /\ Busy =>
         /\ Len(order) = Rank(visits, Len(visits)) + (Len(wave) - integrated)
         /\ \A k \in 1 .. Len(wave) - integrated :
              order[Rank(visits, Len(visits)) + k] = wave[integrated + k].host
    /\ crawl \in {"ready", "reported"} => Len(order) = Rank(visits, Len(visits))
    /\ crawl = "reported" => queue = <<>>

\* A host was taken or is on the queue, once, when it was ever enqueued.
OnceInv ==
    /\ \A i, j \in DOMAIN order : order[i] = order[j] => i = j
    /\ \A i, j \in DOMAIN queue : queue[i].host = queue[j].host => i = j
    /\ \A i \in DOMAIN queue : \A k \in DOMAIN order : queue[i].host # order[k]
    /\ \A h \in enqueued : (\E k \in DOMAIN order : h = order[k]) \/ \E i \in DOMAIN queue : h = queue[i].host
    /\ \A k \in DOMAIN order : order[k] \in enqueued
    /\ \A i \in DOMAIN queue : queue[i].host \in enqueued
    /\ \A i \in DOMAIN seeds : seeds[i] \in enqueued

\* The waves go down one level after the other.
AtLevel(d) ==
    /\ crawl = "ready" =>
         /\ \A i \in DOMAIN queue : queue[i].depth = d
         /\ \A i \in DOMAIN found : found[i].depth < d
         /\ \A i \in DOMAIN visits : visits[i].depth <= d
         /\ d = 0 => found = <<>> /\ Len(queue) = Len(seeds)
    /\ Busy =>
         /\ \A i \in DOMAIN wave : wave[i].depth = d
         /\ \A i \in DOMAIN queue : queue[i].depth = d + 1
         /\ \A i \in DOMAIN found : found[i].depth <= d
         /\ \A i \in DOMAIN visits : visits[i].depth <= d + 1
         /\ d = 0 => Len(wave) = Len(seeds) /\ Len(found) <= integrated
         /\ ahead # <<>> => Last(found).depth = d

LevelInv == \E d \in Nat : AtLevel(d)

\* The depth of a host that is no seed is one more than that of the first
\* result that advertised it, and no result that advertises it is nearer.
NearestDepth(host, depth) ==
    IF host \in ToSet(seeds) THEN depth = 0
    ELSE /\ \E j \in DOMAIN found : Advertises(found[j], host) /\ depth = 1 + found[j].depth
         /\ \A j \in DOMAIN found : Advertises(found[j], host) => depth <= 1 + found[j].depth

NearestInv ==
    /\ \A i \in DOMAIN visits : IsHostVisit(visits[i]) => NearestDepth(visits[i].host, visits[i].depth)
    /\ \A i \in DOMAIN wave : NearestDepth(wave[i].host, wave[i].depth)
    /\ \A i \in DOMAIN queue : NearestDepth(queue[i].host, queue[i].depth)

\* A neighbor that the crawl looked at was enqueued if it may be followed, and
\* is in the report or will be.
LookedAt(j, n) ==
    /\ found[j].depth < MaxDepth
    /\ n \in Neighbors(found[j].host)
    /\ j = Len(found) => n \notin ToSet(ahead)

LookedAtInv ==
    \A j \in DOMAIN found : \A n \in Neighbors(found[j].host) : LookedAt(j, n) =>
        /\ MayBeFollowed(n) => n.address \in enqueued
        /\ n.address \in enqueued \/ \E i \in DOMAIN visits : visits[i].host \in {n.address, n.name}

\* What a marker is visited as.
PaperName(m) == IF m[2] \in {"routing", "noaddress", NoAddress} THEN m[1] ELSE m[2]

\* What a marker stands for was visited, on paper.
MarkersInv == \A m \in markers : \E i \in DOMAIN visits : visits[i].host = PaperName(m)

CrawlInv ==
    /\ CrawlTypes /\ AnswersInv /\ AheadInv /\ VisitsInv /\ OnceInv /\ LevelInv /\ NearestInv
    /\ LookedAtInv /\ MarkersInv
    /\ CrawlDevicesDistinct /\ CrawlRaisesOnlyEmpty

---------------------------------------------------------------------------
(* Crawl: the ranks of visits                                              *)

LEMMA RankIs ==
    ASSUME NEW s, NEW i \in Nat
    PROVE  Rank(s, i) \in Nat /\ IsFiniteSet({k \in 1 .. i : IsHostVisit(s[k])})
<1> DEFINE ranked == {k \in 1 .. i : IsHostVisit(s[k])}
<1>1. ranked \in SUBSET (1 .. i)
  OBVIOUS
<1>2. IsFiniteSet(1 .. i)
  BY FS_Interval
<1> HIDE DEF ranked
<1>3. IsFiniteSet(ranked) /\ Cardinality(ranked) \in Nat
  BY <1>1, <1>2, FS_Subset, FS_CardinalityType
<1> QED
  BY <1>3 DEF Rank, ranked

LEMMA RankOfNone == ASSUME NEW s PROVE Rank(s, 0) = 0
<1>1. {k \in 1 .. 0 : IsHostVisit(s[k])} = {}
  OBVIOUS
<1> QED
  BY <1>1, FS_EmptySet DEF Rank

\* Ranks depend on what was visited until then.
LEMMA SameRank ==
    ASSUME NEW s, NEW t, NEW i \in Nat, \A k \in 1 .. i : t[k] = s[k]
    PROVE  Rank(t, i) = Rank(s, i)
<1>1. {k \in 1 .. i : IsHostVisit(t[k])} = {k \in 1 .. i : IsHostVisit(s[k])}
  OBVIOUS
<1> QED
  BY <1>1 DEF Rank

\* Visits of hosts that follow have the next ranks.
LEMMA RankOfMore ==
    ASSUME NEW s, NEW n \in Nat, NEW j \in Nat, \A k \in 1 .. j : IsHostVisit(s[n + k])
    PROVE  Rank(s, n + j) = Rank(s, n) + j
<1> DEFINE before == {k \in 1 .. n : IsHostVisit(s[k])}
           after == {k \in 1 .. n + j : IsHostVisit(s[k])}
           more == n + 1 .. n + j
<1>1. after = before \cup more
  <2>1. ASSUME NEW k \in more PROVE k \in 1 .. n + j /\ IsHostVisit(s[k])
    <3>1. k - n \in 1 .. j /\ n + (k - n) = k /\ k \in 1 .. n + j
      OBVIOUS
    <3>2. IsHostVisit(s[n + (k - n)])
      BY <3>1
    <3> QED
      BY <3>1, <3>2
  <2>2. ASSUME NEW k \in 1 .. n + j, k \notin more PROVE k \in 1 .. n
    BY <2>2
  <2>3. ASSUME NEW k \in 1 .. n PROVE k \in 1 .. n + j
    OBVIOUS
  <2> HIDE DEF more
  <2> QED
    BY <2>1, <2>2, <2>3
<1>2. before \cap more = {}
  OBVIOUS
<1>3. IsFiniteSet(before) /\ Cardinality(before) \in Nat
  BY RankIs DEF Rank
<1>4. IsFiniteSet(more) /\ Cardinality(more) = j
  <2>1. n + 1 \in Int /\ n + j \in Int
    OBVIOUS
  <2>2. IsFiniteSet(more) /\ Cardinality(more) = IF n + 1 > n + j THEN 0 ELSE n + j - (n + 1) + 1
    BY <2>1, FS_Interval
  <2> QED
    BY <2>2
<1> HIDE DEF before, after, more
<1>5. Cardinality(before \cap more) = 0
  BY <1>2, FS_EmptySet
<1>6. Cardinality(before \cup more) = Cardinality(before) + Cardinality(more) - Cardinality(before \cap more)
  BY <1>3, <1>4, FS_Union
<1>7. Cardinality(after) = Cardinality(before) + j
  BY <1>1, <1>3, <1>4, <1>5, <1>6
<1> QED
  BY <1>7 DEF Rank, before, after

\* A visit of anything else has the rank of the one before.
LEMMA RankOfPaper ==
    ASSUME NEW s, NEW n \in Nat, ~IsHostVisit(s[n + 1])
    PROVE  Rank(s, n + 1) = Rank(s, n)
<1>1. {k \in 1 .. n + 1 : IsHostVisit(s[k])} = {k \in 1 .. n : IsHostVisit(s[k])}
  <2>1. \A k \in 1 .. n + 1 : k \in 1 .. n \/ k = n + 1
    OBVIOUS
  <2>2. \A k \in 1 .. n : k \in 1 .. n + 1
    OBVIOUS
  <2> QED
    BY <2>1, <2>2
<1> QED
  BY <1>1 DEF Rank

\* No two visits of hosts have one rank.
LEMMA RanksGrow ==
    ASSUME NEW s, NEW i \in Nat, NEW j \in Nat, i < j, IsHostVisit(s[j])
    PROVE  Rank(s, i) < Rank(s, j)
<1> DEFINE before == {k \in 1 .. i : IsHostVisit(s[k])}
           after == {k \in 1 .. j : IsHostVisit(s[k])}
<1>1. before \cup {j} \in SUBSET after /\ j \notin before
  OBVIOUS
<1>2. IsFiniteSet(before) /\ IsFiniteSet(after)
  BY RankIs
<1> HIDE DEF before, after
<1>3. Cardinality(before \cup {j}) = Cardinality(before) + 1
  BY <1>1, <1>2, FS_AddElement
<1>4. Cardinality(before \cup {j}) <= Cardinality(after)
  BY <1>1, <1>2, FS_Subset
<1>5. Cardinality(before) \in Nat /\ Cardinality(after) \in Nat
  BY <1>2, FS_CardinalityType
<1>6. Cardinality(before) < Cardinality(after)
  BY <1>3, <1>4, <1>5
<1> QED
  BY <1>6 DEF Rank, before, after

\* The next hosts that were taken are visited.
LEMMA VisitsGrow ==
    ASSUME NEW S, NEW s \in Seq(S), NEW more \in Seq(S), NEW H, NEW hosts \in Seq(H), Tally(s, hosts),
           \A k \in 1 .. Len(more) : IsHostVisit(more[k]) /\ more[k].host = hosts[Rank(s, Len(s)) + k],
           Rank(s, Len(s)) + Len(more) <= Len(hosts)
    PROVE  Tally(s \o more, hosts) /\ Rank(s \o more, Len(s \o more)) = Rank(s, Len(s)) + Len(more)
<1>1. PICK n, m, t : n = Len(s) /\ m = Len(more) /\ t = s \o more
  OBVIOUS
<1>2. /\ n \in Nat /\ m \in Nat /\ Len(t) = n + m /\ DOMAIN t = 1 .. n + m /\ DOMAIN s = 1 .. n
      /\ \A k \in 1 .. n + m : t[k] = IF k <= n THEN s[k] ELSE more[k - n]
  <2>1. t \in Seq(S) /\ Len(t) = n + m /\ \A k \in 1 .. n + m : t[k] = IF k <= n THEN s[k] ELSE more[k - n]
    BY <1>1, ConcatProperties
  <2> QED
    BY <1>1, <2>1
<1>3. \A k \in 1 .. n : t[k] = s[k] /\ k \in 1 .. n + m
  BY <1>2
<1>4. \A k \in 1 .. m : n + k \in 1 .. n + m /\ t[n + k] = more[k]
  <2> SUFFICES ASSUME NEW k \in 1 .. m PROVE n + k \in 1 .. n + m /\ t[n + k] = more[k]
    OBVIOUS
  <2>1. PICK j : j = n + k /\ j \in 1 .. n + m /\ ~(j <= n) /\ j - n = k
    BY <1>2
  <2> QED
    BY <1>2, <2>1
<1>5. PICK r : r = Rank(s, n) /\ r \in Nat /\ r + m <= Len(hosts)
  BY <1>1, <1>2, RankIs
<1>6. \A i \in 1 .. n : Rank(t, i) = Rank(s, i)
  <2> SUFFICES ASSUME NEW i \in 1 .. n PROVE Rank(t, i) = Rank(s, i)
    OBVIOUS
  <2>1. \A k \in 1 .. i : k \in 1 .. n
    BY <1>2
  <2> QED
    BY <1>3, <2>1, SameRank
<1>7. Rank(t, n) = r
  BY <1>2, <1>3, <1>5, SameRank
<1>8. \A j \in 0 .. m : Rank(t, n + j) = r + j
  <2> SUFFICES ASSUME NEW j \in 0 .. m PROVE Rank(t, n + j) = r + j
    OBVIOUS
  <2>1. \A k \in 1 .. j : k \in 1 .. m
    BY <1>2
  <2>2. \A k \in 1 .. j : IsHostVisit(t[n + k])
    BY <1>1, <1>4, <2>1
  <2>3. n \in Nat /\ j \in Nat
    BY <1>2
  <2>4. Rank(t, n + j) = Rank(t, n) + j
    BY <2>2, <2>3, RankOfMore
  <2> QED
    BY <1>7, <2>4
<1>9. \A i \in 1 .. n + m : i \in 1 .. n \/ \E k \in 1 .. m : i = n + k
  <2> SUFFICES ASSUME NEW i \in 1 .. n + m, i \notin 1 .. n PROVE \E k \in 1 .. m : i = n + k
    OBVIOUS
  <2>1. i - n \in 1 .. m /\ i = n + (i - n)
    BY <1>2
  <2> QED
    BY <2>1
<1>10. Rank(t, n + m) = r + m
  BY <1>2, <1>8
<1>11. ASSUME NEW i \in 1 .. n + m, IsHostVisit(t[i])
       PROVE  Rank(t, i) \in DOMAIN hosts /\ t[i].host = hosts[Rank(t, i)]
  <2>1. CASE i \in 1 .. n
    BY <1>2, <1>3, <1>6, <1>11, <2>1 DEF Tally
  <2>2. CASE \E k \in 1 .. m : i = n + k
    <3>1. PICK k \in 1 .. m : i = n + k
      BY <2>2
    <3>2. t[i] = more[k] /\ more[k].host = hosts[r + k]
      BY <1>1, <1>4, <1>5, <3>1
    <3>3. Rank(t, i) = r + k
      BY <1>2, <1>8, <3>1
    <3>4. r + k \in 1 .. Len(hosts)
      BY <1>2, <1>5
    <3> QED
      BY <3>2, <3>3, <3>4
  <2> QED
    BY <1>9, <2>1, <2>2
<1>12. ASSUME NEW k \in 1 .. r + m
       PROVE  \E i \in 1 .. n + m : IsHostVisit(t[i]) /\ t[i].host = hosts[k]
  <2>1. CASE k <= r
    <3>1. k \in 1 .. Rank(s, Len(s))
      BY <1>1, <1>5, <2>1
    <3>2. PICK i \in 1 .. n : IsHostVisit(s[i]) /\ s[i].host = hosts[k]
      BY <1>2, <3>1 DEF Tally
    <3> QED
      BY <1>3, <3>2
  <2>2. CASE k > r
    <3>1. PICK j \in 1 .. m : k = r + j
      <4>1. k - r \in 1 .. m /\ k = r + (k - r)
        BY <1>2, <1>5, <2>2
      <4> QED
        BY <4>1
    <3>2. IsHostVisit(more[j]) /\ more[j].host = hosts[k]
      BY <1>1, <1>5, <3>1
    <3> QED
      BY <1>4, <3>2
  <2> QED
    BY <1>5, <2>1, <2>2
<1> QED
  BY <1>1, <1>2, <1>5, <1>10, <1>11, <1>12 DEF Tally

\* A neighbor's visit on paper changes no rank.
LEMMA PaperVisit ==
    ASSUME NEW S, NEW s \in Seq(S), NEW x \in S, ~IsHostVisit(x), NEW hosts, Tally(s, hosts)
    PROVE  Tally(Append(s, x), hosts) /\ Rank(Append(s, x), Len(Append(s, x))) = Rank(s, Len(s))
<1>1. PICK n, t : n = Len(s) /\ t = Append(s, x)
  OBVIOUS
<1>2. /\ n \in Nat /\ Len(t) = n + 1 /\ DOMAIN t = 1 .. n + 1 /\ DOMAIN s = 1 .. n
      /\ (\A k \in 1 .. n : t[k] = s[k] /\ k \in 1 .. n + 1) /\ t[n + 1] = x
  BY <1>1
<1>3. \A i \in 1 .. n : Rank(t, i) = Rank(s, i)
  <2> SUFFICES ASSUME NEW i \in 1 .. n PROVE Rank(t, i) = Rank(s, i)
    OBVIOUS
  <2>1. \A k \in 1 .. i : k \in 1 .. n
    BY <1>2
  <2> QED
    BY <1>2, <2>1, SameRank
<1>4. Rank(t, n + 1) = Rank(s, n)
  <2>1. Rank(t, n) = Rank(s, n)
    BY <1>2, SameRank
  <2>2. Rank(t, n + 1) = Rank(t, n)
    BY <1>2, RankOfPaper
  <2> QED
    BY <2>1, <2>2
<1>5. ASSUME NEW i \in 1 .. n + 1, IsHostVisit(t[i])
      PROVE  Rank(t, i) \in DOMAIN hosts /\ t[i].host = hosts[Rank(t, i)]
  <2>1. i \in 1 .. n
    BY <1>2, <1>5
  <2> QED
    BY <1>2, <1>3, <1>5, <2>1 DEF Tally
<1>6. ASSUME NEW k \in 1 .. Rank(s, n)
      PROVE  \E i \in 1 .. n + 1 : IsHostVisit(t[i]) /\ t[i].host = hosts[k]
  <2>1. PICK i \in 1 .. n : IsHostVisit(s[i]) /\ s[i].host = hosts[k]
    BY <1>1, <1>2 DEF Tally
  <2> QED
    BY <1>2, <2>1
<1> QED
  BY <1>1, <1>2, <1>4, <1>5, <1>6 DEF Tally

\* The visits keep their ranks when more hosts are taken.
LEMMA HostsGrow ==
    ASSUME NEW S, NEW s \in Seq(S), NEW H, NEW hosts \in Seq(H), NEW more \in Seq(H), Tally(s, hosts),
           Rank(s, Len(s)) <= Len(hosts)
    PROVE  Tally(s, hosts \o more)
<1>1. PICK h, m, all : h = Len(hosts) /\ m = Len(more) /\ all = hosts \o more
  OBVIOUS
<1>2. /\ h \in Nat /\ m \in Nat /\ DOMAIN hosts = 1 .. h /\ DOMAIN all = 1 .. h + m
      /\ \A k \in 1 .. h : all[k] = hosts[k] /\ k \in 1 .. h + m
  <2>1. all \in Seq(H) /\ Len(all) = h + m /\ \A k \in 1 .. h + m : all[k] = IF k <= h THEN hosts[k] ELSE more[k - h]
    BY <1>1, ConcatProperties
  <2>2. h \in Nat /\ m \in Nat /\ DOMAIN hosts = 1 .. h /\ DOMAIN all = 1 .. h + m
    BY <1>1, <2>1
  <2> QED
    BY <2>1, <2>2
<1>3. \A k \in 1 .. Rank(s, Len(s)) : k \in 1 .. h
  <2>1. Len(s) \in Nat
    OBVIOUS
  <2>2. PICK r : r = Rank(s, Len(s)) /\ r \in Nat /\ r <= h
    BY <1>1, <2>1, RankIs
  <2> QED
    BY <1>2, <2>2
<1> QED
  BY <1>1, <1>2, <1>3 DEF Tally

---------------------------------------------------------------------------
(* Crawl: what the network is                                              *)

LEMMA NetworkIs ==
    ASSUME CrawlTypes
    PROVE  /\ MaxDepth \in Nat /\ MaxDevices \in Nat /\ MaxDevices > 0
           /\ seeds \in Seq(Hosts) /\ Len(seeds) \in Nat /\ Len(seeds) > 0 /\ DOMAIN seeds = 1 .. Len(seeds)
           /\ ToSet(seeds) \in SUBSET Hosts
           /\ \A i, j \in DOMAIN seeds : seeds[i] = seeds[j] => i = j
           /\ \A h \in Hosts : network[h].neighbors \in Seq(Neighbors(h))
           /\ \A h \in Hosts : \A n \in Neighbors(h) :
                /\ n.address \in Hosts \cup {NoAddress} /\ n.name \in Mentionable
                /\ n.address \notin {"routing", "noaddress"} \/ n.address = NoAddress
                /\ MayBeFollowed(n) <=> n.kind # "routing" /\ Traversable(n) /\ n.address # NoAddress
           /\ Hosts \in SUBSET Mentionable
<1>1. network \in Networks /\ seeds \in SeedLists
  BY DEF CrawlTypes
<1>2. seeds \in Seq(ToSet(seeds)) /\ seeds # <<>> /\ IsInjective(seeds) /\ ToSet(seeds) \in SUBSET Hosts
  BY <1>1, CrawlAssumption DEF Hosts
<1>3. seeds \in Seq(Hosts)
  BY <1>2
<1>4. \A h \in Hosts : network[h].neighbors \in Seq(Neighbors(h))
  BY <1>1, CrawlAssumption DEF Hosts, Neighbors
<1>5. ASSUME NEW h \in Hosts, NEW n \in Neighbors(h)
      PROVE  /\ n.address \in Hosts \cup {NoAddress} /\ n.name \in Mentionable
             /\ n.address \notin {"routing", "noaddress"} \/ n.address = NoAddress
             /\ MayBeFollowed(n) <=> n.kind # "routing" /\ Traversable(n) /\ n.address # NoAddress
  <2>1. /\ n.address \in Hosts \cup {NoAddress}
        /\ n.kind \in {"followed", "unfollowed", "routing"}
        /\ n.rules \subseteq {"allow", "deny"}
        /\ n.range \in {"inside", "outside", "excluded", "unreadable"}
        /\ Hosts \cap {"routing", "noaddress"} = {}
    BY <1>1, <1>5, CrawlAssumption DEF Hosts, Neighbors
  <2>2. n.name \in Mentionable
    BY <1>5 DEF Mentionable
  <2>3. n.address \notin {"routing", "noaddress"} \/ n.address = NoAddress
    BY <2>1
  <2>4. MayBeFollowed(n) <=> n.kind # "routing" /\ Traversable(n) /\ n.address # NoAddress
    BY <2>1 DEF MayBeFollowed, Traversable
  <2> QED
    BY <2>1, <2>2, <2>3, <2>4
<1>6. \A i, j \in DOMAIN seeds : seeds[i] = seeds[j] => i = j
  BY <1>2 DEF IsInjective
<1>7. Len(seeds) \in Nat /\ Len(seeds) > 0 /\ DOMAIN seeds = 1 .. Len(seeds)
  BY <1>2, <1>3
<1>8. MaxDepth \in Nat /\ MaxDevices \in Nat /\ MaxDevices > 0
  BY CrawlAssumption
<1>9. Hosts \in SUBSET Mentionable
  BY DEF Mentionable
<1> QED
  BY <1>2, <1>3, <1>4, <1>5, <1>6, <1>7, <1>8, <1>9

LEMMA CrawlSizes ==
    ASSUME CrawlTypes
    PROVE  /\ Len(queue) \in Nat /\ DOMAIN queue = 1 .. Len(queue) /\ \A i \in DOMAIN queue : queue[i] \in Taken
           /\ Len(wave) \in Nat /\ DOMAIN wave = 1 .. Len(wave) /\ \A i \in DOMAIN wave : wave[i] \in Taken
           /\ Len(found) \in Nat /\ DOMAIN found = 1 .. Len(found) /\ \A i \in DOMAIN found : found[i] \in Discovered
           /\ Len(visits) \in Nat /\ DOMAIN visits = 1 .. Len(visits) /\ \A i \in DOMAIN visits : visits[i] \in Mention
           /\ Len(order) \in Nat /\ DOMAIN order = 1 .. Len(order)
           /\ Len(answered) \in Nat /\ DOMAIN answered = 1 .. Len(answered) /\ integrated \in Nat
           /\ Rank(visits, Len(visits)) \in Nat
           /\ \A n \in 0 .. MaxDepth : n \in Nat /\ n <= MaxDepth
<1>1. MaxDepth \in Nat
  BY CrawlAssumption
<1>2. /\ Len(queue) \in Nat /\ DOMAIN queue = 1 .. Len(queue) /\ \A i \in DOMAIN queue : queue[i] \in Taken
      /\ Len(wave) \in Nat /\ DOMAIN wave = 1 .. Len(wave) /\ \A i \in DOMAIN wave : wave[i] \in Taken
  BY DEF CrawlTypes
<1>3. /\ Len(found) \in Nat /\ DOMAIN found = 1 .. Len(found) /\ \A i \in DOMAIN found : found[i] \in Discovered
      /\ Len(visits) \in Nat /\ DOMAIN visits = 1 .. Len(visits) /\ \A i \in DOMAIN visits : visits[i] \in Mention
  BY DEF CrawlTypes
<1>4. /\ Len(order) \in Nat /\ DOMAIN order = 1 .. Len(order)
      /\ Len(answered) \in Nat /\ DOMAIN answered = 1 .. Len(answered) /\ integrated \in Nat
  BY DEF CrawlTypes
<1>5. Rank(visits, Len(visits)) \in Nat
  BY <1>3, RankIs
<1>6. \A n \in 0 .. MaxDepth : n \in Nat /\ n <= MaxDepth
  BY <1>1
<1> QED
  BY <1>2, <1>3, <1>4, <1>5, <1>6

---------------------------------------------------------------------------
(* Crawl: what the steps leave alone                                       *)

LEMMA SameNetwork ==
    ASSUME UNCHANGED network
    PROVE  /\ Hosts' = Hosts /\ Mentionable' = Mentionable
           /\ Taken' = Taken /\ Discovered' = Discovered /\ Mention' = Mention
BY DEF Hosts, Mentionable, Taken, Discovered, Mention, Neighbors

LEMMA SameNearest ==
    ASSUME NearestInv, UNCHANGED <<network, seeds, found>>, NEW host, NEW depth, NearestDepth(host, depth)
    PROVE  NearestDepth(host, depth)'
BY DEF NearestDepth, Advertises

LEMMA SameLookedAt ==
    ASSUME LookedAtInv, MarkersInv, UNCHANGED <<network, found, ahead, enqueued, markers, visits>>
    PROVE  LookedAtInv' /\ MarkersInv'
<1>1. LookedAtInv'
  BY DEF LookedAtInv, LookedAt, Neighbors
<1>2. MarkersInv'
  BY DEF MarkersInv
<1> QED
  BY <1>1, <1>2

LEMMA SameResults ==
    ASSUME CrawlDevicesDistinct, UNCHANGED found
    PROVE  CrawlDevicesDistinct'
BY DEF CrawlDevicesDistinct

---------------------------------------------------------------------------
(* Crawl: every step keeps the invariant                                   *)

LEMMA TakeWaveKeepsInv == ASSUME CrawlInv, TakeWave PROVE CrawlInv'
<1>1. /\ CrawlTypes /\ AnswersInv /\ AheadInv /\ VisitsInv /\ OnceInv /\ LevelInv /\ NearestInv
      /\ LookedAtInv /\ MarkersInv /\ CrawlDevicesDistinct /\ CrawlRaisesOnlyEmpty
  BY DEF CrawlInv
<1>2. /\ crawl = "ready" /\ crawl' = "attempting" /\ wave' = queue /\ queue' = <<>>
      /\ answered' = <<>> /\ integrated' = 0
      /\ UNCHANGED <<network, seeds, found, ahead, visits, enqueued, markers>>
  BY DEF TakeWave
<1>3. PICK more : more = [i \in DOMAIN queue |-> queue[i].host] /\ order' = order \o more
  BY DEF TakeWave
<1>4. more \in Seq(Hosts) /\ Len(more) = Len(queue) /\ DOMAIN more = DOMAIN queue /\ \A i \in DOMAIN queue : more[i] = queue[i].host
  <2>1. \A i \in 1 .. Len(queue) : queue[i].host \in Hosts
    BY <1>1, CrawlSizes DEF Taken
  <2>2. Len(queue) \in Nat /\ DOMAIN queue = 1 .. Len(queue)
    BY <1>1, CrawlSizes
  <2> QED
    BY <1>3, <2>1, <2>2, IsASeq
<1>5. PICK all, o, m : all = order' /\ o = Len(order) /\ m = Len(queue)
  OBVIOUS
<1>6. /\ all \in Seq(Hosts) /\ o \in Nat /\ m \in Nat /\ Len(all) = o + m /\ DOMAIN all = 1 .. o + m
      /\ DOMAIN order = 1 .. o /\ DOMAIN queue = 1 .. m
      /\ \A k \in 1 .. o + m : all[k] = IF k <= o THEN order[k] ELSE more[k - o]
  <2>1. order \in Seq(Hosts) /\ o \in Nat /\ m \in Nat /\ DOMAIN order = 1 .. o /\ DOMAIN queue = 1 .. m
    BY <1>1, <1>5, CrawlSizes DEF CrawlTypes
  <2>2. all \in Seq(Hosts) /\ Len(all) = o + m /\ \A k \in 1 .. o + m : all[k] = IF k <= o THEN order[k] ELSE more[k - o]
    BY <1>3, <1>4, <1>5, <2>1, ConcatProperties
  <2> QED
    BY <2>1, <2>2
<1>7. \A k \in 1 .. o : k \in DOMAIN all /\ all[k] = order[k]
  BY <1>6
<1>8. \A i \in 1 .. m : o + i \in DOMAIN all /\ all[o + i] = queue[i].host
  <2> SUFFICES ASSUME NEW i \in 1 .. m PROVE o + i \in DOMAIN all /\ all[o + i] = queue[i].host
    OBVIOUS
  <2>1. o \in Nat /\ m \in Nat /\ i \in Nat /\ 1 <= i /\ i <= m
    BY <1>6
  <2>2. PICK j : j = o + i
    OBVIOUS
  <2>3. j \in 1 .. o + m /\ ~(j <= o) /\ j - o = i
    BY <2>1, <2>2
  <2> QED
    BY <1>4, <1>6, <2>2, <2>3
<1>9. \A j \in DOMAIN all : j \in 1 .. o \/ \E i \in 1 .. m : j = o + i
  <2> SUFFICES ASSUME NEW j \in DOMAIN all, j \notin 1 .. o PROVE \E i \in 1 .. m : j = o + i
    OBVIOUS
  <2>1. j - o \in 1 .. m /\ j = o + (j - o)
    BY <1>6
  <2> QED
    BY <2>1
<1>10. CrawlTypes'
  <2>1. queue' \in Seq(Taken') /\ wave' \in Seq(Taken') /\ found' \in Seq(Discovered') /\ visits' \in Seq(Mention')
    BY <1>1, <1>2, SameNetwork DEF CrawlTypes
  <2>2. order' \in Seq(Hosts') /\ enqueued' \in SUBSET Hosts'
    BY <1>1, <1>2, <1>5, <1>6, SameNetwork DEF CrawlTypes
  <2>3. answered' \in Seq(Nat) /\ integrated' \in Nat
    BY <1>2
  <2> QED
    BY <1>1, <1>2, <2>1, <2>2, <2>3 DEF CrawlTypes
<1>11. AnswersInv'
  <2>1. ToSet(answered') = {} /\ DOMAIN answered' = {}
    BY <1>2 DEF ToSet
  <2> QED
    BY <1>1, <1>2, <2>1 DEF AnswersInv
<1>12. AheadInv'
  BY <1>1, <1>2 DEF AheadInv
<1>13. VisitsInv'
  <2>1. PICK r : r = Rank(visits, Len(visits))
    OBVIOUS
  <2>2. r = o /\ Tally(visits, order)
    BY <1>1, <1>2, <1>5, <2>1 DEF VisitsInv
  <2>3. order \in Seq(Hosts) /\ visits \in Seq(Mention)
    BY <1>1 DEF CrawlTypes
  <2>4. Rank(visits, Len(visits)) <= Len(order)
    BY <1>5, <1>6, <2>1, <2>2
  <2>5. Tally(visits, order \o more)
    BY <1>4, <2>2, <2>3, <2>4, HostsGrow
  <2>6. Tally(visits, all)
    BY <1>3, <1>5, <2>5
  <2>7. PICK v : v = visits
    OBVIOUS
  <2>8. Tally(v, all) /\ visits' = v /\ order' = all /\ Rank(v, Len(v)) = o
    BY <1>2, <1>5, <2>1, <2>2, <2>6, <2>7
  <2>9. Len(all) = o + (Len(wave') - integrated')
    BY <1>2, <1>5, <1>6
  <2>10. \A k \in 1 .. Len(wave') - integrated' : all[o + k] = wave'[integrated' + k].host
    <3>1. Len(wave') - integrated' = m /\ \A k \in 1 .. m : integrated' + k = k
      BY <1>2, <1>5, <1>6
    <3> QED
      BY <1>2, <1>8, <3>1
  <2> QED
    BY <1>2, <2>8, <2>9, <2>10 DEF VisitsInv
<1>14. OnceInv'
  <2>0. /\ \A i, j \in 1 .. o : order[i] = order[j] => i = j
        /\ \A i, j \in 1 .. m : queue[i].host = queue[j].host => i = j
        /\ \A i \in 1 .. m : \A k \in 1 .. o : queue[i].host # order[k]
    BY <1>1, <1>6 DEF OnceInv
  <2>1. ASSUME NEW i \in DOMAIN all, NEW j \in DOMAIN all, all[i] = all[j] PROVE i = j
    <3>1. CASE i \in 1 .. o /\ j \in 1 .. o
      BY <1>7, <2>0, <2>1, <3>1
    <3>2. CASE i \in 1 .. o /\ j \notin 1 .. o
      <4>1. PICK y \in 1 .. m : j = o + y
        BY <1>9, <3>2
      <4> QED
        BY <1>7, <1>8, <2>0, <2>1, <3>2, <4>1
    <3>3. CASE i \notin 1 .. o /\ j \in 1 .. o
      <4>1. PICK x \in 1 .. m : i = o + x
        BY <1>9, <3>3
      <4> QED
        BY <1>7, <1>8, <2>0, <2>1, <3>3, <4>1
    <3>4. CASE i \notin 1 .. o /\ j \notin 1 .. o
      <4>1. PICK x \in 1 .. m, y \in 1 .. m : i = o + x /\ j = o + y
        BY <1>9, <3>4
      <4>2. x = y
        BY <1>8, <2>0, <2>1, <4>1
      <4> QED
        BY <4>1, <4>2
    <3> QED
      BY <3>1, <3>2, <3>3, <3>4
  <2>2. ASSUME NEW h \in enqueued PROVE \E k \in DOMAIN all : h = all[k]
    <3>1. (\E k \in 1 .. o : h = order[k]) \/ \E i \in 1 .. m : h = queue[i].host
      BY <1>1, <1>6 DEF OnceInv
    <3> QED
      BY <1>7, <1>8, <3>1
  <2>3. ASSUME NEW k \in DOMAIN all PROVE all[k] \in enqueued
    BY <1>1, <1>6, <1>7, <1>8, <1>9 DEF OnceInv
  <2>4. DOMAIN queue' = {}
    BY <1>2
  <2>5. \A i \in DOMAIN seeds : seeds[i] \in enqueued
    BY <1>1 DEF OnceInv
  <2> QED
    BY <1>2, <1>5, <2>1, <2>2, <2>3, <2>4, <2>5 DEF OnceInv
<1>15. LevelInv'
  <2>1. PICK d \in Nat : AtLevel(d)
    BY <1>1 DEF LevelInv
  <2>2. ahead = <<>>
    BY <1>1, <1>2 DEF AheadInv
  <2>3. /\ \A i \in DOMAIN queue : queue[i].depth = d
        /\ \A i \in DOMAIN found : found[i].depth < d
        /\ \A i \in DOMAIN visits : visits[i].depth <= d
        /\ d = 0 => found = <<>> /\ Len(queue) = Len(seeds)
    BY <1>2, <2>1 DEF AtLevel
  <2>4. \A i \in DOMAIN found : found[i].depth <= d
    BY <1>1, <2>3, CrawlSizes DEF Discovered
  <2>5. \A i \in DOMAIN visits : visits[i].depth <= d + 1
    BY <1>1, <2>3, CrawlSizes DEF Mention
  <2>6. d = 0 => Len(found) <= 0
    BY <2>3
  <2>7. AtLevel(d)'
    BY <1>2, <2>2, <2>3, <2>4, <2>5, <2>6 DEF AtLevel, Busy
  <2> QED
    BY <2>7 DEF LevelInv
<1>16. NearestInv'
  <2>1. /\ visits' = visits /\ wave' = queue /\ DOMAIN queue' = {} /\ UNCHANGED <<network, seeds, found>>
    BY <1>2
  <2> QED
    BY <1>1, <2>1 DEF NearestInv, NearestDepth, Advertises, IsHostVisit
<1>17. LookedAtInv' /\ MarkersInv' /\ CrawlDevicesDistinct'
  BY <1>1, <1>2, SameLookedAt, SameResults
<1>18. CrawlRaisesOnlyEmpty'
  BY <1>2 DEF CrawlRaisesOnlyEmpty
<1> QED
  BY <1>10, <1>11, <1>12, <1>13, <1>14, <1>15, <1>16, <1>17, <1>18 DEF CrawlInv

LEMMA LeastOfTwo ==
    ASSUME NEW a \in Int, NEW b \in Int
    PROVE  Min({a, b}) \in {a, b} /\ Min({a, b}) <= a /\ Min({a, b}) <= b
<1>1. \E x \in {a, b} : \A y \in {a, b} : x <= y
  <2>1. CASE a <= b
    BY <2>1
  <2>2. CASE b <= a
    BY <2>2
  <2> QED
    BY <2>1, <2>2
<1>2. Min({a, b}) \in {a, b} /\ \A y \in {a, b} : Min({a, b}) <= y
  BY <1>1 DEF Min
<1> QED
  BY <1>2

LEMMA AttemptKeepsInv == ASSUME CrawlInv, NEW i \in DOMAIN wave, Attempt(i) PROVE CrawlInv'
<1>1. /\ CrawlTypes /\ AnswersInv /\ AheadInv /\ VisitsInv /\ OnceInv /\ LevelInv /\ NearestInv
      /\ LookedAtInv /\ MarkersInv /\ CrawlDevicesDistinct /\ CrawlRaisesOnlyEmpty
  BY DEF CrawlInv
<1>2. /\ crawl = "attempting" /\ i \in Attempted /\ i \notin ToSet(answered) /\ answered' = Append(answered, i)
      /\ UNCHANGED <<network, seeds, crawl, queue, wave, integrated, found, ahead, visits, enqueued, markers, order>>
  BY DEF Attempt
<1>3. i \in Nat
  BY <1>1, CrawlSizes
<1>4. CrawlTypes'
  <2>1. queue' \in Seq(Taken') /\ wave' \in Seq(Taken') /\ found' \in Seq(Discovered') /\ visits' \in Seq(Mention')
    BY <1>1, <1>2, SameNetwork DEF CrawlTypes
  <2>2. order' \in Seq(Hosts') /\ enqueued' \in SUBSET Hosts'
    BY <1>1, <1>2, SameNetwork DEF CrawlTypes
  <2>3. answered' \in Seq(Nat)
    BY <1>1, <1>2, <1>3 DEF CrawlTypes
  <2> QED
    BY <1>1, <1>2, <2>1, <2>2, <2>3 DEF CrawlTypes
<1>5. AnswersInv'
  <2>1. PICK n, more : n = Len(answered) /\ more = Append(answered, i)
    OBVIOUS
  <2>2. /\ n \in Nat /\ DOMAIN answered = 1 .. n /\ DOMAIN more = 1 .. n + 1
        /\ (\A j \in 1 .. n : more[j] = answered[j]) /\ more[n + 1] = i
    BY <1>1, <2>1 DEF CrawlTypes
  <2>3. \A j \in 1 .. n : answered[j] # i /\ answered[j] \in Attempted
    BY <1>1, <1>2, <2>2 DEF AnswersInv, ToSet
  <2>4. \A j, k \in 1 .. n + 1 : more[j] = more[k] => j = k
    <3>1. \A j, k \in 1 .. n : answered[j] = answered[k] => j = k
      BY <1>1, <1>2, <2>2 DEF AnswersInv
    <3>2. \A j \in 1 .. n + 1 : j \in 1 .. n \/ j = n + 1
      BY <2>2
    <3> QED
      BY <2>2, <2>3, <3>1, <3>2
  <2>5. ToSet(more) \subseteq Attempted
    <3>1. \A j \in 1 .. n + 1 : j \in 1 .. n \/ j = n + 1
      BY <2>2
    <3> QED
      BY <1>2, <2>2, <2>3, <3>1 DEF ToSet
  <2>6. Attempted' = Attempted
    BY <1>2 DEF Attempted
  <2>7. integrated = 0 /\ Len(found) <= MaxDevices
    BY <1>1, <1>2 DEF AnswersInv
  <2>8. answered' = more
    BY <1>2, <2>1
  <2> QED
    BY <1>2, <2>2, <2>4, <2>5, <2>6, <2>7, <2>8 DEF AnswersInv
<1>6. AheadInv'
  BY <1>1, <1>2 DEF AheadInv
<1>7. VisitsInv'
  BY <1>1, <1>2 DEF VisitsInv, Busy
<1>8. OnceInv'
  BY <1>1, <1>2 DEF OnceInv
<1>9. LevelInv'
  BY <1>1, <1>2 DEF LevelInv, AtLevel, Busy
<1>10. NearestInv'
  BY <1>1, <1>2 DEF NearestInv, NearestDepth, Advertises, IsHostVisit
<1>11. LookedAtInv' /\ MarkersInv' /\ CrawlDevicesDistinct'
  BY <1>1, <1>2, SameLookedAt, SameResults
<1>12. CrawlRaisesOnlyEmpty'
  BY <1>2 DEF CrawlRaisesOnlyEmpty
<1> QED
  BY <1>4, <1>5, <1>6, <1>7, <1>8, <1>9, <1>10, <1>11, <1>12 DEF CrawlInv

\* Every attempt of the wave ended, and each once: there are no more answers
\* than hosts.
LEMMA AnswersOfWave ==
    ASSUME CrawlTypes, AnswersInv, crawl = "attempting", ToSet(answered) = Attempted
    PROVE  Len(answered) <= Len(wave)
<1>1. PICK n, w, b : n = Len(answered) /\ w = Len(wave) /\ b = MaxDevices - Len(found)
  OBVIOUS
<1>2. n \in Nat /\ w \in Nat /\ b \in Int /\ DOMAIN answered = 1 .. n
  BY <1>1, CrawlSizes, CrawlAssumption
<1>3. Attempted \in SUBSET (1 .. w)
  <2>1. PICK l : l = Min({b, w})
    OBVIOUS
  <2>2. l \in {b, w} /\ l <= w
    <3>1. b \in Int /\ w \in Int
      BY <1>2
    <3>2. Min({b, w}) \in {b, w} /\ Min({b, w}) <= w
      BY <3>1, LeastOfTwo, Zenon
    <3> QED
      BY <2>1, <3>2
  <2>3. Attempted = 1 .. l
    BY <1>1, <2>1 DEF Attempted
  <2> QED
    BY <1>2, <2>2, <2>3
<1>4. \A j \in 1 .. n : answered[j] \in 1 .. w
  BY <1>2, <1>3 DEF ToSet
<1>5. \A j, k \in 1 .. n : answered[j] = answered[k] => j = k
  BY <1>2 DEF AnswersInv
<1>6. answered \in [1 .. n -> 1 .. w]
  BY <1>2, <1>4 DEF CrawlTypes
<1>7. answered \in Injection(1 .. n, 1 .. w)
  BY <1>5, <1>6, Fun_IsInj
<1>8. Cardinality(1 .. n) <= Cardinality(1 .. w)
  <2>1. IsFiniteSet(1 .. w)
    BY <1>2, FS_Interval
  <2> QED
    BY <1>7, <2>1, FS_Injection
<1>9. Cardinality(1 .. n) = n /\ Cardinality(1 .. w) = w
  <2>1. 1 \in Int /\ n \in Int /\ w \in Int
    BY <1>2
  <2>2. Cardinality(1 .. n) = IF 1 > n THEN 0 ELSE n - 1 + 1
    BY <2>1, FS_Interval
  <2>3. Cardinality(1 .. w) = IF 1 > w THEN 0 ELSE w - 1 + 1
    BY <2>1, FS_Interval
  <2> QED
    BY <1>2, <2>2, <2>3
<1> QED
  BY <1>1, <1>8, <1>9

LEMMA CollectedKeepsInv == ASSUME CrawlInv, Collected PROVE CrawlInv'
<1>1. /\ CrawlTypes /\ AnswersInv /\ AheadInv /\ VisitsInv /\ OnceInv /\ LevelInv /\ NearestInv
      /\ LookedAtInv /\ MarkersInv /\ CrawlDevicesDistinct /\ CrawlRaisesOnlyEmpty
  BY DEF CrawlInv
<1>2. /\ crawl = "attempting" /\ ToSet(answered) = Attempted /\ crawl' = "integrating"
      /\ UNCHANGED <<network, seeds, queue, wave, answered, integrated, found, ahead, visits, enqueued, markers, order>>
  BY DEF Collected
<1>3. CrawlTypes'
  BY <1>1, <1>2, SameNetwork DEF CrawlTypes
<1>4. AnswersInv'
  <2>1. integrated = 0 /\ Len(found) <= MaxDevices
    BY <1>1, <1>2 DEF AnswersInv
  <2>2. Len(answered) <= Len(wave) /\ Len(answered) \in Nat
    BY <1>1, <1>2, AnswersOfWave, CrawlSizes
  <2>3. integrated <= Len(answered)
    BY <2>1, <2>2
  <2> QED
    BY <1>2, <2>1, <2>2, <2>3 DEF AnswersInv
<1>5. AheadInv'
  BY <1>1, <1>2 DEF AheadInv
<1>6. VisitsInv'
  BY <1>1, <1>2 DEF VisitsInv, Busy
<1>7. OnceInv'
  BY <1>1, <1>2 DEF OnceInv
<1>8. LevelInv'
  BY <1>1, <1>2 DEF LevelInv, AtLevel, Busy
<1>9. NearestInv'
  BY <1>1, <1>2 DEF NearestInv, NearestDepth, Advertises, IsHostVisit
<1>10. LookedAtInv' /\ MarkersInv' /\ CrawlDevicesDistinct'
  BY <1>1, <1>2, SameLookedAt, SameResults
<1>11. CrawlRaisesOnlyEmpty'
  BY <1>2 DEF CrawlRaisesOnlyEmpty
<1> QED
  BY <1>3, <1>4, <1>5, <1>6, <1>7, <1>8, <1>9, <1>10, <1>11 DEF CrawlInv

LEMMA ReportKeepsInv == ASSUME CrawlInv, Report PROVE CrawlInv'
<1>1. /\ CrawlTypes /\ AnswersInv /\ AheadInv /\ VisitsInv /\ OnceInv /\ LevelInv /\ NearestInv
      /\ LookedAtInv /\ MarkersInv /\ CrawlDevicesDistinct /\ CrawlRaisesOnlyEmpty
  BY DEF CrawlInv
<1>2. /\ crawl = "ready" /\ queue = <<>> /\ crawl' = IF found = <<>> THEN "raised" ELSE "reported"
      /\ UNCHANGED <<network, seeds, queue, wave, answered, integrated, found, ahead, visits, enqueued, markers, order>>
  BY DEF Report
<1>3. CrawlTypes'
  BY <1>1, <1>2, SameNetwork DEF CrawlTypes
<1>4. AnswersInv'
  BY <1>1, <1>2 DEF AnswersInv
<1>5. AheadInv'
  BY <1>1, <1>2 DEF AheadInv
<1>6. VisitsInv'
  BY <1>1, <1>2 DEF VisitsInv, Busy
<1>7. OnceInv'
  BY <1>1, <1>2 DEF OnceInv
<1>8. LevelInv'
  BY <1>1, <1>2 DEF LevelInv, AtLevel, Busy
<1>9. NearestInv'
  BY <1>1, <1>2 DEF NearestInv, NearestDepth, Advertises, IsHostVisit
<1>10. LookedAtInv' /\ MarkersInv' /\ CrawlDevicesDistinct'
  BY <1>1, <1>2, SameLookedAt, SameResults
<1>11. CrawlRaisesOnlyEmpty'
  BY <1>2 DEF CrawlRaisesOnlyEmpty
<1> QED
  BY <1>3, <1>4, <1>5, <1>6, <1>7, <1>8, <1>9, <1>10, <1>11 DEF CrawlInv

\* More visits take nothing back.
LEMMA MoreVisits ==
    ASSUME LookedAtInv, MarkersInv, UNCHANGED <<network, found, ahead, enqueued, markers>>,
           \A i \in DOMAIN visits : i \in DOMAIN visits' /\ visits'[i] = visits[i]
    PROVE  LookedAtInv' /\ MarkersInv'
<1>1. LookedAtInv'
  <2> SUFFICES ASSUME NEW j \in DOMAIN found, NEW n \in Neighbors(found[j].host), LookedAt(j, n)
               PROVE  /\ MayBeFollowed(n) => n.address \in enqueued
                      /\ \/ n.address \in enqueued
                         \/ \E i \in DOMAIN visits' : visits'[i].host \in {n.address, n.name}
    BY DEF LookedAtInv, LookedAt, Neighbors
  <2>1. /\ MayBeFollowed(n) => n.address \in enqueued
        /\ n.address \in enqueued \/ \E i \in DOMAIN visits : visits[i].host \in {n.address, n.name}
    BY DEF LookedAtInv
  <2> QED
    BY <2>1
<1>2. MarkersInv'
  <2> SUFFICES ASSUME NEW m \in markers
               PROVE  \E i \in DOMAIN visits' : visits'[i].host = PaperName(m)
    BY DEF MarkersInv, PaperName
  <2>1. PICK h : h = PaperName(m)
    OBVIOUS
  <2>2. \E i \in DOMAIN visits : visits[i].host = h
    BY <2>1 DEF MarkersInv
  <2> QED
    BY <2>1, <2>2
<1> QED
  BY <1>1, <1>2

LEMMA OverflowKeepsInv == ASSUME CrawlInv, Overflow PROVE CrawlInv'
<1>1. /\ CrawlTypes /\ AnswersInv /\ AheadInv /\ VisitsInv /\ OnceInv /\ LevelInv /\ NearestInv
      /\ LookedAtInv /\ MarkersInv /\ CrawlDevicesDistinct /\ CrawlRaisesOnlyEmpty
  BY DEF CrawlInv
<1>2. /\ crawl = "integrating" /\ ahead = <<>> /\ integrated = Len(answered) /\ crawl' = "ready"
      /\ UNCHANGED <<network, seeds, queue, wave, answered, integrated, found, ahead, enqueued, markers, order>>
  BY DEF Overflow
<1>3. PICK rest, more :
        /\ rest = SubSeq(wave, Len(answered) + 1, Len(wave))
        /\ more = [i \in DOMAIN rest |-> Visit(rest[i].host, rest[i].depth, "limit")]
        /\ visits' = visits \o more
  BY DEF Overflow
<1>4. PICK a, w, m : a = Len(answered) /\ w = Len(wave) /\ m = w - a
  OBVIOUS
<1>5. a \in Nat /\ w \in Nat /\ m \in Nat /\ a <= w /\ a + m = w /\ DOMAIN wave = 1 .. w /\ wave \in Seq(Taken)
  <2>1. a <= w
    BY <1>1, <1>2, <1>4 DEF AnswersInv
  <2> QED
    BY <1>1, <1>4, <2>1, CrawlSizes DEF CrawlTypes
<1>6. /\ rest \in Seq(Taken) /\ Len(rest) = m /\ DOMAIN rest = 1 .. m
      /\ \A k \in 1 .. m : a + k \in 1 .. w /\ rest[k] = wave[a + k] /\ rest[k] \in Taken
  <2>1. a + 1 \in 1 .. w + 1 /\ w \in a .. w
    BY <1>5
  <2>2. rest = SubSeq(wave, a + 1, w)
    BY <1>3, <1>4
  <2>3. \A k \in a + 1 .. w : k \in 1 .. w
    BY <1>5
  <2>4. rest \in Seq(Taken) /\ Len(rest) = m /\ \A k \in 1 .. m : rest[k] = wave[a + k]
    BY <1>4, <1>5, <2>2, <2>3
  <2>5. \A k \in 1 .. m : a + k \in 1 .. w
    BY <1>5
  <2>6. DOMAIN rest = 1 .. m
    BY <2>4
  <2>7. \A k \in 1 .. m : rest[k] \in Taken
    BY <2>4, <2>6
  <2> QED
    BY <2>4, <2>5, <2>6, <2>7
<1>7. /\ more \in Seq(Mention) /\ Len(more) = m
      /\ \A k \in 1 .. m : IsHostVisit(more[k]) /\ more[k].host = wave[a + k].host /\ more[k].depth = wave[a + k].depth
  <2>1. \A k \in 1 .. m : more[k] = Visit(rest[k].host, rest[k].depth, "limit")
    BY <1>3, <1>6
  <2>2. ASSUME NEW k \in 1 .. m PROVE more[k] \in Mention
    <3>1. rest[k].host \in Hosts /\ rest[k].depth \in 0 .. MaxDepth
      BY <1>6 DEF Taken
    <3>2. rest[k].host \in Mentionable
      BY <1>1, <3>1, NetworkIs
    <3>3. "limit" \in HostVisits \cup {"boundary", "unresolved", "noaddress"}
      BY DEF HostVisits
    <3>4. Visit(rest[k].host, rest[k].depth, "limit") \in Mention
      BY <3>1, <3>2, <3>3 DEF Visit, Mention
    <3> QED
      BY <2>1, <3>4
  <2>3. ASSUME NEW k \in 1 .. m
        PROVE  IsHostVisit(more[k]) /\ more[k].host = wave[a + k].host /\ more[k].depth = wave[a + k].depth
    <3>0. more[k] = [host |-> rest[k].host, depth |-> rest[k].depth, status |-> "limit"]
      BY <2>1 DEF Visit
    <3>1. more[k].host = rest[k].host /\ more[k].depth = rest[k].depth /\ more[k].status = "limit"
      BY <3>0
    <3>2. rest[k] = wave[a + k]
      BY <1>6
    <3>3. more[k].status \in HostVisits
      BY <3>1 DEF HostVisits
    <3> QED
      BY <3>1, <3>2, <3>3 DEF IsHostVisit
  <2>4. more = [i \in 1 .. m |-> Visit(rest[i].host, rest[i].depth, "limit")]
    BY <1>3, <1>6
  <2>5. \A k \in 1 .. m : Visit(rest[k].host, rest[k].depth, "limit") \in Mention
    BY <2>1, <2>2
  <2>6. more \in Seq(Mention) /\ Len(more) = m
    BY <1>5, <2>4, <2>5, IsASeq
  <2> QED
    BY <2>3, <2>6
<1>8. PICK v, n, all : v = visits /\ n = Len(v) /\ all = v \o more
  OBVIOUS
<1>9. /\ n \in Nat /\ visits' = all /\ all \in Seq(Mention) /\ Len(all) = n + m /\ DOMAIN v = 1 .. n /\ DOMAIN all = 1 .. n + m
      /\ (\A i \in 1 .. n : i \in 1 .. n + m /\ all[i] = v[i])
      /\ \A i \in 1 .. n + m : i \in 1 .. n \/ \E k \in 1 .. m : all[i] = more[k]
  <2>1. v \in Seq(Mention)
    BY <1>1, <1>8 DEF CrawlTypes
  <2>2. all \in Seq(Mention) /\ Len(all) = n + m /\ \A i \in 1 .. n + m : all[i] = IF i <= n THEN v[i] ELSE more[i - n]
    BY <1>7, <1>8, <2>1, ConcatProperties
  <2>3. n \in Nat
    BY <1>8, <2>1
  <2>4. \A i \in 1 .. n : i \in 1 .. n + m /\ all[i] = v[i]
    BY <1>5, <2>2, <2>3
  <2>5. ASSUME NEW i \in 1 .. n + m, i \notin 1 .. n PROVE \E k \in 1 .. m : all[i] = more[k]
    <3>1. i - n \in 1 .. m /\ ~(i <= n)
      BY <1>5, <2>3, <2>5
    <3> QED
      BY <2>2, <3>1
  <2>6. DOMAIN v = 1 .. n /\ DOMAIN all = 1 .. n + m
    BY <1>8, <2>1, <2>2
  <2> QED
    BY <1>3, <1>8, <2>2, <2>3, <2>4, <2>5, <2>6
<1>10. CrawlTypes'
  <2>1. queue' \in Seq(Taken') /\ wave' \in Seq(Taken') /\ found' \in Seq(Discovered') /\ visits' \in Seq(Mention')
    BY <1>1, <1>2, <1>9, SameNetwork DEF CrawlTypes
  <2>2. order' \in Seq(Hosts') /\ enqueued' \in SUBSET Hosts'
    BY <1>1, <1>2, SameNetwork DEF CrawlTypes
  <2> QED
    BY <1>1, <1>2, <2>1, <2>2 DEF CrawlTypes
<1>11. AnswersInv' /\ AheadInv'
  BY <1>1, <1>2 DEF AnswersInv, AheadInv
<1>12. VisitsInv'
  <2>1. PICK r : r = Rank(v, n)
    OBVIOUS
  <2>2. /\ r \in Nat /\ Tally(v, order) /\ Len(order) = r + m
        /\ \A k \in 1 .. m : order[r + k] = wave[a + k].host
    <3>1. r \in Nat
      BY <1>9, <2>1, RankIs
    <3> QED
      BY <1>1, <1>2, <1>4, <1>8, <2>1, <3>1 DEF VisitsInv, Busy
  <2>3. /\ v \in Seq(Mention) /\ order \in Seq(Hosts)
        /\ \A k \in 1 .. Len(more) : IsHostVisit(more[k]) /\ more[k].host = order[Rank(v, Len(v)) + k]
        /\ Rank(v, Len(v)) + Len(more) <= Len(order)
    <3>1. v \in Seq(Mention) /\ order \in Seq(Hosts)
      BY <1>1, <1>8 DEF CrawlTypes
    <3>2. Rank(v, Len(v)) = r /\ Len(more) = m
      BY <1>7, <1>8, <2>1
    <3>3. r + m <= Len(order)
      BY <1>5, <2>2
    <3> QED
      BY <1>7, <2>2, <3>1, <3>2, <3>3
  <2>4. Tally(all, order) /\ Rank(all, Len(all)) = Rank(v, Len(v)) + Len(more)
    BY <1>7, <1>8, <2>2, <2>3, VisitsGrow
  <2>5. Len(order) = Rank(all, Len(all))
    BY <1>7, <1>8, <2>1, <2>2, <2>4
  <2> QED
    BY <1>2, <1>9, <2>4, <2>5 DEF VisitsInv, Busy
<1>13. OnceInv'
  BY <1>1, <1>2 DEF OnceInv
<1>14. LevelInv'
  <2>1. PICK d \in Nat : AtLevel(d)
    BY <1>1 DEF LevelInv
  <2>2. PICK e : e = d + 1 /\ e \in Nat
    OBVIOUS
  <2>3. /\ \A i \in DOMAIN wave : wave[i].depth = d
        /\ \A i \in DOMAIN queue : queue[i].depth = d + 1
        /\ \A i \in DOMAIN found : found[i].depth <= d
        /\ \A i \in DOMAIN visits : visits[i].depth <= d + 1
    BY <1>2, <2>1 DEF AtLevel, Busy
  <2>4. \A i \in DOMAIN queue : queue[i].depth = e
    BY <2>2, <2>3
  <2>5. \A i \in DOMAIN found : found[i].depth < e
    BY <1>1, <2>2, <2>3, CrawlSizes DEF Discovered
  <2>6. ASSUME NEW k \in 1 .. m PROVE more[k].depth <= e
    <3>1. more[k].depth = wave[a + k].depth /\ a + k \in DOMAIN wave
      BY <1>5, <1>6, <1>7
    <3>2. more[k].depth = d
      BY <2>3, <3>1
    <3> QED
      BY <2>2, <3>2
  <2>7. \A i \in 1 .. n + m : all[i].depth <= e
    BY <1>8, <1>9, <2>2, <2>3, <2>6
  <2>8. e # 0
    BY <2>2
  <2>9. AtLevel(e)'
    BY <1>2, <1>9, <2>4, <2>5, <2>7, <2>8 DEF AtLevel, Busy
  <2> QED
    BY <2>2, <2>9 DEF LevelInv
<1>15. NearestInv'
  <2>1. \A k \in 1 .. m : NearestDepth(more[k].host, more[k].depth)
    BY <1>1, <1>5, <1>6, <1>7 DEF NearestInv
  <2>2. \A i \in 1 .. n + m : IsHostVisit(all[i]) => NearestDepth(all[i].host, all[i].depth)
    BY <1>1, <1>8, <1>9, <2>1 DEF NearestInv
  <2>3. \A i \in DOMAIN visits' : IsHostVisit(visits'[i]) => NearestDepth(visits'[i].host, visits'[i].depth)
    BY <1>9, <2>2
  <2>4. /\ \A i \in DOMAIN wave' : NearestDepth(wave'[i].host, wave'[i].depth)
        /\ \A i \in DOMAIN queue' : NearestDepth(queue'[i].host, queue'[i].depth)
    BY <1>1, <1>2 DEF NearestInv
  <2> QED
    BY <1>2, <2>3, <2>4 DEF NearestInv, NearestDepth, Advertises, IsHostVisit
<1>16. LookedAtInv' /\ MarkersInv' /\ CrawlDevicesDistinct'
  <2>1. \A i \in DOMAIN visits : i \in DOMAIN visits' /\ visits'[i] = visits[i]
    BY <1>8, <1>9
  <2> QED
    BY <1>1, <1>2, <2>1, MoreVisits, SameResults
<1>17. CrawlRaisesOnlyEmpty'
  BY <1>2 DEF CrawlRaisesOnlyEmpty
<1> QED
  BY <1>10, <1>11, <1>12, <1>13, <1>14, <1>15, <1>16, <1>17 DEF CrawlInv

LEMMA VisitOf ==
    ASSUME CrawlTypes, NEW host \in Mentionable, NEW depth \in 0 .. MaxDepth,
           NEW status \in HostVisits \cup {"boundary", "unresolved", "noaddress"}
    PROVE  /\ Visit(host, depth, status) \in Mention
           /\ Visit(host, depth, status).host = host
           /\ Visit(host, depth, status).depth = depth
           /\ Visit(host, depth, status).status = status
BY DEF Visit, Mention

\* One more visit.
LEMMA OneMore ==
    ASSUME NEW S, NEW s \in Seq(S), NEW x \in S, NEW t, t = Append(s, x)
    PROVE  /\ t \in Seq(S) /\ Len(t) = Len(s) + 1 /\ DOMAIN t = 1 .. Len(s) + 1 /\ DOMAIN s = 1 .. Len(s)
           /\ \A i \in DOMAIN s : i \in DOMAIN t /\ t[i] = s[i]
           /\ Len(s) + 1 \in DOMAIN t /\ t[Len(s) + 1] = x
           /\ \A i \in DOMAIN t : i \in DOMAIN s \/ i = Len(s) + 1
OBVIOUS

\* The next host of the wave is visited.
LEMMA NextVisit ==
    ASSUME CrawlTypes, AnswersInv, VisitsInv, crawl = "integrating", integrated < Len(answered),
           NEW item, item = wave[integrated + 1], NEW status \in HostVisits,
           visits' = Append(visits, Visit(item.host, item.depth, status)),
           crawl' = crawl, integrated' = integrated + 1, UNCHANGED <<network, wave, order>>
    PROVE  /\ integrated + 1 \in DOMAIN wave /\ item \in Taken
           /\ visits' \in Seq(Mention) /\ VisitsInv'
           /\ \A i \in DOMAIN visits : i \in DOMAIN visits' /\ visits'[i] = visits[i]
           /\ \A i \in DOMAIN visits' :
                i \in DOMAIN visits \/ (visits'[i].host = item.host /\ visits'[i].depth = item.depth)
<1>1. PICK w, g : w = Len(wave) /\ g = integrated
  OBVIOUS
<1>2. w \in Nat /\ g \in Nat /\ g + 1 \in 1 .. w /\ DOMAIN wave = 1 .. w
  <2>1. g < Len(answered) /\ Len(answered) <= w /\ Len(answered) \in Nat
    BY <1>1, CrawlSizes DEF AnswersInv
  <2> QED
    BY <1>1, <2>1, CrawlSizes
<1>3. item \in Taken
  BY <1>1, <1>2, CrawlSizes
<1>4. PICK x : x = Visit(item.host, item.depth, status)
  OBVIOUS
<1>5. x \in Mention /\ x.host = item.host /\ x.depth = item.depth /\ x.status = status
  <2>1. item.host \in Mentionable /\ item.depth \in 0 .. MaxDepth
    BY <1>3, NetworkIs DEF Taken
  <2> QED
    BY <1>4, <2>1, VisitOf
<1>6. PICK v, t, r : v = visits /\ t = Append(v, x) /\ r = Rank(v, Len(v))
  OBVIOUS
<1>7. v \in Seq(Mention) /\ visits' = t
  BY <1>4, <1>6 DEF CrawlTypes
<1>8. /\ t \in Seq(Mention)
      /\ \A i \in DOMAIN v : i \in DOMAIN t /\ t[i] = v[i]
      /\ \A i \in DOMAIN t : i \in DOMAIN v \/ t[i] = x
  BY <1>5, <1>6, <1>7, OneMore
<1>9. /\ r \in Nat /\ Tally(v, order) /\ Len(order) = r + (w - g)
      /\ \A k \in 1 .. w - g : order[r + k] = wave[g + k].host
  <2>1. r \in Nat
    BY <1>6, CrawlSizes
  <2> QED
    BY <1>1, <1>6, <2>1 DEF VisitsInv, Busy
<1>10. IsHostVisit(x) /\ order[r + 1] = x.host
  <2>1. 1 \in 1 .. w - g
    BY <1>2
  <2>2. order[r + 1] = wave[g + 1].host
    BY <1>9, <2>1
  <2>3. item = wave[g + 1]
    BY <1>1
  <2> QED
    BY <1>5, <2>2, <2>3 DEF IsHostVisit
<1>11. Tally(t, order) /\ Rank(t, Len(t)) = r + 1
  <2>1. PICK one : one = <<x>>
    OBVIOUS
  <2>2. one \in Seq(Mention) /\ Len(one) = 1 /\ one[1] = x
    BY <1>5, <2>1
  <2>3. t = v \o one
    BY <1>5, <1>6, <1>7, <2>1, AppendIsConcat
  <2>4. \A k \in 1 .. Len(one) : k = 1
    BY <2>2
  <2>5. \A k \in 1 .. Len(one) : IsHostVisit(one[k]) /\ one[k].host = order[Rank(v, Len(v)) + k]
    BY <1>6, <1>10, <2>2, <2>4
  <2>6. Rank(v, Len(v)) + Len(one) <= Len(order)
    BY <1>2, <1>6, <1>9, <2>2
  <2>7. order \in Seq(Hosts)
    BY DEF CrawlTypes
  <2>8. Tally(v \o one, order) /\ Rank(v \o one, Len(v \o one)) = Rank(v, Len(v)) + Len(one)
    BY <1>7, <1>9, <2>2, <2>5, <2>6, <2>7, VisitsGrow
  <2> QED
    BY <1>6, <2>2, <2>3, <2>8
<1>12. Len(order) = r + 1 + (w - (g + 1))
  <2>1. Len(order) = r + (w - g) /\ w \in Nat /\ g \in Nat /\ r \in Nat
    BY <1>2, <1>9, Zenon
  <2>2. r + (w - g) = r + 1 + (w - (g + 1))
    BY <2>1
  <2> QED
    BY <2>1, <2>2, Zenon
<1>13. ASSUME NEW k \in 1 .. w - (g + 1) PROVE order[r + 1 + k] = wave[g + 1 + k].host
  <2>1. PICK j : j = k + 1
    OBVIOUS
  <2>2. j \in 1 .. w - g /\ r + j = r + 1 + k /\ g + j = g + 1 + k
    BY <1>2, <1>9, <2>1
  <2>3. order[r + j] = wave[g + j].host
    BY <1>9, <2>2
  <2> QED
    BY <2>2, <2>3
<1>14. VisitsInv'
  <2>1. visits' = t /\ order' = order /\ wave' = wave /\ integrated' = g + 1 /\ Len(wave) = w /\ crawl' = "integrating"
    BY <1>1, <1>7
  <2> QED
    BY <1>11, <1>12, <1>13, <2>1 DEF VisitsInv, Busy
<1>15. integrated + 1 \in DOMAIN wave
  BY <1>1, <1>2
<1>16. \A i \in DOMAIN visits : i \in DOMAIN visits' /\ visits'[i] = visits[i]
  BY <1>6, <1>7, <1>8
<1>17. \A i \in DOMAIN visits' :
         i \in DOMAIN visits \/ (visits'[i].host = item.host /\ visits'[i].depth = item.depth)
  <2>1. ASSUME NEW i \in DOMAIN t
        PROVE  i \in DOMAIN v \/ (t[i].host = item.host /\ t[i].depth = item.depth)
    <3>1. i \in DOMAIN v \/ t[i] = x
      BY <1>8
    <3> QED
      BY <1>5, <3>1, Zenon
  <2>2. v = visits /\ t = visits'
    BY <1>6, <1>7
  <2> QED
    BY <2>1, <2>2, Zenon
<1> QED
  BY <1>3, <1>7, <1>8, <1>14, <1>15, <1>16, <1>17

LEMMA NotedKeepsInv ==
    ASSUME CrawlInv, Integrate, NEW item, item = wave[integrated + 1],
           NEW status \in HostVisits, Noted(status, item)
    PROVE  CrawlInv'
<1>1. /\ CrawlTypes /\ AnswersInv /\ AheadInv /\ VisitsInv /\ OnceInv /\ LevelInv /\ NearestInv
      /\ LookedAtInv /\ MarkersInv /\ CrawlDevicesDistinct /\ CrawlRaisesOnlyEmpty
  BY DEF CrawlInv
<1>2. /\ crawl = "integrating" /\ ahead = <<>> /\ integrated < Len(answered) /\ integrated' = integrated + 1
      /\ UNCHANGED <<network, seeds, wave, answered, order>>
  BY DEF Integrate
<1>3. /\ visits' = Append(visits, Visit(item.host, item.depth, status))
      /\ UNCHANGED <<crawl, queue, found, ahead, enqueued, markers>>
  BY DEF Noted
<1>4. /\ integrated + 1 \in DOMAIN wave /\ item \in Taken
      /\ visits' \in Seq(Mention) /\ VisitsInv'
      /\ \A i \in DOMAIN visits : i \in DOMAIN visits' /\ visits'[i] = visits[i]
      /\ \A i \in DOMAIN visits' :
           i \in DOMAIN visits \/ (visits'[i].host = item.host /\ visits'[i].depth = item.depth)
  BY <1>1, <1>2, <1>3, NextVisit
<1>5. CrawlTypes'
  <2>1. queue' \in Seq(Taken') /\ wave' \in Seq(Taken') /\ found' \in Seq(Discovered') /\ visits' \in Seq(Mention')
    BY <1>1, <1>2, <1>3, <1>4, SameNetwork DEF CrawlTypes
  <2>2. order' \in Seq(Hosts') /\ enqueued' \in SUBSET Hosts'
    BY <1>1, <1>2, <1>3, SameNetwork DEF CrawlTypes
  <2>3. integrated' \in Nat
    BY <1>1, <1>2 DEF CrawlTypes
  <2> QED
    BY <1>1, <1>2, <1>3, <2>1, <2>2, <2>3 DEF CrawlTypes
<1>6. AnswersInv'
  <2>1. integrated + 1 <= Len(answered)
    BY <1>1, <1>2, CrawlSizes
  <2> QED
    BY <1>1, <1>2, <1>3, <2>1 DEF AnswersInv
<1>7. AheadInv'
  BY <1>2, <1>3 DEF AheadInv
<1>8. OnceInv'
  BY <1>1, <1>2, <1>3 DEF OnceInv
<1>9. LevelInv'
  <2>1. PICK d \in Nat : AtLevel(d)
    BY <1>1 DEF LevelInv
  <2>2. /\ \A i \in DOMAIN wave : wave[i].depth = d
        /\ \A i \in DOMAIN queue : queue[i].depth = d + 1
        /\ \A i \in DOMAIN found : found[i].depth <= d
        /\ \A i \in DOMAIN visits : visits[i].depth <= d + 1
        /\ d = 0 => Len(wave) = Len(seeds) /\ Len(found) <= integrated
    BY <1>2, <2>1 DEF AtLevel, Busy
  <2>3. \A i \in DOMAIN visits' : visits'[i].depth <= d + 1
    <3>1. item.depth <= d + 1
      BY <1>4, <2>2
    <3> QED
      BY <1>4, <2>2, <3>1
  <2>4. d = 0 => Len(found) <= integrated + 1
    BY <1>1, <2>2, CrawlSizes
  <2>5. AtLevel(d)'
    BY <1>2, <1>3, <2>2, <2>3, <2>4 DEF AtLevel, Busy
  <2> QED
    BY <2>5 DEF LevelInv
<1>10. NearestInv'
  <2>1. NearestDepth(item.host, item.depth)
    BY <1>1, <1>4 DEF NearestInv
  <2>2. \A i \in DOMAIN visits' : IsHostVisit(visits'[i]) => NearestDepth(visits'[i].host, visits'[i].depth)
    BY <1>1, <1>4, <2>1 DEF NearestInv
  <2>3. /\ \A i \in DOMAIN wave' : NearestDepth(wave'[i].host, wave'[i].depth)
        /\ \A i \in DOMAIN queue' : NearestDepth(queue'[i].host, queue'[i].depth)
    BY <1>1, <1>2, <1>3 DEF NearestInv
  <2> QED
    BY <1>2, <1>3, <2>2, <2>3 DEF NearestInv, NearestDepth, Advertises, IsHostVisit
<1>11. LookedAtInv' /\ MarkersInv' /\ CrawlDevicesDistinct'
  BY <1>1, <1>2, <1>3, <1>4, MoreVisits, SameResults
<1>12. CrawlRaisesOnlyEmpty'
  BY <1>1, <1>3 DEF CrawlRaisesOnlyEmpty
<1> QED
  BY <1>4, <1>5, <1>6, <1>7, <1>8, <1>9, <1>10, <1>11, <1>12 DEF CrawlInv

\* The only seed's error ends the crawl before anything was found.
LEMMA AbortKeepsInv ==
    ASSUME CrawlInv, Integrate, Aborts(wave[integrated + 1]), crawl' = "raised",
           UNCHANGED <<queue, found, ahead, visits, enqueued, markers>>
    PROVE  CrawlInv'
<1>1. /\ CrawlTypes /\ AnswersInv /\ AheadInv /\ VisitsInv /\ OnceInv /\ LevelInv /\ NearestInv
      /\ LookedAtInv /\ MarkersInv /\ CrawlDevicesDistinct /\ CrawlRaisesOnlyEmpty
  BY DEF CrawlInv
<1>2. /\ crawl = "integrating" /\ ahead = <<>> /\ integrated < Len(answered) /\ integrated' = integrated + 1
      /\ UNCHANGED <<network, seeds, wave, answered, order>>
  BY DEF Integrate
<1>3. found = <<>>
  <2>1. PICK d \in Nat : AtLevel(d)
    BY <1>1 DEF LevelInv
  <2>2. integrated \in Nat /\ Len(answered) \in Nat /\ Len(wave) \in Nat /\ Len(answered) <= Len(wave) /\ DOMAIN wave = 1 .. Len(wave)
    BY <1>1, <1>2, CrawlSizes DEF AnswersInv
  <2>3. integrated + 1 \in DOMAIN wave
    BY <1>2, <2>2
  <2>4. wave[integrated + 1].depth = 0 /\ Len(seeds) = 1
    BY DEF Aborts
  <2>5. d = 0
    BY <1>2, <2>1, <2>3, <2>4 DEF AtLevel, Busy
  <2>6. Len(wave) = 1 /\ Len(found) <= integrated
    BY <1>2, <2>1, <2>4, <2>5 DEF AtLevel, Busy
  <2>7. Len(found) = 0
    BY <1>1, <1>2, <2>2, <2>6, CrawlSizes
  <2> QED
    BY <1>1, <2>7 DEF CrawlTypes
<1>4. CrawlTypes'
  <2>1. queue' \in Seq(Taken') /\ wave' \in Seq(Taken') /\ found' \in Seq(Discovered') /\ visits' \in Seq(Mention')
    BY <1>1, <1>2, SameNetwork DEF CrawlTypes
  <2>2. order' \in Seq(Hosts') /\ enqueued' \in SUBSET Hosts'
    BY <1>1, <1>2, SameNetwork DEF CrawlTypes
  <2>3. integrated' \in Nat
    BY <1>1, <1>2 DEF CrawlTypes
  <2> QED
    BY <1>1, <1>2, <2>1, <2>2, <2>3 DEF CrawlTypes
<1>5. AnswersInv' /\ AheadInv'
  BY <1>1, <1>2 DEF AnswersInv, AheadInv
<1>6. VisitsInv'
  BY <1>1, <1>2 DEF VisitsInv, Busy
<1>7. OnceInv'
  BY <1>1, <1>2 DEF OnceInv
<1>8. LevelInv'
  <2>1. AtLevel(0)'
    BY DEF AtLevel, Busy
  <2> QED
    BY <2>1 DEF LevelInv
<1>9. NearestInv'
  BY <1>1, <1>2 DEF NearestInv, NearestDepth, Advertises, IsHostVisit
<1>10. LookedAtInv' /\ MarkersInv' /\ CrawlDevicesDistinct'
  BY <1>1, <1>2, SameLookedAt, SameResults
<1>11. CrawlRaisesOnlyEmpty'
  BY <1>3 DEF CrawlRaisesOnlyEmpty
<1> QED
  BY <1>4, <1>5, <1>6, <1>7, <1>8, <1>9, <1>10, <1>11 DEF CrawlInv

\* A new result is as deep as the hosts of the wave, and no host that was
\* reached before is deeper than its neighbors are.
LEMMA NearestStays ==
    ASSUME CrawlTypes, NEW r \in Discovered, found' = Append(found, r), UNCHANGED <<network, seeds>>,
           NEW host, NEW depth, NearestDepth(host, depth), depth <= 1 + r.depth
    PROVE  NearestDepth(host, depth)'
<1>1. PICK all : all = Append(found, r)
  OBVIOUS
<1>2. found \in Seq(Discovered)
  BY DEF CrawlTypes
<1>3. /\ \A i \in DOMAIN found : i \in DOMAIN all /\ all[i] = found[i]
      /\ \A i \in DOMAIN all : i \in DOMAIN found \/ all[i] = r
  BY <1>1, <1>2, OneMore
<1>4. found' = all /\ network' = network /\ seeds' = seeds
  BY <1>1
<1>5. CASE host \in ToSet(seeds)
  BY <1>4, <1>5 DEF NearestDepth
<1>6. CASE host \notin ToSet(seeds)
  <2>1. PICK j \in DOMAIN found : Advertises(found[j], host) /\ depth = 1 + found[j].depth
    BY <1>6 DEF NearestDepth
  <2>2. \E i \in DOMAIN all : Advertises(all[i], host) /\ depth = 1 + all[i].depth
    BY <1>3, <2>1
  <2>3. \A i \in DOMAIN found : Advertises(found[i], host) => depth <= 1 + found[i].depth
    BY <1>6 DEF NearestDepth
  <2>4. \A i \in DOMAIN all : Advertises(all[i], host) => depth <= 1 + all[i].depth
    BY <1>3, <2>3
  <2> QED
    BY <1>4, <1>6, <2>2, <2>4 DEF NearestDepth, Advertises
<1> QED
  BY <1>5, <1>6

LEMMA DiscoverKeepsInv ==
    ASSUME CrawlInv, Integrate, NEW item, item = wave[integrated + 1], NEW device, device = network[item.host],
           Len(found) < MaxDevices, ~Known(device), Discover(item, device)
    PROVE  CrawlInv'
<1>1. /\ CrawlTypes /\ AnswersInv /\ AheadInv /\ VisitsInv /\ OnceInv /\ LevelInv /\ NearestInv
      /\ LookedAtInv /\ MarkersInv /\ CrawlDevicesDistinct /\ CrawlRaisesOnlyEmpty
  BY DEF CrawlInv
<1>2. /\ crawl = "integrating" /\ ahead = <<>> /\ integrated < Len(answered) /\ integrated' = integrated + 1
      /\ UNCHANGED <<network, seeds, wave, answered, order>>
  BY DEF Integrate
<1>3. /\ visits' = Append(visits, Visit(item.host, item.depth, "connected"))
      /\ ahead' = IF item.depth >= MaxDepth THEN <<>> ELSE device.neighbors
      /\ UNCHANGED <<crawl, queue, enqueued, markers>>
  BY DEF Discover, AtTheEdge
<1>4. "connected" \in HostVisits
  BY DEF HostVisits
<1>5. /\ integrated + 1 \in DOMAIN wave /\ item \in Taken
      /\ visits' \in Seq(Mention) /\ VisitsInv'
      /\ \A i \in DOMAIN visits : i \in DOMAIN visits' /\ visits'[i] = visits[i]
      /\ \A i \in DOMAIN visits' :
           i \in DOMAIN visits \/ (visits'[i].host = item.host /\ visits'[i].depth = item.depth)
  BY <1>1, <1>2, <1>3, <1>4, NextVisit
<1>6. PICK r : r = [id |-> device.id, serial |-> device.serial, host |-> item.host, depth |-> item.depth]
  OBVIOUS
<1>7. item.host \in Hosts /\ item.depth \in 0 .. MaxDepth /\ item.depth \in Nat
  BY <1>1, <1>5, CrawlSizes DEF Taken
<1>8. /\ r \in Discovered /\ r.id = device.id /\ r.serial = device.serial
      /\ r.host = item.host /\ r.depth = item.depth
  BY <1>6, <1>7 DEF Discovered
<1>9. PICK n, all : n = Len(found) /\ all = Append(found, r)
  OBVIOUS
<1>10. found' = all /\ found \in Seq(Discovered)
  BY <1>1, <1>6, <1>9 DEF Discover, CrawlTypes
<1>11. /\ n \in Nat /\ all \in Seq(Discovered) /\ Len(all) = n + 1 /\ DOMAIN all = 1 .. n + 1 /\ DOMAIN found = 1 .. n
       /\ \A i \in DOMAIN found : i \in DOMAIN all /\ all[i] = found[i]
       /\ n + 1 \in DOMAIN all /\ all[n + 1] = r
       /\ \A i \in DOMAIN all : i \in DOMAIN found \/ i = n + 1
  BY <1>8, <1>9, <1>10, OneMore
<1>12. Last(all) = r
  BY <1>11 DEF Last
<1>13. PICK d \in Nat : AtLevel(d)
  BY <1>1 DEF LevelInv
<1>14. /\ \A i \in DOMAIN wave : wave[i].depth = d
       /\ \A i \in DOMAIN queue : queue[i].depth = d + 1
       /\ \A i \in DOMAIN found : found[i].depth <= d
       /\ \A i \in DOMAIN visits : visits[i].depth <= d + 1
       /\ d = 0 => Len(wave) = Len(seeds) /\ Len(found) <= integrated
  BY <1>2, <1>13 DEF AtLevel, Busy
<1>15. item.depth = d /\ r.depth = d
  BY <1>5, <1>8, <1>14
<1>16. CrawlTypes'
  <2>1. queue' \in Seq(Taken') /\ wave' \in Seq(Taken') /\ found' \in Seq(Discovered') /\ visits' \in Seq(Mention')
    BY <1>1, <1>2, <1>3, <1>5, <1>10, <1>11, SameNetwork DEF CrawlTypes
  <2>2. order' \in Seq(Hosts') /\ enqueued' \in SUBSET Hosts'
    BY <1>1, <1>2, <1>3, SameNetwork DEF CrawlTypes
  <2>3. integrated' \in Nat
    BY <1>1, <1>2 DEF CrawlTypes
  <2> QED
    BY <1>1, <1>2, <1>3, <2>1, <2>2, <2>3 DEF CrawlTypes
<1>17. AnswersInv'
  <2>1. integrated + 1 <= Len(answered)
    BY <1>1, <1>2, CrawlSizes
  <2>2. Len(all) <= MaxDevices
    BY <1>1, <1>9, <1>11, NetworkIs
  <2> QED
    BY <1>1, <1>2, <1>3, <1>10, <2>1, <2>2 DEF AnswersInv
<1>18. AheadInv'
  <2>1. SUFFICES ASSUME ahead' # <<>>
                 PROVE  /\ crawl' = "integrating" /\ all # <<>> /\ r.depth < MaxDepth
                        /\ ahead' \in Seq(Neighbors(r.host))
    BY <1>2, <1>10, <1>12 DEF AheadInv, Neighbors
  <2>2. r.depth < MaxDepth /\ ahead' = network[r.host].neighbors
    BY <1>1, <1>3, <1>7, <1>8, <2>1, NetworkIs
  <2>3. all # <<>>
    BY <1>11
  <2> QED
    BY <1>1, <1>2, <1>3, <1>7, <1>8, <2>2, <2>3, NetworkIs
<1>19. OnceInv'
  BY <1>1, <1>2, <1>3 DEF OnceInv
<1>20. LevelInv'
  <2>1. \A i \in DOMAIN visits' : visits'[i].depth <= d + 1
    <3>1. item.depth <= d + 1
      BY <1>15
    <3> QED
      BY <1>5, <1>14, <3>1
  <2>2. \A i \in DOMAIN all : all[i].depth <= d
    BY <1>11, <1>14, <1>15
  <2>3. d = 0 => Len(wave) = Len(seeds) /\ Len(all) <= integrated + 1
    BY <1>1, <1>9, <1>11, <1>14, CrawlSizes
  <2>4. Last(found').depth = d
    BY <1>10, <1>12, <1>15
  <2>5. AtLevel(d)'
    BY <1>2, <1>3, <1>10, <1>14, <2>1, <2>2, <2>3, <2>4 DEF AtLevel, Busy
  <2> QED
    BY <2>5 DEF LevelInv
<1>21. NearestInv'
  <2>1. ASSUME NEW host, NEW depth, NearestDepth(host, depth), depth <= d + 1 PROVE NearestDepth(host, depth)'
    <3>1. depth <= 1 + r.depth
      BY <1>15, <2>1
    <3> QED
      BY <1>1, <1>2, <1>8, <1>9, <1>10, <2>1, <3>1, NearestStays
  <2>2. ASSUME NEW i \in DOMAIN wave' PROVE NearestDepth(wave[i].host, wave[i].depth)'
    <3>1. PICK h, e : h = wave[i].host /\ e = wave[i].depth
      OBVIOUS
    <3>2. NearestDepth(h, e) /\ e <= d + 1
      BY <1>1, <1>2, <1>14, <3>1 DEF NearestInv
    <3>3. NearestDepth(h, e)'
      BY <2>1, <3>2
    <3>4. wave'[i].host = h /\ wave'[i].depth = e
      BY <1>2, <3>1
    <3> QED
      BY <3>3, <3>4 DEF NearestDepth
  <2>3. ASSUME NEW i \in DOMAIN queue' PROVE NearestDepth(queue[i].host, queue[i].depth)'
    <3>1. PICK h, e : h = queue[i].host /\ e = queue[i].depth
      OBVIOUS
    <3>2. NearestDepth(h, e) /\ e <= d + 1
      BY <1>1, <1>3, <1>14, <3>1 DEF NearestInv
    <3>3. NearestDepth(h, e)'
      BY <2>1, <3>2
    <3>4. queue'[i].host = h /\ queue'[i].depth = e
      BY <1>3, <3>1
    <3> QED
      BY <3>3, <3>4 DEF NearestDepth
  <2>4. ASSUME NEW i \in DOMAIN visits', IsHostVisit(visits'[i]) PROVE NearestDepth(visits[i].host, visits[i].depth)'
    <3>1. PICK h, e : h = visits'[i].host /\ e = visits'[i].depth
      OBVIOUS
    <3>2. NearestDepth(h, e) /\ e <= d + 1
      <4>1. CASE i \in DOMAIN visits
        BY <1>1, <1>5, <1>14, <2>4, <3>1, <4>1 DEF NearestInv
      <4>2. CASE i \notin DOMAIN visits
        <5>1. h = item.host /\ e = item.depth
          BY <1>5, <3>1, <4>2
        <5>2. NearestDepth(item.host, item.depth)
          BY <1>1, <1>5 DEF NearestInv
        <5>3. e <= d + 1
          BY <1>15, <5>1
        <5> QED
          BY <5>1, <5>2, <5>3
      <4> QED
        BY <4>1, <4>2
    <3>3. NearestDepth(h, e)'
      BY <2>1, <3>2
    <3> QED
      BY <3>1, <3>3 DEF NearestDepth
  <2> QED
    BY <2>2, <2>3, <2>4 DEF NearestInv, IsHostVisit
<1>22. LookedAtInv'
  <2> SUFFICES ASSUME NEW j \in DOMAIN all, NEW x \in Neighbors(all[j].host), LookedAt(j, x)'
               PROVE  /\ MayBeFollowed(x) => x.address \in enqueued
                      /\ x.address \in enqueued \/ \E i \in DOMAIN visits' : visits'[i].host \in {x.address, x.name}
    BY <1>2, <1>3, <1>10 DEF LookedAtInv, Neighbors
  <2>1. /\ all[j].depth < MaxDepth
        /\ j = Len(all) => x \notin ToSet(ahead')
    BY <1>10 DEF LookedAt
  <2>2. j # n + 1
    <3> SUFFICES ASSUME j = n + 1 PROVE FALSE
      OBVIOUS
    <3>1. all[j] = r /\ r.depth < MaxDepth /\ x \notin ToSet(ahead')
      BY <1>11, <2>1
    <3>2. ahead' = network[r.host].neighbors
      BY <1>1, <1>3, <1>7, <1>8, <3>1, NetworkIs
    <3> QED
      BY <3>1, <3>2 DEF Neighbors
  <2>3. j \in DOMAIN found /\ found[j] = all[j]
    BY <1>11, <2>2
  <2>4. ToSet(ahead) = {}
    BY <1>2 DEF ToSet
  <2>5. LookedAt(j, x)
    BY <2>1, <2>3, <2>4 DEF LookedAt
  <2>6. /\ MayBeFollowed(x) => x.address \in enqueued
        /\ x.address \in enqueued \/ \E i \in DOMAIN visits : visits[i].host \in {x.address, x.name}
    BY <1>1, <2>3, <2>5 DEF LookedAtInv
  <2> QED
    BY <1>5, <2>6
<1>23. MarkersInv'
  <2> SUFFICES ASSUME NEW m \in markers
               PROVE  \E i \in DOMAIN visits' : visits'[i].host = PaperName(m)
    BY <1>3 DEF MarkersInv, PaperName
  <2>1. PICK h : h = PaperName(m)
    OBVIOUS
  <2>2. \E i \in DOMAIN visits : visits[i].host = h
    BY <1>1, <2>1 DEF MarkersInv
  <2> QED
    BY <1>5, <2>1, <2>2
<1>24. CrawlDevicesDistinct'
  <2>1. \A i \in DOMAIN found :
          /\ found[i].id # r.id
          /\ r.serial # "" => found[i].serial # r.serial
    BY <1>8 DEF Known
  <2>2. \A i, j \in DOMAIN found :
          /\ found[i].id = found[j].id => i = j
          /\ found[i].serial = found[j].serial /\ found[i].serial # "" => i = j
    BY <1>1 DEF CrawlDevicesDistinct
  <2>3. ASSUME NEW i \in DOMAIN all, NEW j \in DOMAIN all
        PROVE  /\ all[i].id = all[j].id => i = j
               /\ all[i].serial = all[j].serial /\ all[i].serial # "" => i = j
    <3>1. CASE i \in DOMAIN found /\ j \in DOMAIN found
      <4>1. all[i] = found[i] /\ all[j] = found[j]
        BY <1>11, <3>1
      <4> QED
        BY <2>2, <3>1, <4>1
    <3>2. CASE i \in DOMAIN found /\ j = n + 1
      <4>1. all[i] = found[i] /\ all[j] = r
        BY <1>11, <3>2
      <4> QED
        BY <2>1, <3>2, <4>1
    <3>3. CASE i = n + 1 /\ j \in DOMAIN found
      <4>1. all[i] = r /\ all[j] = found[j]
        BY <1>11, <3>3
      <4> QED
        BY <2>1, <3>3, <4>1
    <3> QED
      BY <1>11, <3>1, <3>2, <3>3
  <2> QED
    BY <1>10, <2>3 DEF CrawlDevicesDistinct
<1>25. CrawlRaisesOnlyEmpty'
  BY <1>2, <1>3 DEF CrawlRaisesOnlyEmpty
<1> QED
  BY <1>5, <1>16, <1>17, <1>18, <1>19, <1>20, <1>21, <1>22, <1>23, <1>24, <1>25 DEF CrawlInv

LEMMA IntegrateKeepsInv == ASSUME CrawlInv, Integrate PROVE CrawlInv'
<1>1. PICK item, answer : item = wave[integrated + 1] /\ answer = network[item.host]
  OBVIOUS
<1>2. IF Len(found) >= MaxDevices THEN Noted("limit", item)
      ELSE IF ~answer.up
      THEN IF Aborts(item)
           THEN crawl' = "raised" /\ UNCHANGED <<queue, found, ahead, visits, enqueued, markers>>
           ELSE Noted("failed", item)
      ELSE IF Known(answer) THEN Noted("duplicate", item)
      ELSE Discover(item, answer)
  BY <1>1 DEF Integrate, Place
<1>3. {"limit", "failed", "duplicate"} \subseteq HostVisits
  BY DEF HostVisits
<1>4. CASE \E status \in HostVisits : Noted(status, item)
  BY <1>1, <1>4, NotedKeepsInv
<1>5. CASE Aborts(item) /\ crawl' = "raised" /\ UNCHANGED <<queue, found, ahead, visits, enqueued, markers>>
  BY <1>1, <1>5, AbortKeepsInv
<1>6. CASE ~(Len(found) >= MaxDevices) /\ ~Known(answer) /\ Discover(item, answer)
  <2>1. Len(found) < MaxDevices
    BY <1>6, CrawlSizes, NetworkIs DEF CrawlInv
  <2> QED
    BY <1>1, <1>6, <2>1, DiscoverKeepsInv
<1> QED
  BY <1>2, <1>3, <1>4, <1>5, <1>6

LEMMA HeadOrTail ==
    ASSUME NEW S, NEW s \in Seq(S), s # <<>>, NEW t, t = Tail(s)
    PROVE  Head(s) \in S /\ t \in Seq(S) /\ \A x \in ToSet(s) : x = Head(s) \/ x \in ToSet(t)
<1>1. Head(s) \in S /\ t \in Seq(S) /\ Len(t) = Len(s) - 1 /\ (\A i \in 1 .. Len(t) : t[i] = s[i + 1]) /\ Head(s) = s[1]
  BY HeadTailProperties
<1>2. PICK n : n = Len(s) /\ n \in Nat /\ DOMAIN s = 1 .. n
  OBVIOUS
<1>3. DOMAIN t = 1 .. n - 1
  BY <1>1, <1>2
<1>4. ASSUME NEW x \in ToSet(s) PROVE x = Head(s) \/ x \in ToSet(t)
  <2>1. PICK i \in 1 .. n : x = s[i]
    BY <1>2 DEF ToSet
  <2>2. CASE i = 1
    BY <1>1, <2>1, <2>2
  <2>3. CASE i # 1
    <3>1. PICK k : k = i - 1
      OBVIOUS
    <3>2. k \in 1 .. n - 1 /\ k + 1 = i
      BY <1>2, <2>3, <3>1
    <3>3. t[k] = x
      BY <1>1, <1>2, <2>1, <3>2
    <3> QED
      BY <1>3, <3>2, <3>3 DEF ToSet
  <2> QED
    BY <2>2, <2>3
<1> QED
  BY <1>1, <1>4

\* What holds while the neighbors of the last result are looked at.
LEMMA LookingAt ==
    ASSUME CrawlTypes, AheadInv, LevelInv, ahead # <<>>
    PROVE  /\ crawl = "integrating" /\ Len(found) \in DOMAIN found
           /\ Last(found) = found[Len(found)] /\ Last(found) \in Discovered /\ Last(found).host \in Hosts
           /\ Last(found).depth \in Nat /\ Last(found).depth < MaxDepth
           /\ Last(found).depth + 1 \in 0 .. MaxDepth
           /\ Head(ahead) \in Neighbors(Last(found).host)
           /\ Tail(ahead) \in Seq(Neighbors(Last(found).host))
           /\ \A n \in ToSet(ahead) : n = Head(ahead) \/ n \in ToSet(Tail(ahead))
           /\ AtLevel(Last(found).depth)
<1>1. crawl = "integrating" /\ found # <<>> /\ Last(found).depth < MaxDepth /\ ahead \in Seq(Neighbors(Last(found).host))
  BY DEF AheadInv
<1>2. Len(found) \in DOMAIN found
  BY <1>1, CrawlSizes DEF CrawlTypes
<1>3. Last(found) = found[Len(found)] /\ Last(found) \in Discovered
  BY <1>2, CrawlSizes DEF Last
<1>4. Last(found).host \in Hosts /\ Last(found).depth \in 0 .. MaxDepth
  BY <1>3 DEF Discovered
<1>5. Last(found).depth \in Nat /\ Last(found).depth + 1 \in 0 .. MaxDepth
  BY <1>1, <1>4, NetworkIs
<1>6. /\ Head(ahead) \in Neighbors(Last(found).host)
      /\ Tail(ahead) \in Seq(Neighbors(Last(found).host))
      /\ \A n \in ToSet(ahead) : n = Head(ahead) \/ n \in ToSet(Tail(ahead))
  BY <1>1, HeadOrTail
<1>7. PICK d \in Nat : AtLevel(d)
  BY DEF LevelInv
<1>8. Last(found).depth = d
  BY <1>1, <1>7 DEF AtLevel, Busy
<1>9. AtLevel(Last(found).depth)
  BY <1>7, <1>8 DEF AtLevel, Busy
<1> QED
  BY <1>1, <1>2, <1>3, <1>4, <1>5, <1>6, <1>9

\* The neighbor at the head is dealt with, and nothing is taken back.
LEMMA LookedAtHead ==
    ASSUME CrawlTypes, AheadInv, LevelInv, LookedAtInv, ahead # <<>>, ahead' = Tail(ahead),
           UNCHANGED <<network, found>>, enqueued \subseteq enqueued',
           \A i \in DOMAIN visits : i \in DOMAIN visits' /\ visits'[i] = visits[i],
           MayBeFollowed(Head(ahead)) => Head(ahead).address \in enqueued',
           \/ Head(ahead).address \in enqueued'
           \/ \E i \in DOMAIN visits' : visits'[i].host \in {Head(ahead).address, Head(ahead).name}
    PROVE  LookedAtInv'
<1> SUFFICES ASSUME NEW j \in DOMAIN found, NEW x \in Neighbors(found[j].host), LookedAt(j, x)'
             PROVE  /\ MayBeFollowed(x) => x.address \in enqueued'
                    /\ x.address \in enqueued' \/ \E i \in DOMAIN visits' : visits'[i].host \in {x.address, x.name}
  BY DEF LookedAtInv, Neighbors
<1>1. found[j].depth < MaxDepth /\ (j = Len(found) => x \notin ToSet(Tail(ahead)))
  BY DEF LookedAt
<1>2. CASE x = Head(ahead)
  BY <1>2
<1>3. CASE x # Head(ahead)
  <2>1. j = Len(found) => x \notin ToSet(ahead)
    BY <1>1, <1>3, LookingAt
  <2>2. LookedAt(j, x)
    BY <1>1, <2>1 DEF LookedAt
  <2>3. /\ MayBeFollowed(x) => x.address \in enqueued
        /\ x.address \in enqueued \/ \E i \in DOMAIN visits : visits[i].host \in {x.address, x.name}
    BY <2>2 DEF LookedAtInv
  <2> QED
    BY <2>3
<1> QED
  BY <1>2, <1>3

LEMMA SkippedKeepsInv ==
    ASSUME CrawlInv, ahead # <<>>, ahead' = Tail(ahead),
           UNCHANGED <<network, seeds, crawl, wave, answered, integrated, found, order>>,
           NEW status \in {"boundary", "unresolved", "noaddress"}, NEW host \in Mentionable, NEW marker,
           host = PaperName(marker), host \in {Head(ahead).address, Head(ahead).name},
           ~MayBeFollowed(Head(ahead)), Skipped(host, status, marker)
    PROVE  CrawlInv'
<1>1. /\ CrawlTypes /\ AnswersInv /\ AheadInv /\ VisitsInv /\ OnceInv /\ LevelInv /\ NearestInv
      /\ LookedAtInv /\ MarkersInv /\ CrawlDevicesDistinct /\ CrawlRaisesOnlyEmpty
  BY DEF CrawlInv
<1>2. PICK d : d = Last(found).depth
  OBVIOUS
<1>3. /\ crawl = "integrating" /\ d \in Nat /\ d + 1 \in 0 .. MaxDepth /\ AtLevel(d) /\ d < MaxDepth
      /\ Tail(ahead) \in Seq(Neighbors(Last(found).host))
  <2>1. crawl = "integrating" /\ d \in Nat /\ d + 1 \in 0 .. MaxDepth /\ d < MaxDepth /\ Tail(ahead) \in Seq(Neighbors(Last(found).host))
    BY <1>1, <1>2, LookingAt
  <2>2. AtLevel(d)
    BY <1>1, <1>2, LookingAt DEF AtLevel, Busy
  <2> QED
    BY <2>1, <2>2
<1>4. UNCHANGED <<queue, enqueued>>
  BY DEF Skipped
<1>5. PICK x : x = Visit(host, d + 1, status)
  OBVIOUS
<1>6. x \in Mention /\ x.host = host /\ x.depth = d + 1 /\ ~IsHostVisit(x)
  <2>1. status \in HostVisits \cup {"boundary", "unresolved", "noaddress"} /\ status \notin HostVisits
    BY DEF HostVisits
  <2>2. x \in Mention /\ x.host = host /\ x.depth = d + 1 /\ x.status = status
    BY <1>1, <1>3, <1>5, <2>1, VisitOf
  <2> QED
    BY <2>1, <2>2 DEF IsHostVisit
<1>7. \/ marker \in markers /\ UNCHANGED <<visits, markers>>
      \/ markers' = markers \cup {marker} /\ visits' = Append(visits, x)
  BY <1>2, <1>5 DEF Skipped, Deeper
<1>8. /\ visits' \in Seq(Mention) /\ VisitsInv'
      /\ \A i \in DOMAIN visits : i \in DOMAIN visits' /\ visits'[i] = visits[i]
      /\ \A i \in DOMAIN visits' : i \in DOMAIN visits \/ visits'[i] = x
      /\ \E i \in DOMAIN visits' : visits'[i].host = host
      /\ MarkersInv'
  <2>1. CASE marker \in markers /\ UNCHANGED <<visits, markers>>
    <3>1. visits \in Seq(Mention) /\ \A i \in DOMAIN visits' : i \in DOMAIN visits
      BY <1>1, <2>1 DEF CrawlTypes
    <3>2. \E i \in DOMAIN visits : visits[i].host = host
      BY <1>1, <2>1 DEF MarkersInv, PaperName
    <3>3. VisitsInv'
      BY <1>1, <1>4, <2>1 DEF VisitsInv, Busy
    <3>4. MarkersInv'
      BY <1>1, <2>1 DEF MarkersInv
    <3> QED
      BY <2>1, <3>1, <3>2, <3>3, <3>4
  <2>2. CASE markers' = markers \cup {marker} /\ visits' = Append(visits, x)
    <3>1. PICK v, t : v = visits /\ t = visits'
      OBVIOUS
    <3>2. v \in Seq(Mention) /\ t = Append(v, x)
      BY <1>1, <2>2, <3>1 DEF CrawlTypes
    <3>3. /\ t \in Seq(Mention)
          /\ \A i \in DOMAIN v : i \in DOMAIN t /\ t[i] = v[i]
          /\ Len(v) + 1 \in DOMAIN t /\ t[Len(v) + 1] = x
          /\ \A i \in DOMAIN t : i \in DOMAIN v \/ t[i] = x
      BY <1>6, <3>2, OneMore
    <3>4. Tally(t, order) /\ Rank(t, Len(t)) = Rank(v, Len(v))
      <4>1. Tally(v, order)
        BY <1>1, <3>1 DEF VisitsInv
      <4> QED
        BY <1>6, <3>2, <4>1, PaperVisit
    <3>5. VisitsInv'
      BY <1>1, <1>4, <3>1, <3>4 DEF VisitsInv, Busy
    <3>6. ASSUME NEW m \in markers' PROVE \E i \in DOMAIN t : t[i].host = PaperName(m)
      <4>1. CASE m \in markers
        <5>1. PICK i \in DOMAIN v : v[i].host = PaperName(m)
          BY <1>1, <3>1, <4>1 DEF MarkersInv, PaperName
        <5> QED
          BY <3>3, <5>1
      <4>2. CASE m = marker
        BY <1>6, <3>3, <4>2
      <4> QED
        BY <2>2, <4>1, <4>2
    <3>7. MarkersInv'
      BY <3>1, <3>6 DEF MarkersInv, PaperName
    <3>8. \E i \in DOMAIN t : t[i].host = host
      BY <1>6, <3>3
    <3> QED
      BY <3>1, <3>3, <3>5, <3>7, <3>8
  <2> QED
    BY <1>7, <2>1, <2>2
<1>9. CrawlTypes'
  <2>1. queue' \in Seq(Taken') /\ wave' \in Seq(Taken') /\ found' \in Seq(Discovered') /\ visits' \in Seq(Mention')
    BY <1>1, <1>4, <1>8, SameNetwork DEF CrawlTypes
  <2>2. order' \in Seq(Hosts') /\ enqueued' \in SUBSET Hosts'
    BY <1>1, <1>4, SameNetwork DEF CrawlTypes
  <2> QED
    BY <1>1, <2>1, <2>2 DEF CrawlTypes
<1>10. AnswersInv'
  BY <1>1 DEF AnswersInv, Attempted
<1>11. AheadInv'
  BY <1>1, <1>2, <1>3 DEF AheadInv, Neighbors
<1>12. OnceInv'
  BY <1>1, <1>4 DEF OnceInv
<1>13. LevelInv'
  <2>1. /\ \A i \in DOMAIN wave : wave[i].depth = d
        /\ \A i \in DOMAIN queue : queue[i].depth = d + 1
        /\ \A i \in DOMAIN found : found[i].depth <= d
        /\ \A i \in DOMAIN visits : visits[i].depth <= d + 1
        /\ d = 0 => Len(wave) = Len(seeds) /\ Len(found) <= integrated
    BY <1>3 DEF AtLevel, Busy
  <2>2. \A i \in DOMAIN visits' : visits'[i].depth <= d + 1
    <3>1. x.depth <= d + 1
      BY <1>3, <1>6
    <3> QED
      BY <1>8, <2>1, <3>1
  <2>3. AtLevel(d)'
    BY <1>2, <1>3, <1>4, <2>1, <2>2 DEF AtLevel, Busy
  <2> QED
    BY <1>3, <2>3 DEF LevelInv
<1>14. NearestInv'
  <2>1. \A i \in DOMAIN visits' : IsHostVisit(visits'[i]) => NearestDepth(visits'[i].host, visits'[i].depth)
    BY <1>1, <1>6, <1>8 DEF NearestInv
  <2>2. /\ \A i \in DOMAIN wave' : NearestDepth(wave'[i].host, wave'[i].depth)
        /\ \A i \in DOMAIN queue' : NearestDepth(queue'[i].host, queue'[i].depth)
    BY <1>1, <1>4 DEF NearestInv
  <2> QED
    BY <2>1, <2>2 DEF NearestInv, NearestDepth, Advertises, IsHostVisit
<1>15. LookedAtInv'
  <2>1. \E i \in DOMAIN visits' : visits'[i].host \in {Head(ahead).address, Head(ahead).name}
    BY <1>8
  <2> QED
    BY <1>1, <1>4, <1>8, <2>1, LookedAtHead
<1>16. CrawlDevicesDistinct'
  BY <1>1, SameResults
<1>17. CrawlRaisesOnlyEmpty'
  BY <1>1 DEF CrawlRaisesOnlyEmpty
<1> QED
  BY <1>8, <1>9, <1>10, <1>11, <1>12, <1>13, <1>14, <1>15, <1>16, <1>17 DEF CrawlInv

LEMMA EnqueuedKeepsInv ==
    ASSUME CrawlInv, ahead # <<>>, ahead' = Tail(ahead),
           UNCHANGED <<network, seeds, crawl, wave, answered, integrated, found, order>>,
           NEW host, host = Head(ahead).address, host \in enqueued, UNCHANGED <<queue, enqueued, visits, markers>>
    PROVE  CrawlInv'
<1>1. /\ CrawlTypes /\ AnswersInv /\ AheadInv /\ VisitsInv /\ OnceInv /\ LevelInv /\ NearestInv
      /\ LookedAtInv /\ MarkersInv /\ CrawlDevicesDistinct /\ CrawlRaisesOnlyEmpty
  BY DEF CrawlInv
<1>2. PICK d : d = Last(found).depth
  OBVIOUS
<1>3. /\ crawl = "integrating" /\ d \in Nat /\ Tail(ahead) \in Seq(Neighbors(Last(found).host))
  BY <1>1, <1>2, LookingAt
<1>4. AtLevel(d)
  BY <1>1, <1>2, LookingAt DEF AtLevel, Busy
<1>5. CrawlTypes'
  BY <1>1, SameNetwork DEF CrawlTypes
<1>6. AnswersInv'
  BY <1>1 DEF AnswersInv, Attempted
<1>7. AheadInv'
  BY <1>1, <1>3 DEF AheadInv, Neighbors
<1>8. VisitsInv'
  BY <1>1 DEF VisitsInv, Busy
<1>9. OnceInv'
  BY <1>1 DEF OnceInv
<1>10. LevelInv'
  <2>1. AtLevel(d)'
    BY <1>2, <1>3, <1>4 DEF AtLevel, Busy
  <2> QED
    BY <1>3, <2>1 DEF LevelInv
<1>11. NearestInv'
  BY <1>1 DEF NearestInv, NearestDepth, Advertises, IsHostVisit
<1>12. LookedAtInv'
  BY <1>1, LookedAtHead
<1>13. MarkersInv'
  BY <1>1 DEF MarkersInv
<1>14. CrawlDevicesDistinct' /\ CrawlRaisesOnlyEmpty'
  BY <1>1, SameResults DEF CrawlRaisesOnlyEmpty
<1> QED
  BY <1>5, <1>6, <1>7, <1>8, <1>9, <1>10, <1>11, <1>12, <1>13, <1>14 DEF CrawlInv

\* The last result is the first, and none is nearer, that advertises a host that
\* was not enqueued.
LEMMA NewHost ==
    ASSUME CrawlTypes, AheadInv, LevelInv, OnceInv, LookedAtInv, ahead # <<>>,
           NEW host, host = Head(ahead).address, host \notin enqueued, MayBeFollowed(Head(ahead))
    PROVE  NearestDepth(host, Last(found).depth + 1)
<1>1. host \notin ToSet(seeds)
  BY DEF OnceInv, ToSet
<1>2. PICK f, l : f = Len(found) /\ l = Last(found)
  OBVIOUS
<1>3. f \in DOMAIN found /\ l = found[f] /\ l.depth \in Nat /\ l.depth < MaxDepth /\ Head(ahead) \in Neighbors(l.host)
  BY <1>2, LookingAt
<1>4. Advertises(found[f], host)
  BY <1>3 DEF Advertises, Neighbors
<1>5. ASSUME NEW j \in DOMAIN found, Advertises(found[j], host) PROVE j = f
  <2>1. PICK n \in Neighbors(found[j].host) : n.address = host /\ MayBeFollowed(n)
    BY <1>5 DEF Advertises, Neighbors
  <2>2. ~LookedAt(j, n)
    BY <2>1 DEF LookedAtInv
  <2>3. found[j].depth < MaxDepth
    BY <1>5 DEF Advertises
  <2> QED
    BY <1>2, <2>2, <2>3 DEF LookedAt
<1>6. l.depth + 1 = 1 + found[f].depth
  BY <1>3
<1>7. \A j \in DOMAIN found : Advertises(found[j], host) => l.depth + 1 <= 1 + found[j].depth
  <2> SUFFICES ASSUME NEW j \in DOMAIN found, Advertises(found[j], host) PROVE l.depth + 1 <= 1 + found[j].depth
    OBVIOUS
  <2>1. found[j] = l
    BY <1>3, <1>5
  <2> QED
    BY <1>3, <2>1
<1> QED
  BY <1>1, <1>2, <1>3, <1>4, <1>6, <1>7 DEF NearestDepth

LEMMA EnqueueKeepsInv ==
    ASSUME CrawlInv, ahead # <<>>, ahead' = Tail(ahead),
           UNCHANGED <<network, seeds, crawl, wave, answered, integrated, found, order>>,
           NEW host, host = Head(ahead).address, host \in Hosts, MayBeFollowed(Head(ahead)), host \notin enqueued,
           Enqueue(host)
    PROVE  CrawlInv'
<1>1. /\ CrawlTypes /\ AnswersInv /\ AheadInv /\ VisitsInv /\ OnceInv /\ LevelInv /\ NearestInv
      /\ LookedAtInv /\ MarkersInv /\ CrawlDevicesDistinct /\ CrawlRaisesOnlyEmpty
  BY DEF CrawlInv
<1>2. PICK d, x : d = Last(found).depth /\ x = At(host, d + 1)
  OBVIOUS
<1>3. /\ crawl = "integrating" /\ d \in Nat /\ d + 1 \in 0 .. MaxDepth /\ d < MaxDepth
      /\ Tail(ahead) \in Seq(Neighbors(Last(found).host))
  BY <1>1, <1>2, LookingAt
<1>4. AtLevel(d)
  BY <1>1, <1>2, LookingAt DEF AtLevel, Busy
<1>5. /\ queue' = Append(queue, x) /\ enqueued' = enqueued \cup {host} /\ UNCHANGED <<visits, markers>>
  BY <1>2 DEF Enqueue, Deeper, Remembered
<1>6. x \in Taken /\ x.host = host /\ x.depth = d + 1
  BY <1>2, <1>3 DEF At, Taken
<1>7. PICK q, more, n : q = queue /\ more = queue' /\ n = Len(q) + 1
  OBVIOUS
<1>8. q \in Seq(Taken) /\ more = Append(q, x)
  BY <1>1, <1>5, <1>7 DEF CrawlTypes
<1>9. /\ more \in Seq(Taken)
      /\ \A i \in DOMAIN q : i \in DOMAIN more /\ more[i] = q[i]
      /\ n \in DOMAIN more /\ more[n] = x
      /\ \A i \in DOMAIN more : i \in DOMAIN q \/ i = n
  BY <1>6, <1>7, <1>8, OneMore
<1>10. CrawlTypes'
  <2>1. queue' \in Seq(Taken') /\ wave' \in Seq(Taken') /\ found' \in Seq(Discovered') /\ visits' \in Seq(Mention')
    BY <1>1, <1>5, <1>7, <1>9, SameNetwork DEF CrawlTypes
  <2>2. order' \in Seq(Hosts') /\ enqueued' \in SUBSET Hosts'
    BY <1>1, <1>5, SameNetwork DEF CrawlTypes
  <2> QED
    BY <1>1, <2>1, <2>2 DEF CrawlTypes
<1>11. AnswersInv'
  BY <1>1 DEF AnswersInv, Attempted
<1>12. AheadInv'
  BY <1>1, <1>3 DEF AheadInv, Neighbors
<1>13. VisitsInv'
  BY <1>1, <1>3, <1>5 DEF VisitsInv, Busy
<1>14. OnceInv'
  <2>1. \A i \in DOMAIN q : q[i].host \in enqueued /\ q[i].host # host
    BY <1>1, <1>7 DEF OnceInv
  <2>2. ASSUME NEW i \in DOMAIN more, NEW j \in DOMAIN more, more[i].host = more[j].host PROVE i = j
    <3>1. CASE i \in DOMAIN q /\ j \in DOMAIN q
      <4>1. q[i].host = q[j].host
        BY <1>9, <2>2, <3>1
      <4> QED
        BY <1>1, <1>7, <3>1, <4>1 DEF OnceInv
    <3>2. CASE i \in DOMAIN q /\ j = n
      BY <1>6, <1>9, <2>1, <2>2, <3>2
    <3>3. CASE i = n /\ j \in DOMAIN q
      BY <1>6, <1>9, <2>1, <2>2, <3>3
    <3> QED
      BY <1>9, <3>1, <3>2, <3>3
  <2>3. \A k \in DOMAIN order : order[k] # host
    BY <1>1 DEF OnceInv
  <2>4. ASSUME NEW i \in DOMAIN more, NEW k \in DOMAIN order PROVE more[i].host # order[k]
    <3>1. CASE i \in DOMAIN q
      <4>1. q[i].host # order[k]
        BY <1>1, <1>7, <3>1 DEF OnceInv
      <4> QED
        BY <1>9, <3>1, <4>1
    <3>2. CASE i = n
      BY <1>6, <1>9, <2>3, <3>2
    <3> QED
      BY <1>9, <3>1, <3>2
  <2>5. ASSUME NEW h \in enqueued'
        PROVE  (\E k \in DOMAIN order : h = order[k]) \/ \E i \in DOMAIN more : h = more[i].host
    <3>1. CASE h = host
      BY <1>6, <1>9, <3>1
    <3>2. CASE h \in enqueued
      <4>1. (\E k \in DOMAIN order : h = order[k]) \/ \E i \in DOMAIN q : h = q[i].host
        BY <1>1, <1>7, <3>2 DEF OnceInv
      <4> QED
        BY <1>9, <4>1
    <3> QED
      BY <1>5, <3>1, <3>2
  <2>6. \A i \in DOMAIN more : more[i].host \in enqueued'
    BY <1>5, <1>6, <1>9, <2>1
  <2>7. (\A k \in DOMAIN order : order[k] \in enqueued') /\ \A i \in DOMAIN seeds : seeds[i] \in enqueued'
    BY <1>1, <1>5 DEF OnceInv
  <2>8. \A i, j \in DOMAIN order : order[i] = order[j] => i = j
    BY <1>1 DEF OnceInv
  <2> QED
    BY <1>7, <2>2, <2>4, <2>5, <2>6, <2>7, <2>8 DEF OnceInv
<1>15. LevelInv'
  <2>1. /\ \A i \in DOMAIN wave : wave[i].depth = d
        /\ \A i \in DOMAIN q : q[i].depth = d + 1
        /\ \A i \in DOMAIN found : found[i].depth <= d
        /\ \A i \in DOMAIN visits : visits[i].depth <= d + 1
        /\ d = 0 => Len(wave) = Len(seeds) /\ Len(found) <= integrated
    BY <1>3, <1>4, <1>7 DEF AtLevel, Busy
  <2>2. \A i \in DOMAIN more : more[i].depth = d + 1
    BY <1>6, <1>9, <2>1
  <2>3. AtLevel(d)'
    BY <1>2, <1>3, <1>5, <1>7, <2>1, <2>2 DEF AtLevel, Busy
  <2> QED
    BY <1>3, <2>3 DEF LevelInv
<1>16. NearestInv'
  <2>1. NearestDepth(host, d + 1)
    BY <1>1, <1>2, NewHost
  <2>2. \A i \in DOMAIN more : NearestDepth(more[i].host, more[i].depth)
    <3> SUFFICES ASSUME NEW i \in DOMAIN more PROVE NearestDepth(more[i].host, more[i].depth)
      OBVIOUS
    <3>1. CASE i \in DOMAIN q
      <4>1. NearestDepth(q[i].host, q[i].depth)
        BY <1>1, <1>7, <3>1 DEF NearestInv
      <4> QED
        BY <1>9, <3>1, <4>1
    <3>2. CASE i = n
      BY <1>6, <1>9, <2>1, <3>2
    <3> QED
      BY <1>9, <3>1, <3>2
  <2>3. \A i \in DOMAIN queue' : NearestDepth(queue'[i].host, queue'[i].depth)
    BY <1>7, <2>2
  <2>4. /\ \A i \in DOMAIN wave' : NearestDepth(wave'[i].host, wave'[i].depth)
        /\ \A i \in DOMAIN visits' : IsHostVisit(visits'[i]) => NearestDepth(visits'[i].host, visits'[i].depth)
    BY <1>1, <1>5 DEF NearestInv
  <2> QED
    BY <2>3, <2>4 DEF NearestInv, NearestDepth, Advertises, IsHostVisit
<1>17. LookedAtInv'
  <2>1. host \in enqueued' /\ enqueued \subseteq enqueued' /\ visits' = visits
    BY <1>5
  <2> QED
    BY <1>1, <2>1, LookedAtHead
<1>18. MarkersInv'
  BY <1>1, <1>5 DEF MarkersInv
<1>19. CrawlDevicesDistinct' /\ CrawlRaisesOnlyEmpty'
  BY <1>1, SameResults DEF CrawlRaisesOnlyEmpty
<1> QED
  BY <1>10, <1>11, <1>12, <1>13, <1>14, <1>15, <1>16, <1>17, <1>18, <1>19 DEF CrawlInv

LEMMA FollowKeepsInv == ASSUME CrawlInv, Follow PROVE CrawlInv'
<1>1. PICK n : n = Head(ahead)
  OBVIOUS
<1>2. /\ ahead # <<>> /\ ahead' = Tail(ahead)
      /\ UNCHANGED <<network, seeds, crawl, wave, answered, integrated, found, order>>
      /\ \/ n.kind = "routing" /\ Skipped(n.name, "unresolved", <<n.name, "routing">>)
         \/ n.kind # "routing" /\ ~Traversable(n) /\ Beyond(n)
         \/ /\ n.kind # "routing" /\ Traversable(n) /\ n.address = NoAddress
            /\ Skipped(n.name, "noaddress", <<n.name, "noaddress">>)
         \/ n.kind # "routing" /\ Traversable(n) /\ n.address # NoAddress /\ Enqueue(n.address)
  BY <1>1 DEF Follow
<1>3. /\ n.address \in Hosts \cup {NoAddress} /\ n.name \in Mentionable
      /\ n.address \notin {"routing", "noaddress"} \/ n.address = NoAddress
      /\ MayBeFollowed(n) <=> n.kind # "routing" /\ Traversable(n) /\ n.address # NoAddress
      /\ Hosts \in SUBSET Mentionable
  <2>1. CrawlTypes /\ AheadInv /\ LevelInv
    BY DEF CrawlInv
  <2>2. Last(found).host \in Hosts /\ n \in Neighbors(Last(found).host)
    BY <1>1, <1>2, <2>1, LookingAt
  <2>3. \A h \in Hosts : \A x \in Neighbors(h) :
          /\ x.address \in Hosts \cup {NoAddress} /\ x.name \in Mentionable
          /\ x.address \notin {"routing", "noaddress"} \/ x.address = NoAddress
          /\ MayBeFollowed(x) <=> x.kind # "routing" /\ Traversable(x) /\ x.address # NoAddress
    BY <2>1, NetworkIs
  <2>4. Hosts \in SUBSET Mentionable
    BY <2>1, NetworkIs
  <2> QED
    BY <2>2, <2>3, <2>4
<1>4. CASE n.kind = "routing" /\ Skipped(n.name, "unresolved", <<n.name, "routing">>)
  <2>1. n.name = PaperName(<<n.name, "routing">>)
    BY DEF PaperName
  <2> QED
    BY <1>1, <1>2, <1>3, <1>4, <2>1, SkippedKeepsInv
<1>5. CASE n.kind # "routing" /\ ~Traversable(n) /\ Beyond(n)
  <2>1. PICK host : host = IF n.address = NoAddress THEN n.name ELSE n.address
    OBVIOUS
  <2>2. host = PaperName(<<n.name, n.address>>)
    BY <1>3, <2>1 DEF PaperName
  <2>3. host \in Mentionable /\ host \in {n.address, n.name}
    BY <1>3, <2>1
  <2>4. Skipped(host, "boundary", <<n.name, n.address>>)
    BY <1>5, <2>1 DEF Beyond
  <2> QED
    BY <1>1, <1>2, <1>3, <1>5, <2>2, <2>3, <2>4, SkippedKeepsInv
<1>6. CASE /\ n.kind # "routing" /\ Traversable(n) /\ n.address = NoAddress
           /\ Skipped(n.name, "noaddress", <<n.name, "noaddress">>)
  <2>1. n.name = PaperName(<<n.name, "noaddress">>)
    BY DEF PaperName
  <2> QED
    BY <1>1, <1>2, <1>3, <1>6, <2>1, SkippedKeepsInv
<1>7. CASE n.kind # "routing" /\ Traversable(n) /\ n.address # NoAddress /\ Enqueue(n.address)
  <2>1. n.address \in Hosts /\ MayBeFollowed(n)
    BY <1>3, <1>7
  <2>2. CASE n.address \in enqueued
    <3>1. UNCHANGED <<queue, enqueued, visits, markers>>
      BY <1>7, <2>2 DEF Enqueue
    <3> QED
      BY <1>1, <1>2, <2>2, <3>1, EnqueuedKeepsInv
  <2>3. CASE n.address \notin enqueued
    BY <1>1, <1>2, <1>7, <2>1, <2>3, EnqueueKeepsInv
  <2> QED
    BY <2>2, <2>3
<1> QED
  BY <1>2, <1>4, <1>5, <1>6, <1>7

LEMMA CrawlInitInv == CrawlInit => CrawlInv
<1> SUFFICES ASSUME CrawlInit PROVE CrawlInv
  OBVIOUS
<1>1. /\ network \in Networks /\ seeds \in SeedLists /\ crawl = "ready"
      /\ wave = <<>> /\ answered = <<>> /\ integrated = 0 /\ found = <<>> /\ ahead = <<>> /\ visits = <<>>
      /\ enqueued = ToSet(seeds) /\ markers = {} /\ order = <<>>
  BY DEF CrawlInit
<1>2. /\ seeds \in Seq(ToSet(seeds)) /\ IsInjective(seeds) /\ ToSet(seeds) \in SUBSET Hosts
  BY <1>1, CrawlAssumption DEF Hosts
<1>3. PICK n : n = Len(seeds) /\ n \in Nat /\ DOMAIN seeds = 1 .. n
  BY <1>2
<1>4. \A i \in 1 .. n : seeds[i] \in ToSet(seeds) /\ seeds[i] \in Hosts
  BY <1>2, <1>3
<1>5. queue = [i \in 1 .. n |-> At(seeds[i], 0)]
  BY <1>3 DEF CrawlInit
<1>6. MaxDepth \in Nat /\ MaxDevices \in Nat /\ MaxDevices > 0 /\ 0 \in 0 .. MaxDepth
  BY CrawlAssumption
<1>7. \A i \in 1 .. n : At(seeds[i], 0) \in Taken
  BY <1>4, <1>6 DEF At, Taken
<1>8. queue \in Seq(Taken) /\ Len(queue) = n /\ DOMAIN queue = 1 .. n
  BY <1>3, <1>5, <1>7, IsASeq
<1>9. \A i \in 1 .. n : queue[i].host = seeds[i] /\ queue[i].depth = 0
  BY <1>5 DEF At
<1>10. CrawlTypes
  <2>1. <<>> \in Seq(Taken) /\ <<>> \in Seq(Nat) /\ <<>> \in Seq(Discovered) /\ <<>> \in Seq(Mention) /\ <<>> \in Seq(Hosts)
    OBVIOUS
  <2> QED
    BY <1>1, <1>2, <1>8, <2>1 DEF CrawlTypes
<1>11. AnswersInv /\ AheadInv
  BY <1>1, <1>6 DEF AnswersInv, AheadInv
<1>12. DOMAIN visits = {} /\ DOMAIN order = {} /\ DOMAIN found = {} /\ Len(visits) = 0 /\ Len(order) = 0
  BY <1>1
<1>13. VisitsInv
  <2>1. Rank(visits, Len(visits)) = 0
    BY <1>12, RankOfNone
  <2>2. Tally(visits, order)
    BY <1>12, <2>1 DEF Tally
  <2> QED
    BY <1>1, <1>12, <2>1, <2>2 DEF VisitsInv, Busy
<1>14. OnceInv
  <2>1. \A i, j \in 1 .. n : seeds[i] = seeds[j] => i = j
    BY <1>2, <1>3 DEF IsInjective
  <2>2. \A i, j \in DOMAIN queue : queue[i].host = queue[j].host => i = j
    BY <1>8, <1>9, <2>1
  <2>3. \A h \in enqueued : \E i \in DOMAIN queue : h = queue[i].host
    <3> SUFFICES ASSUME NEW h \in ToSet(seeds) PROVE \E i \in DOMAIN queue : h = queue[i].host
      BY <1>1
    <3>1. PICK i \in 1 .. n : h = seeds[i]
      BY <1>3 DEF ToSet
    <3> QED
      BY <1>8, <1>9, <3>1
  <2>4. \A i \in DOMAIN queue : queue[i].host \in enqueued
    BY <1>1, <1>4, <1>8, <1>9
  <2>5. \A i \in DOMAIN seeds : seeds[i] \in enqueued
    BY <1>1, <1>3, <1>4
  <2> QED
    BY <1>12, <2>2, <2>3, <2>4, <2>5 DEF OnceInv
<1>15. LevelInv
  <2>1. AtLevel(0)
    BY <1>1, <1>3, <1>8, <1>9, <1>12 DEF AtLevel, Busy
  <2> QED
    BY <2>1 DEF LevelInv
<1>16. NearestInv
  <2>1. \A i \in 1 .. n : NearestDepth(queue[i].host, queue[i].depth)
    BY <1>4, <1>9 DEF NearestDepth
  <2>2. DOMAIN wave = {}
    BY <1>1
  <2> QED
    BY <1>8, <1>12, <2>1, <2>2 DEF NearestInv
<1>17. LookedAtInv /\ MarkersInv /\ CrawlDevicesDistinct /\ CrawlRaisesOnlyEmpty
  BY <1>1, <1>12 DEF LookedAtInv, MarkersInv, CrawlDevicesDistinct, CrawlRaisesOnlyEmpty
<1> QED
  BY <1>10, <1>11, <1>13, <1>14, <1>15, <1>16, <1>17 DEF CrawlInv

LEMMA CrawlStutterKeepsInv == ASSUME CrawlInv, UNCHANGED crawlVars PROVE CrawlInv'
<1>1. /\ CrawlTypes /\ AnswersInv /\ AheadInv /\ VisitsInv /\ OnceInv /\ LevelInv /\ NearestInv
      /\ LookedAtInv /\ MarkersInv /\ CrawlDevicesDistinct /\ CrawlRaisesOnlyEmpty
  BY DEF CrawlInv
<1>2. UNCHANGED <<network, seeds, crawl, queue, wave, answered, integrated, found, ahead, visits,
                  enqueued, markers, order>>
  BY DEF crawlVars
<1>3. CrawlTypes'
  BY <1>1, <1>2, SameNetwork DEF CrawlTypes
<1>4. AnswersInv'
  BY <1>1, <1>2 DEF AnswersInv, Attempted
<1>5. AheadInv'
  BY <1>1, <1>2 DEF AheadInv, Neighbors
<1>6. VisitsInv'
  BY <1>1, <1>2 DEF VisitsInv, Busy
<1>7. OnceInv'
  BY <1>1, <1>2 DEF OnceInv
<1>8. LevelInv'
  BY <1>1, <1>2 DEF LevelInv, AtLevel, Busy
<1>9. NearestInv'
  BY <1>1, <1>2 DEF NearestInv, NearestDepth, Advertises, IsHostVisit
<1>10. LookedAtInv' /\ MarkersInv' /\ CrawlDevicesDistinct'
  BY <1>1, <1>2, SameLookedAt, SameResults
<1>11. CrawlRaisesOnlyEmpty'
  BY <1>1, <1>2 DEF CrawlRaisesOnlyEmpty
<1> QED
  BY <1>3, <1>4, <1>5, <1>6, <1>7, <1>8, <1>9, <1>10, <1>11 DEF CrawlInv

LEMMA CrawlInvariant == CrawlSpec => []CrawlInv
<1>1. CrawlInit => CrawlInv
  BY CrawlInitInv
<1>2. CrawlInv /\ [CrawlNext]_crawlVars => CrawlInv'
  <2> SUFFICES ASSUME CrawlInv, [CrawlNext]_crawlVars PROVE CrawlInv'
    OBVIOUS
  <2>1. CASE TakeWave
    BY <2>1, TakeWaveKeepsInv
  <2>2. CASE \E i \in DOMAIN wave : Attempt(i)
    BY <2>2, AttemptKeepsInv
  <2>3. CASE Collected
    BY <2>3, CollectedKeepsInv
  <2>4. CASE Integrate
    BY <2>4, IntegrateKeepsInv
  <2>5. CASE Follow
    BY <2>5, FollowKeepsInv
  <2>6. CASE Overflow
    BY <2>6, OverflowKeepsInv
  <2>7. CASE Report
    BY <2>7, ReportKeepsInv
  <2>8. CASE UNCHANGED crawlVars
    BY <2>8, CrawlStutterKeepsInv
  <2> QED
    BY <2>1, <2>2, <2>3, <2>4, <2>5, <2>6, <2>7, <2>8 DEF CrawlNext
<1> QED
  BY <1>1, <1>2, PTL DEF CrawlSpec

---------------------------------------------------------------------------
(* Crawl: what the invariant says                                          *)

LEMMA LeastIs ==
    ASSUME NEW S \in SUBSET Int, NEW m \in S, \A y \in S : m <= y
    PROVE  Min(S) = m
<1>1. Min(S) \in S /\ \A y \in S : Min(S) <= y
  BY DEF Min
<1>2. Min(S) <= m /\ m <= Min(S) /\ Min(S) \in Int /\ m \in Int
  BY <1>1
<1> QED
  BY <1>2

LEMMA VisitedOnce ==
    ASSUME CrawlTypes, VisitsInv, OnceInv
    PROVE  CrawlHostsOnce
<1> SUFFICES ASSUME NEW i \in DOMAIN visits, NEW j \in DOMAIN visits,
                    IsHostVisit(visits[i]), IsHostVisit(visits[j]), visits[i].host = visits[j].host
             PROVE  i = j
  BY DEF CrawlHostsOnce, IsHostVisit
<1>1. i \in Nat /\ j \in Nat
  BY CrawlSizes
<1>2. PICK a, b : a = Rank(visits, i) /\ b = Rank(visits, j)
  OBVIOUS
<1>3. a \in Nat /\ b \in Nat
  BY <1>1, <1>2, RankIs
<1>4. a \in DOMAIN order /\ b \in DOMAIN order /\ order[a] = order[b]
  BY <1>2 DEF VisitsInv, Tally
<1>5. a = b
  BY <1>4 DEF OnceInv
<1>6. ~(i < j)
  <2> SUFFICES ASSUME i < j PROVE FALSE
    OBVIOUS
  <2>1. Rank(visits, i) < Rank(visits, j)
    BY <1>1, RanksGrow
  <2> QED
    BY <1>2, <1>3, <1>5, <2>1
<1>7. ~(j < i)
  <2> SUFFICES ASSUME j < i PROVE FALSE
    OBVIOUS
  <2>1. Rank(visits, j) < Rank(visits, i)
    BY <1>1, RanksGrow
  <2> QED
    BY <1>2, <1>3, <1>5, <2>1
<1> QED
  BY <1>1, <1>6, <1>7

LEMMA VisitedNearest ==
    ASSUME CrawlTypes, NearestInv
    PROVE  CrawlShortest
<1> SUFFICES ASSUME NEW i \in DOMAIN visits, NEW from,
                    from = {j \in DOMAIN found : Advertises(found[j], visits[i].host)},
                    visits[i].status \in HostVisits
             PROVE  IF visits[i].host \in ToSet(seeds) THEN visits[i].depth = 0
                    ELSE from # {} => visits[i].depth = 1 + Min({found[j].depth : j \in from})
  BY DEF CrawlShortest
<1>1. NearestDepth(visits[i].host, visits[i].depth)
  BY DEF NearestInv, IsHostVisit
<1>2. CASE visits[i].host \in ToSet(seeds)
  BY <1>1, <1>2 DEF NearestDepth
<1>3. CASE visits[i].host \notin ToSet(seeds)
  <2>1. PICK j \in DOMAIN found : Advertises(found[j], visits[i].host) /\ visits[i].depth = 1 + found[j].depth
    BY <1>1, <1>3 DEF NearestDepth
  <2>2. \A k \in DOMAIN found : Advertises(found[k], visits[i].host) => visits[i].depth <= 1 + found[k].depth
    BY <1>1, <1>3 DEF NearestDepth
  <2>3. \A k \in DOMAIN found : found[k].depth \in Int
    BY CrawlSizes DEF Discovered
  <2>4. PICK depths, m : depths = {found[k].depth : k \in from} /\ m = found[j].depth
    OBVIOUS
  <2>5. depths \in SUBSET Int /\ m \in depths
    BY <2>1, <2>3, <2>4
  <2>6. \A y \in depths : m <= y
    <3> SUFFICES ASSUME NEW k \in from PROVE m <= found[k].depth
      BY <2>4
    <3>1. visits[i].depth <= 1 + found[k].depth
      BY <2>2
    <3> QED
      BY <2>1, <2>3, <2>4, <3>1
  <2>7. Min(depths) = m
    BY <2>5, <2>6, LeastIs
  <2> QED
    BY <1>3, <2>1, <2>4, <2>7
<1> QED
  BY <1>2, <1>3

\* The crawl stays within its limits, records each device and visits each host
\* once, in the order of a sequential breadth-first crawl and at the depth of
\* the nearest device that advertised it, and raises only when it found nothing.
THEOREM SpecCrawlSound == CrawlSpec => []CrawlSound
<1>1. CrawlInv => CrawlSound
  <2> SUFFICES ASSUME CrawlInv PROVE CrawlSound
    OBVIOUS
  <2>1. /\ CrawlTypes /\ AnswersInv /\ VisitsInv /\ OnceInv /\ NearestInv
        /\ CrawlDevicesDistinct /\ CrawlRaisesOnlyEmpty
    BY DEF CrawlInv
  <2>2. CrawlTypeOK
    <3>1. Len(found) <= MaxDevices
      BY <2>1 DEF AnswersInv
    <3>2. \A i \in DOMAIN found : found[i].depth \in 0 .. MaxDepth
      BY <2>1, CrawlSizes DEF Discovered
    <3>3. \A i \in DOMAIN visits : visits[i].depth \in 0 .. MaxDepth
      BY <2>1, CrawlSizes DEF Mention
    <3> QED
      BY <3>1, <3>2, <3>3 DEF CrawlTypeOK
  <2>3. CrawlHostsOnce
    BY <2>1, VisitedOnce
  <2>4. CrawlVisitsInOrder
    BY <2>1 DEF CrawlVisitsInOrder, VisitsInv, Tally, Rank, IsHostVisit
  <2>5. CrawlShortest
    BY <2>1, VisitedNearest
  <2> QED
    BY <2>1, <2>2, <2>3, <2>4, <2>5 DEF CrawlSound
<1> QED
  BY <1>1, CrawlInvariant, PTL

\* Only hosts that the policy allows are contacted, at any moment of the crawl,
\* and a finished report mentions every neighbor that was looked at.
THEOREM SpecCrawlPolicyKept == CrawlSpec => []CrawlPolicyKept
<1>1. CrawlInv => CrawlPolicyKept
  <2> SUFFICES ASSUME CrawlInv PROVE CrawlPolicyKept
    OBVIOUS
  <2>1. /\ CrawlTypes /\ AheadInv /\ VisitsInv /\ OnceInv /\ NearestInv /\ LookedAtInv
    BY DEF CrawlInv
  <2>2. CrawlFollowsPolicy
    BY <2>1 DEF CrawlFollowsPolicy, NearestInv, NearestDepth, IsHostVisit
  <2>3. CrawlNothingErased
    <3> SUFFICES ASSUME crawl = "reported", NEW j \in DOMAIN found, found[j].depth < MaxDepth,
                        NEW n \in Neighbors(found[j].host)
                 PROVE  \E i \in DOMAIN visits : visits[i].host \in {n.address, n.name}
      BY DEF CrawlNothingErased, Neighbors
    <3>1. ToSet(ahead) = {}
      BY <2>1 DEF AheadInv, ToSet
    <3>2. LookedAt(j, n)
      BY <3>1 DEF LookedAt
    <3>3. n.address \in enqueued \/ \E i \in DOMAIN visits : visits[i].host \in {n.address, n.name}
      BY <2>1, <3>2 DEF LookedAtInv
    <3>4. CASE n.address \in enqueued
      <4>1. DOMAIN queue = {} /\ Len(order) = Rank(visits, Len(visits)) /\ Tally(visits, order)
        BY <2>1 DEF VisitsInv
      <4>2. PICK k \in DOMAIN order : n.address = order[k]
        BY <2>1, <3>4, <4>1 DEF OnceInv
      <4>3. k \in 1 .. Rank(visits, Len(visits))
        BY <2>1, <4>1, CrawlSizes
      <4>4. \E i \in DOMAIN visits : visits[i].host = order[k]
        BY <4>1, <4>3 DEF Tally
      <4> QED
        BY <4>2, <4>4
    <3> QED
      BY <3>3, <3>4
  <2> QED
    BY <2>2, <2>3 DEF CrawlPolicyKept
<1> QED
  BY <1>1, CrawlInvariant, PTL

(***************************************************************************)
(* The calendar.  What the code finds by reading wall times with fold 0    *)
(* and fold 1, and by trying the times after one that does not exist, is   *)
(* the first instant whose wall time is that of the schedule or later; the *)
(* rest is order among instants and days.                                  *)
(***************************************************************************)

\* A zone as the assumption has it, with the offsets out of the record.
ZoneFacts(z) ==
    /\ z.at \in Int /\ z.before \in Int /\ z.after \in Int
    /\ -DayLength < z.before /\ z.before < DayLength
    /\ -DayLength < z.after /\ z.after < DayLength
    /\ z.after - z.before <= LongestGap
    /\ z.before > z.after => (z.at + z.before - 1) \div DayLength = (z.at + z.after) \div DayLength

\* What the assumption says of a zone.
LEMMA ZonesHaveFacts ==
  ASSUME NEW z \in Zones
  PROVE  ZoneFacts(z)
  <1>1. /\ DayLength \in Nat \ {0} /\ LongestGap \in Nat
        /\ z.at \in Int /\ {z.before, z.after} \subseteq 1 - DayLength .. DayLength - 1
        /\ z.after - z.before <= LongestGap
        /\ z.before > z.after => (z.at + z.before - 1) \div DayLength = (z.at + z.after) \div DayLength
    BY DailyAssumption DEF DailyAssumption
  <1>2. z.before \in 1 - DayLength .. DayLength - 1 /\ z.after \in 1 - DayLength .. DayLength - 1
    BY <1>1
  <1>3. /\ z.before \in Int /\ z.after \in Int
        /\ -DayLength < z.before /\ z.before < DayLength
        /\ -DayLength < z.after /\ z.after < DayLength
    BY <1>1, <1>2
  <1> QED
    BY <1>1, <1>3 DEF ZoneFacts

\* The least member of a set of numbers.
LEMMA MinIs ==
  ASSUME NEW S \in SUBSET Int, NEW m \in S, \A x \in S : m <= x
  PROVE  Min(S) = m
  <1>1. PICK n : n = (CHOOSE x \in S : \A y \in S : x <= y)
    OBVIOUS
  <1>2. n \in S /\ \A y \in S : n <= y
    BY <1>1, Zenon
  <1>3. n = m
    BY <1>2
  <1> QED
    BY <1>1, <1>3, Zenon DEF Min

\* The greatest member of a set of numbers.
LEMMA MaxIs ==
  ASSUME NEW S \in SUBSET Int, NEW m \in S, \A x \in S : x <= m
  PROVE  Max(S) = m
  <1>1. PICK n : n = (CHOOSE x \in S : \A y \in S : y <= x)
    OBVIOUS
  <1>2. n \in S /\ \A y \in S : y <= n
    BY <1>1, Zenon
  <1>3. n = m
    BY <1>2
  <1> QED
    BY <1>1, <1>3, Zenon DEF Max

\* What fold 0 and fold 1 read.
LEMMA InstantIs ==
  ASSUME NEW z, ZoneFacts(z), NEW wall \in Int,
         NEW hi, hi = IF z.before >= z.after THEN z.before ELSE z.after,
         NEW lo, lo = IF z.before <= z.after THEN z.before ELSE z.after
  PROVE  /\ Instant(z, wall, 0) = wall - (IF wall < z.at + hi THEN z.before ELSE z.after)
         /\ Instant(z, wall, 1) = wall - (IF wall < z.at + lo THEN z.before ELSE z.after)
  <1>1. z.at \in Int /\ z.before \in Int /\ z.after \in Int
    BY DEF ZoneFacts
  <1>2. PICK both : both = {z.before, z.after}
    OBVIOUS
  <1>3. /\ both \in SUBSET Int /\ hi \in both /\ lo \in both
        /\ (\A x \in both : x <= hi) /\ (\A x \in both : lo <= x)
    BY <1>1, <1>2
  <1>4. Max(both) = hi
    BY <1>3, MaxIs
  <1>5. Min(both) = lo
    BY <1>3, MinIs
  <1>6. Max({z.before, z.after}) = hi /\ Min({z.before, z.after}) = lo
    BY <1>2, <1>4, <1>5
  <1>7. Instant(z, wall, 0) = wall - (IF wall < z.at + hi THEN z.before ELSE z.after)
    BY <1>6 DEF Instant
  <1>8. Instant(z, wall, 1) = wall - (IF wall < z.at + lo THEN z.before ELSE z.after)
    BY <1>6 DEF Instant
  <1> QED
    BY <1>7, <1>8

\* The wall time at an instant.
LEMMA LocalIs ==
  ASSUME NEW z, ZoneFacts(z), NEW u \in Int
  PROVE  /\ Local(z, u) \in Int
         /\ u < z.at => Local(z, u) = u + z.before
         /\ u >= z.at => Local(z, u) = u + z.after
  BY DEF ZoneFacts, Local, Offset

\* An instant is valid for a wall time exactly when it shows it.
LEMMA ValidAre ==
  ASSUME NEW z, ZoneFacts(z), NEW wall \in Int
  PROVE  /\ ValidLocalInstants(z, wall) \in SUBSET Int
         /\ \A u \in Int : u \in ValidLocalInstants(z, wall) <=> Local(z, u) = wall
  <1>1. PICK t, b, a : t = z.at /\ b = z.before /\ a = z.after
    OBVIOUS
  <1>2. t \in Int /\ b \in Int /\ a \in Int
    BY <1>1 DEF ZoneFacts
  <1>3. PICK hi : hi = IF z.before >= z.after THEN z.before ELSE z.after
    OBVIOUS
  <1>4. PICK lo : lo = IF z.before <= z.after THEN z.before ELSE z.after
    OBVIOUS
  <1>5. PICK i : i = Instant(z, wall, 0)
    OBVIOUS
  <1>6. PICK j : j = Instant(z, wall, 1)
    OBVIOUS
  <1>7. /\ i = wall - (IF wall < t + hi THEN b ELSE a)
        /\ j = wall - (IF wall < t + lo THEN b ELSE a)
    BY <1>1, <1>3, <1>4, <1>5, <1>6, InstantIs
  <1>8. hi = (IF b >= a THEN b ELSE a) /\ lo = (IF b <= a THEN b ELSE a)
    BY <1>1, <1>3, <1>4
  <1>9. i \in Int /\ j \in Int
    BY <1>2, <1>7, <1>8
  <1>10. ValidLocalInstants(z, wall) = {u \in {i, j} : Local(z, u) = wall}
    BY <1>5, <1>6 DEF ValidLocalInstants
  <1>11. ASSUME NEW u \in Int, Local(z, u) = wall PROVE u = i \/ u = j
    <2>1. (u < t => wall = u + b) /\ (u >= t => wall = u + a)
      BY <1>1, <1>11, LocalIs
    <2>2. CASE u < t
      BY <1>2, <1>7, <1>8, <2>1, <2>2
    <2>3. CASE u >= t
      BY <1>2, <1>7, <1>8, <2>1, <2>3
    <2> QED
      BY <1>2, <2>2, <2>3
  <1> QED
    BY <1>9, <1>10, <1>11

---------------------------------------------------------------------------
(* The first instant that shows a time or a later one                      *)

First(z, wall) ==
    IF wall < z.at + z.before THEN wall - z.before
    ELSE IF wall <= z.at + z.after THEN z.at ELSE wall - z.after

\* It is one that does and the least of them, within a day of the wall time.
LEMMA FirstIs ==
  ASSUME NEW z, ZoneFacts(z), NEW wall \in Int, NEW first, first = First(z, wall)
  PROVE  /\ first \in Int /\ Local(z, first) >= wall
         /\ \A u \in Int : Local(z, u) >= wall => first <= u
         /\ wall - DayLength < first /\ first < wall + DayLength
  <1>0. DayLength \in Int
    BY DailyAssumption DEF DailyAssumption
  <1>1. PICK t, b, a : t = z.at /\ b = z.before /\ a = z.after
    OBVIOUS
  <1>2. /\ t \in Int /\ b \in Int /\ a \in Int
        /\ -DayLength < b /\ b < DayLength /\ -DayLength < a /\ a < DayLength
    BY <1>1 DEF ZoneFacts
  <1>3. first = IF wall < t + b THEN wall - b ELSE IF wall <= t + a THEN t ELSE wall - a
    BY <1>1 DEF First
  <1>4. first \in Int /\ wall - DayLength < first /\ first < wall + DayLength
    BY <1>0, <1>2, <1>3
  <1>5. (first < t => Local(z, first) = first + b) /\ (first >= t => Local(z, first) = first + a)
    BY <1>1, <1>4, LocalIs
  <1>6. Local(z, first) >= wall
    BY <1>2, <1>3, <1>4, <1>5
  <1>7. ASSUME NEW u \in Int, Local(z, u) >= wall PROVE first <= u
    <2>1. (u < t => Local(z, u) = u + b) /\ (u >= t => Local(z, u) = u + a)
      BY <1>1, LocalIs
    <2>2. CASE u < t
      BY <1>2, <1>3, <1>7, <2>1, <2>2
    <2>3. CASE u >= t
      BY <1>2, <1>3, <1>7, <2>1, <2>3
    <2> QED
      BY <1>2, <2>2, <2>3
  <1> QED
    BY <1>4, <1>6, <1>7

\* The code finds it by trying one wall time after the other.
LEMMA OccurrenceIs ==
  ASSUME NEW z, ZoneFacts(z), NEW time, NEW day, NEW wall \in Int, wall = day * DayLength + time
  PROVE  DailyOccurrence(z, time, day) = First(z, wall)
  <1>0. DayLength \in Int /\ LongestGap \in Nat
    BY DailyAssumption DEF DailyAssumption
  <1>1. PICK t, b, a : t = z.at /\ b = z.before /\ a = z.after
    OBVIOUS
  <1>2. t \in Int /\ b \in Int /\ a \in Int /\ a - b <= LongestGap
    BY <1>1 DEF ZoneFacts
  <1>3. PICK first : first = First(z, wall)
    OBVIOUS
  <1>4. first = IF wall < t + b THEN wall - b ELSE IF wall <= t + a THEN t ELSE wall - a
    BY <1>1, <1>3 DEF First
  <1>5. /\ first \in Int /\ Local(z, first) >= wall
        /\ \A u \in Int : Local(z, u) >= wall => first <= u
    BY <1>3, FirstIs
  <1>6. PICK valid : valid = {k \in 0 .. LongestGap : ValidLocalInstants(z, wall + k) # {}}
    OBVIOUS
  <1>7. PICK least : least = Local(z, first) - wall
    OBVIOUS
  <1>8. Local(z, first) \in Int /\ least \in Int /\ wall + least = Local(z, first) /\ least >= 0
    <2>1. Local(z, first) \in Int
      BY <1>5, LocalIs
    <2> QED
      BY <1>5, <1>7, <2>1
  <1>9. least <= LongestGap
    <2>1. (first < t => Local(z, first) = first + b) /\ (first >= t => Local(z, first) = first + a)
      BY <1>1, <1>5, LocalIs
    <2> QED
      BY <1>0, <1>2, <1>4, <1>7, <2>1
  <1>10. PICK dial : dial = wall + least /\ dial \in Int
    BY <1>8
  <1>11. /\ ValidLocalInstants(z, dial) \in SUBSET Int
         /\ \A u \in Int : u \in ValidLocalInstants(z, dial) <=> Local(z, u) = dial
    BY <1>10, ValidAre
  <1>12. first \in ValidLocalInstants(z, dial)
    BY <1>5, <1>8, <1>10, <1>11
  <1>13. least \in valid
    BY <1>0, <1>6, <1>8, <1>9, <1>10, <1>12
  <1>14. ASSUME NEW k \in valid PROVE least <= k
    <2>1. k \in 0 .. LongestGap /\ ValidLocalInstants(z, wall + k) # {}
      BY <1>6
    <2>2. PICK w : w = wall + k /\ w \in Int
      BY <1>0, <2>1
    <2>3. PICK u \in Int : Local(z, u) = w
      <3>1. /\ ValidLocalInstants(z, w) \in SUBSET Int /\ ValidLocalInstants(z, w) # {}
            /\ \A u \in Int : u \in ValidLocalInstants(z, w) <=> Local(z, u) = w
        BY <2>1, <2>2, ValidAre
      <3> QED
        BY <3>1
    <2>4. first <= u
      BY <1>0, <1>5, <2>1, <2>2, <2>3
    <2>5. /\ (first < t => Local(z, first) = first + b) /\ (first >= t => Local(z, first) = first + a)
          /\ (u < t => w = u + b) /\ (u >= t => w = u + a)
      BY <1>1, <1>5, <2>3, LocalIs
    <2>6. w >= wall
      BY <1>0, <2>1, <2>2
    <2> QED
      BY <1>2, <1>4, <1>5, <1>7, <2>1, <2>2, <2>4, <2>5, <2>6
  <1>15. Min(valid) = least
    <2>1. valid \in SUBSET Int
      BY <1>0, <1>6
    <2> QED
      BY <1>13, <1>14, <2>1, MinIs
  <1>16. Min(ValidLocalInstants(z, dial)) = first
    <2>1. PICK instants : instants = ValidLocalInstants(z, dial)
      OBVIOUS
    <2>2. instants \in SUBSET Int /\ first \in instants
      BY <1>11, <1>12, <2>1
    <2>3. \A u \in instants : first <= u
      BY <1>5, <1>8, <1>10, <1>11, <2>1, <2>2
    <2> QED
      BY <2>1, <2>2, <2>3, MinIs
  <1>17. DailyOccurrence(z, time, day) = Min(ValidLocalInstants(z, wall + Min(valid)))
    BY <1>6, Zenon DEF DailyOccurrence
  <1> QED
    BY <1>3, <1>10, <1>15, <1>16, <1>17

---------------------------------------------------------------------------
(* Days                                                                    *)

\* The day of a wall time is the one it lies in.
LEMMA DayIs ==
  ASSUME NEW x \in Int, NEW d, d = x \div DayLength
  PROVE  d \in Int /\ d * DayLength <= x /\ x < (d + 1) * DayLength
  BY DailyAssumption DEF DailyAssumption

\* Days begin in their order.
LEMMA DaysOrdered ==
  ASSUME NEW c \in Int, NEW d \in Int, c <= d
  PROVE  c * DayLength <= d * DayLength
  BY DailyAssumption DEF DailyAssumption

\* The next day begins a day later.
LEMMA DayAfter ==
  ASSUME NEW d \in Int
  PROVE  (d + 1) * DayLength = d * DayLength + DayLength /\ d * DayLength \in Int
  BY DailyAssumption DEF DailyAssumption

\* Instants of a later day are later, also when the clock is set back.
LEMMA DaysPass ==
  ASSUME NEW z, ZoneFacts(z), NEW m \in Int, NEW d, d = Local(z, m) \div DayLength,
         NEW u \in Int, Local(z, u) >= (d + 1) * DayLength
  PROVE  m < u
  <1>1. PICK t, b, a : t = z.at /\ b = z.before /\ a = z.after
    OBVIOUS
  <1>2. /\ t \in Int /\ b \in Int /\ a \in Int
        /\ b > a => (t + b - 1) \div DayLength = (t + a) \div DayLength
    BY <1>1 DEF ZoneFacts
  <1>3. PICK v, w : v = Local(z, m) /\ w = Local(z, u)
    OBVIOUS
  <1>4. /\ (m < t => v = m + b) /\ (m >= t => v = m + a)
        /\ (u < t => w = u + b) /\ (u >= t => w = u + a) /\ v \in Int /\ w \in Int
    BY <1>1, <1>3, LocalIs
  <1>5. d \in Int /\ d * DayLength <= v /\ v < (d + 1) * DayLength /\ w >= (d + 1) * DayLength
    BY <1>3, <1>4, DayIs
  <1>6. (d + 1) * DayLength \in Int /\ v < w
    <2>1. d + 1 \in Int
      BY <1>5
    <2>2. (d + 1) * DayLength \in Int
      BY <2>1, DayAfter
    <2> QED
      BY <1>4, <1>5, <2>2
  <1>7. CASE b <= a \/ ~(u < t /\ m >= t)
    BY <1>2, <1>4, <1>6, <1>7
  <1>8. CASE b > a /\ u < t /\ m >= t
    <2>1. PICK x, y : x = t + b - 1 /\ y = t + a
      OBVIOUS
    <2>2. x \in Int /\ y \in Int /\ x \div DayLength = y \div DayLength /\ w <= x /\ v >= y
      BY <1>2, <1>4, <1>8, <2>1
    <2>3. PICK e : e = x \div DayLength
      OBVIOUS
    <2>4. e \in Int /\ e * DayLength <= y /\ x < (e + 1) * DayLength
      BY <2>2, <2>3, DayIs
    <2>5. CASE e <= d
      <3>1. (e + 1) * DayLength <= (d + 1) * DayLength /\ (e + 1) * DayLength \in Int
        <4>1. PICK e1, d1 : e1 = e + 1 /\ d1 = d + 1
          OBVIOUS
        <4>2. e1 \in Int /\ d1 \in Int /\ e1 <= d1
          BY <1>5, <2>4, <2>5, <4>1
        <4> QED
          BY <4>1, <4>2, DaysOrdered, DayAfter
      <3> QED
        BY <1>4, <1>5, <1>6, <2>2, <2>4, <3>1
    <2>6. CASE ~(e <= d)
      <3>1. (d + 1) * DayLength <= e * DayLength /\ e * DayLength \in Int
        <4>1. PICK d1 : d1 = d + 1
          OBVIOUS
        <4>2. d1 \in Int /\ d1 <= e
          BY <1>5, <2>4, <2>6, <4>1
        <4> QED
          BY <2>4, <4>1, <4>2, DaysOrdered, DayAfter
      <3> QED
        BY <1>4, <1>5, <1>6, <2>2, <2>4, <3>1
    <2> QED
      BY <2>5, <2>6
  <1> QED
    BY <1>2, <1>7, <1>8

\* The occurrence of a day at this time, as the code finds it.
LEMMA OccurrenceFirst ==
  ASSUME NEW z, ZoneFacts(z), NEW time \in 0 .. DayLength - 1, NEW day \in Int,
         NEW first, first = DailyOccurrence(z, time, day)
  PROVE  /\ first \in Int /\ Local(z, first) >= day * DayLength + time
         /\ \A u \in Int : Local(z, u) >= day * DayLength + time => first <= u
         /\ (day - 1) * DayLength < first /\ first < (day + 2) * DayLength
  <1>1. PICK wall : wall = day * DayLength + time
    OBVIOUS
  <1>2. /\ DayLength \in Nat /\ time \in Int /\ 0 <= time /\ time < DayLength
    BY DailyAssumption DEF DailyAssumption
  <1>3. day * DayLength \in Int /\ wall \in Int
    BY <1>1, <1>2, DayAfter
  <1>4. first = First(z, wall)
    BY <1>1, <1>3, OccurrenceIs
  <1>5. /\ first \in Int /\ Local(z, first) >= wall
        /\ \A u \in Int : Local(z, u) >= wall => first <= u
        /\ wall - DayLength < first /\ first < wall + DayLength
    BY <1>3, <1>4, FirstIs
  <1>6. (day - 1) * DayLength = day * DayLength - DayLength /\ (day + 2) * DayLength = day * DayLength + 2 * DayLength
    BY <1>2
  <1>7. (day - 1) * DayLength < first /\ first < (day + 2) * DayLength
    BY <1>1, <1>2, <1>3, <1>5, <1>6
  <1> QED
    BY <1>1, <1>5, <1>7

\* What the next run is: a day's occurrence that is later than the moment, and
\* no other is later than the moment and earlier.
LEMMA NextIs ==
  ASSUME NEW z, ZoneFacts(z), NEW time \in 0 .. DayLength - 1, NEW m \in Int,
         NEW d, d = Local(z, m) \div DayLength, NEW next, next = NextDailyIn(z, time, m)
  PROVE  /\ d \in Int /\ next \in Int /\ m < next
         /\ next = DailyOccurrence(z, time, d) \/ next = DailyOccurrence(z, time, d + 1)
         /\ \A day \in Int : DailyOccurrence(z, time, day) > m => next <= DailyOccurrence(z, time, day)
  <1>0. DayLength \in Nat /\ time \in Int /\ 0 <= time /\ time < DayLength
    BY DailyAssumption DEF DailyAssumption
  <1>1. PICK v : v = Local(z, m) /\ v \in Int
    BY LocalIs
  <1>2. d \in Int /\ d * DayLength <= v /\ v < (d + 1) * DayLength
    BY <1>1, DayIs
  <1>3. PICK e : e = d + 1 /\ e \in Int
    BY <1>2
  <1>4. PICK today, tomorrow : today = DailyOccurrence(z, time, d) /\ tomorrow = DailyOccurrence(z, time, e)
    OBVIOUS
  <1>5. /\ today \in Int /\ Local(z, today) >= d * DayLength + time
        /\ \A u \in Int : Local(z, u) >= d * DayLength + time => today <= u
    BY <1>2, <1>4, OccurrenceFirst
  <1>6. /\ tomorrow \in Int /\ Local(z, tomorrow) >= e * DayLength + time
        /\ \A u \in Int : Local(z, u) >= e * DayLength + time => tomorrow <= u
    BY <1>3, <1>4, OccurrenceFirst
  <1>7. next = IF today <= m THEN tomorrow ELSE today
    BY <1>3, <1>4 DEF NextDailyIn
  <1>8. m < tomorrow
    <2>1. e * DayLength \in Int /\ Local(z, tomorrow) \in Int
      BY <1>3, <1>6, DayAfter, LocalIs
    <2>2. Local(z, tomorrow) >= (d + 1) * DayLength
      BY <1>0, <1>3, <1>6, <2>1
    <2> QED
      BY <1>6, <2>2, DaysPass
  <1>9. ASSUME NEW day \in Int, NEW first, first = DailyOccurrence(z, time, day), first > m PROVE next <= first
    <2>1. /\ first \in Int /\ Local(z, first) >= day * DayLength + time
          /\ \A u \in Int : Local(z, u) >= day * DayLength + time => first <= u
      BY <1>9, OccurrenceFirst
    <2>2. PICK p, q, s : p = day * DayLength /\ q = d * DayLength /\ s = e * DayLength
      OBVIOUS
    <2>3. p \in Int /\ q \in Int /\ s \in Int /\ s = q + DayLength
      BY <1>2, <1>3, <2>2, DayAfter
    <2>9. Local(z, first) \in Int
      BY <2>1, LocalIs
    <2>4. CASE day < d
      <3>1. p <= q - DayLength
        <4>1. PICK f : f = day + 1 /\ f \in Int /\ f <= d
          BY <1>2, <2>4
        <4>2. f * DayLength <= q /\ f * DayLength = p + DayLength
          BY <1>2, <2>2, <4>1, DaysOrdered, DayAfter
        <4> QED
          BY <1>0, <2>3, <4>2
      <3>2. v >= p + time
        BY <1>0, <1>1, <1>2, <2>2, <2>3, <3>1
      <3>3. first <= m
        BY <1>1, <2>1, <2>2, <3>2
      <3> QED
        BY <1>9, <2>1, <3>3
    <2>5. CASE day = d
      <3>1. first = today
        BY <1>4, <1>9, <2>5
      <3> QED
        BY <1>5, <1>7, <1>9, <3>1
    <2>6. CASE day > d
      <3>1. p >= s
        <4>1. e <= day
          BY <1>2, <1>3, <2>6
        <4> QED
          BY <1>3, <2>2, <4>1, DaysOrdered
      <3>2. Local(z, first) >= s + time /\ Local(z, first) >= q + time
        BY <1>0, <2>1, <2>2, <2>3, <2>9, <3>1
      <3>3. tomorrow <= first /\ today <= first
        BY <1>5, <1>6, <2>1, <2>2, <3>2
      <3> QED
        BY <1>5, <1>6, <1>7, <2>1, <3>3
    <2> QED
      BY <1>2, <2>4, <2>5, <2>6
  <1>10. next \in Int /\ m < next
    BY <1>5, <1>6, <1>7, <1>8
  <1>11. next = DailyOccurrence(z, time, d) \/ next = DailyOccurrence(z, time, d + 1)
    BY <1>3, <1>4, <1>7
  <1> QED
    BY <1>2, <1>9, <1>10, <1>11

---------------------------------------------------------------------------
(* What the schedule does                                                  *)

\* The instants of the model around a moment.
LEMMA DaysBounded ==
  ASSUME NEW day \in Days
  PROVE  /\ day \in Int
         /\ -DayLength <= day * DayLength /\ day * DayLength <= MaxInstant + 2 * DayLength
  <1>1. DayLength \in Nat \ {0} /\ MaxInstant \in Nat
    BY DailyAssumption DEF DailyAssumption
  <1>2. PICK last : last = MaxInstant \div DayLength
    OBVIOUS
  <1>3. last \in Int /\ last * DayLength <= MaxInstant
    BY <1>1, <1>2, DayIs
  <1>4. day \in Int /\ -1 <= day /\ day <= last + 2
    BY <1>2, <1>3 DEF Days
  <1>5. -1 * DayLength <= day * DayLength /\ -1 * DayLength = -DayLength
    BY <1>1, <1>4
  <1>6. PICK two : two = last + 2
    OBVIOUS
  <1>7. two \in Int /\ day <= two /\ two * DayLength = last * DayLength + 2 * DayLength
    BY <1>1, <1>3, <1>4, <1>6
  <1>8. day * DayLength <= two * DayLength
    BY <1>4, <1>7, DaysOrdered
  <1>9. last * DayLength \in Int /\ day * DayLength \in Int /\ two * DayLength \in Int
    BY <1>3, <1>4, <1>7, DayAfter
  <1> QED
    BY <1>1, <1>3, <1>4, <1>5, <1>7, <1>8, <1>9

\* On the days of the model the code's occurrence is the first instant that
\* shows the time or a later one.
LEMMA ShownIs ==
  ASSUME NEW z, ZoneFacts(z), NEW time \in 0 .. DayLength - 1, NEW day \in Days
  PROVE  FirstShown(z, time, day) = DailyOccurrence(z, time, day)
  <1>1. DayLength \in Nat \ {0} /\ MaxInstant \in Nat
    BY DailyAssumption DEF DailyAssumption
  <1>2. /\ day \in Int /\ day * DayLength \in Int
        /\ -DayLength <= day * DayLength /\ day * DayLength <= MaxInstant + 2 * DayLength
    BY DaysBounded, DayAfter
  <1>3. PICK first : first = DailyOccurrence(z, time, day)
    OBVIOUS
  <1>4. PICK wall : wall = day * DayLength + time
    OBVIOUS
  <1>5. /\ first \in Int /\ Local(z, first) >= wall
        /\ \A u \in Int : Local(z, u) >= wall => first <= u
    BY <1>2, <1>3, <1>4, OccurrenceFirst
  <1>6. (day - 1) * DayLength < first /\ first < (day + 2) * DayLength
    BY <1>2, <1>3, OccurrenceFirst
  <1>7. /\ (day - 1) * DayLength = day * DayLength - DayLength
        /\ (day + 2) * DayLength = day * DayLength + 2 * DayLength
    BY <1>1, <1>2
  <1>8. first \in Instants
    BY <1>1, <1>2, <1>5, <1>6, <1>7 DEF Instants
  <1>9. PICK shows : shows = {u \in Instants : Local(z, u) >= wall}
    OBVIOUS
  <1>10. Instants \in SUBSET Int
    BY <1>1 DEF Instants
  <1>11. shows \in SUBSET Int /\ first \in shows /\ \A u \in shows : first <= u
    BY <1>5, <1>8, <1>9, <1>10
  <1>12. Min(shows) = first
    BY <1>11, MinIs
  <1> QED
    BY <1>3, <1>4, <1>9, <1>12 DEF FirstShown

\* The next run is the first occurrence of any day after the moment
\* (_next_daily).
LEMMA NextIsFirst ==
  ASSUME NEW z, ZoneFacts(z), NEW time \in 0 .. DayLength - 1, NEW m \in 0 .. MaxInstant
  PROVE  NextDailyIn(z, time, m) = Min({u \in {FirstShown(z, time, day) : day \in Days} : u > m})
  <1>1. DayLength \in Nat \ {0} /\ MaxInstant \in Nat /\ m \in Int /\ 0 <= m /\ m <= MaxInstant
    BY DailyAssumption DEF DailyAssumption
  <1>2. PICK d : d = Local(z, m) \div DayLength
    OBVIOUS
  <1>3. PICK next : next = NextDailyIn(z, time, m)
    OBVIOUS
  <1>4. /\ d \in Int /\ next \in Int /\ m < next
        /\ next = DailyOccurrence(z, time, d) \/ next = DailyOccurrence(z, time, d + 1)
        /\ \A day \in Int : DailyOccurrence(z, time, day) > m => next <= DailyOccurrence(z, time, day)
    BY <1>1, <1>2, <1>3, NextIs
  <1>5. d \in Days /\ d + 1 \in Days
    <2>1. PICK v : v = Local(z, m) /\ v \in Int
      BY <1>1, LocalIs
    <2>2. -DayLength < v /\ v < MaxInstant + DayLength
      BY <1>1, <2>1, LocalIs DEF ZoneFacts
    <2>3. d * DayLength <= v /\ v < (d + 1) * DayLength
      BY <1>2, <2>1, DayIs
    <2>4. PICK last : last = MaxInstant \div DayLength
      OBVIOUS
    <2>5. last \in Int /\ MaxInstant < (last + 1) * DayLength
      BY <1>1, <2>4, DayIs
    <2>6. /\ (d + 1) * DayLength = d * DayLength + DayLength /\ d * DayLength \in Int
          /\ (last + 1) * DayLength = last * DayLength + DayLength /\ last * DayLength \in Int
      BY <1>4, <2>5, DayAfter
    <2>7. -1 <= d
      <3>1. CASE d <= -2
        <4>1. PICK e : e = d + 2 /\ e \in Int /\ e <= 0
          BY <1>4, <3>1
        <4>2. e * DayLength <= 0 * DayLength /\ 0 * DayLength = 0
          BY <1>1, <4>1, DaysOrdered
        <4>3. e * DayLength = d * DayLength + 2 * DayLength
          BY <1>1, <1>4, <4>1
        <4> QED
          BY <1>1, <2>1, <2>2, <2>3, <2>6, <4>2, <4>3
      <3> QED
        BY <1>4, <3>1
    <2>8. d <= last + 1
      <3>1. CASE last + 2 <= d
        <4>1. PICK e : e = last + 2 /\ e \in Int
          BY <2>5
        <4>2. e * DayLength <= d * DayLength
          BY <1>4, <3>1, <4>1, DaysOrdered
        <4>3. e * DayLength = last * DayLength + 2 * DayLength
          BY <1>1, <2>5, <4>1
        <4> QED
          BY <1>1, <2>1, <2>2, <2>3, <2>5, <2>6, <4>2, <4>3
      <3> QED
        BY <1>4, <2>5, <3>1
    <2> QED
      BY <1>4, <2>4, <2>5, <2>7, <2>8 DEF Days
  <1>6. PICK later : later = {u \in {FirstShown(z, time, day) : day \in Days} : u > m}
    OBVIOUS
  <1>7. \A day \in Days : /\ day \in Int /\ FirstShown(z, time, day) = DailyOccurrence(z, time, day)
                          /\ DailyOccurrence(z, time, day) \in Int
    BY ShownIs, DaysBounded, OccurrenceFirst
  <1>8. later \in SUBSET Int
    BY <1>6, <1>7
  <1>9. next \in later
    BY <1>4, <1>5, <1>6, <1>7
  <1>10. \A u \in later : next <= u
    BY <1>4, <1>6, <1>7
  <1> QED
    BY <1>3, <1>6, <1>8, <1>9, <1>10, MinIs

\* A time that an operator enters.
LEMMA EnteredIs ==
  ASSUME NEW z, ZoneFacts(z), NEW now \in 0 .. MaxInstant
  PROVE  /\ ResolveLocal(z, Local(z, now)) =
              (IF {u \in Instants : Local(z, u) = Local(z, now)} = {now} THEN now ELSE NoOccurrence)
         /\ \A gap \in z.at + z.before .. z.at + z.after - 1 : ResolveLocal(z, gap) = NoOccurrence
  <1>1. DayLength \in Nat \ {0} /\ MaxInstant \in Nat /\ now \in Int /\ 0 <= now /\ now <= MaxInstant
    BY DailyAssumption DEF DailyAssumption
  <1>2. PICK t, b, a : t = z.at /\ b = z.before /\ a = z.after
    OBVIOUS
  <1>3. /\ t \in Int /\ b \in Int /\ a \in Int
        /\ -DayLength < b /\ b < DayLength /\ -DayLength < a /\ a < DayLength
    BY <1>2 DEF ZoneFacts
  <1>4. PICK wall : wall = Local(z, now) /\ wall \in Int
    BY <1>1, LocalIs
  <1>5. PICK instants : instants = ValidLocalInstants(z, wall)
    OBVIOUS
  <1>6. instants \in SUBSET Int /\ \A u \in Int : u \in instants <=> Local(z, u) = wall
    BY <1>4, <1>5, ValidAre
  <1>7. now \in instants
    BY <1>1, <1>4, <1>6
  <1>8. instants = {u \in Instants : Local(z, u) = wall}
    <2>1. Instants \in SUBSET Int
      BY <1>1 DEF Instants
    <2>2. ASSUME NEW u \in Int, Local(z, u) = wall PROVE u \in Instants
      <3>1. (u < t => wall = u + b) /\ (u >= t => wall = u + a)
        BY <1>2, <2>2, LocalIs
      <3>2. (now < t => wall = now + b) /\ (now >= t => wall = now + a)
        BY <1>1, <1>2, <1>4, LocalIs
      <3>3. now - 2 * DayLength < u /\ u < now + 2 * DayLength
        BY <1>1, <1>3, <1>4, <3>1, <3>2
      <3> QED
        BY <1>1, <3>3 DEF Instants
    <2> QED
      BY <1>6, <2>1, <2>2
  <1>9. Cardinality(instants) = 1 <=> instants = {now}
    <2>1. ASSUME instants = {now} PROVE Cardinality(instants) = 1
      BY <2>1, FS_Singleton
    <2>2. ASSUME Cardinality(instants) = 1 PROVE instants = {now}
      <3>1. IsFiniteSet(instants)
        <4>1. PICK i, j : i = Instant(z, wall, 0) /\ j = Instant(z, wall, 1)
          OBVIOUS
        <4>2. PICK both : both = {i, j}
          OBVIOUS
        <4>3. instants \subseteq both
          BY <1>5, <4>1, <4>2 DEF ValidLocalInstants
        <4>4. IsFiniteSet(both)
          <5>1. both = {i} \cup {j} /\ IsFiniteSet({i})
            BY <4>2, FS_Singleton
          <5> QED
            BY <5>1, FS_AddElement
        <4> QED
          BY <4>3, <4>4, FS_Subset
      <3>2. \E x : instants = {x}
        BY <2>2, <3>1, FS_Singleton
      <3> QED
        BY <1>7, <3>2
    <2> QED
      BY <2>1, <2>2
  <1>10. Min({now}) = now
    <2>1. PICK only : only = {now} /\ only \in SUBSET Int
      BY <1>1
    <2>2. now \in only /\ \A u \in only : now <= u
      BY <1>1, <2>1
    <2> QED
      BY <2>1, <2>2, MinIs
  <1>11. ResolveLocal(z, wall) = IF Cardinality(instants) = 1 THEN Min(instants) ELSE NoOccurrence
    BY <1>5 DEF ResolveLocal
  <1>12. ResolveLocal(z, wall) = IF instants = {now} THEN now ELSE NoOccurrence
    BY <1>9, <1>10, <1>11
  <1>13. ASSUME NEW gap \in z.at + z.before .. z.at + z.after - 1 PROVE ResolveLocal(z, gap) = NoOccurrence
    <2>1. gap \in Int /\ t + b <= gap /\ gap < t + a
      BY <1>2, <1>3
    <2>2. PICK none : none = ValidLocalInstants(z, gap)
      OBVIOUS
    <2>3. none \in SUBSET Int /\ \A u \in Int : u \in none <=> Local(z, u) = gap
      BY <2>1, <2>2, ValidAre
    <2>4. \A u \in Int : Local(z, u) # gap
      <3> SUFFICES ASSUME NEW u \in Int PROVE Local(z, u) # gap
        OBVIOUS
      <3>1. (u < t => Local(z, u) = u + b) /\ (u >= t => Local(z, u) = u + a)
        BY <1>2, LocalIs
      <3> QED
        BY <1>3, <2>1, <3>1
    <2>5. none = {}
      BY <2>3, <2>4
    <2>6. Cardinality(none) # 1
      BY <2>5, FS_EmptySet
    <2> QED
      BY <2>2, <2>6 DEF ResolveLocal
  <1> QED
    BY <1>4, <1>8, <1>12, <1>13

---------------------------------------------------------------------------
(* The invariant                                                           *)

\* The next run is the one counted from the moment on record.
DailyInv ==
    /\ wallZone \in Zones /\ dailyTime \in 0 .. DayLength - 1
    /\ instant \in 0 .. MaxInstant
    /\ counted \in {NoOccurrence} \cup 0 .. MaxInstant
    /\ counted # NoOccurrence => nextRun = NextDailyIn(wallZone, dailyTime, counted)

\* The invariant holds at first.
LEMMA InitDailyInv == DailyInit => DailyInv
  BY DailyAssumption DEF DailyAssumption, DailyInit, DailyInv

\* Every step keeps it: a schedule that was counted once is not created again,
\* because what was counted is an instant.
LEMMA NextDailyInv == DailyInv /\ [DailyNext]_dailyVars => DailyInv'
  <1> SUFFICES ASSUME DailyInv, [DailyNext]_dailyVars PROVE DailyInv'
    OBVIOUS
  <1>1. CASE InstantPasses
    BY <1>1, DailyAssumption DEF DailyAssumption, InstantPasses, DailyInv
  <1>2. ASSUME NEW wall \in EnteredWalls, CreateDaily(wall) PROVE DailyInv'
    <2>1. counted = NoOccurrence
      <3> SUFFICES ASSUME counted # NoOccurrence PROVE FALSE
        OBVIOUS
      <3>1. nextRun = NoOccurrence /\ nextRun = NextDailyIn(wallZone, dailyTime, counted)
        BY <1>2 DEF CreateDaily, DailyInv
      <3>2. PICK z, time, m, d : /\ z = wallZone /\ time = dailyTime /\ m = counted
                                 /\ d = Local(wallZone, counted) \div DayLength
        OBVIOUS
      <3>3. PICK next : next = NextDailyIn(z, time, m)
        OBVIOUS
      <3>4. /\ ZoneFacts(z) /\ time \in 0 .. DayLength - 1 /\ m \in Int /\ 0 <= m
            /\ d = Local(z, m) \div DayLength
        BY <3>2, ZonesHaveFacts DEF DailyInv, NoOccurrence
      <3>5. next \in Int /\ m < next
        BY <3>3, <3>4, NextIs
      <3> QED
        BY <3>1, <3>2, <3>3, <3>4, <3>5 DEF NoOccurrence
    <2> QED
      BY <1>2, <2>1 DEF CreateDaily, DailyInv
  <1>3. CASE AdvanceDaily
    BY <1>3 DEF AdvanceDaily, DailyInv
  <1>4. CASE RetryDaily
    BY <1>4 DEF RetryDaily, DailyInv
  <1>5. CASE UNCHANGED dailyVars
    BY <1>5 DEF dailyVars, DailyInv
  <1> QED
    BY <1>1, <1>2, <1>3, <1>4, <1>5 DEF DailyNext

\* The invariant is what soundness needs.
LEMMA DailyInvIsSound == DailyInv => DailySound
  <1> SUFFICES ASSUME DailyInv PROVE DailySound
    OBVIOUS
  <1>1. PICK z, time, now, m : z = wallZone /\ time = dailyTime /\ now = instant /\ m = counted
    OBVIOUS
  <1>2. ZoneFacts(z) /\ time \in 0 .. DayLength - 1 /\ now \in 0 .. MaxInstant
    BY <1>1, ZonesHaveFacts DEF DailyInv
  <1>3. DailyNextIsFirst
    <2>1. CASE counted = NoOccurrence
      BY <2>1 DEF DailyNextIsFirst
    <2>2. CASE counted # NoOccurrence
      <3>1. m \in 0 .. MaxInstant /\ nextRun = NextDailyIn(z, time, m)
        BY <1>1, <2>2 DEF DailyInv
      <3>2. nextRun = Min({u \in {FirstShown(z, time, day) : day \in Days} : u > m})
        BY <1>2, <3>1, NextIsFirst
      <3> QED
        BY <1>1, <3>2 DEF DailyNextIsFirst
    <2> QED
      BY <2>1, <2>2
  <1>4. DailyEnteredTimes
    BY <1>1, <1>2, EnteredIs DEF DailyEnteredTimes
  <1> QED
    BY <1>3, <1>4 DEF DailySound, DailyInv

\* For any zones whose clocks change as DailyAssumption says, any time of the day
\* and any instants: the run after one that ended or was skipped is the first
\* occurrence of any day after that moment, and a time that an operator enters is
\* taken for the only instant that shows it, or refused (DailySound).
THEOREM SpecDailySound == DailySpec => []DailySound
  <1>1. DailySpec => []DailyInv
    BY InitDailyInv, NextDailyInv, PTL DEF DailySpec
  <1> QED
    BY <1>1, DailyInvIsSound, PTL

==============================================================================
