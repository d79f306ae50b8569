-------------------------------- MODULE Crawl --------------------------------
(***************************************************************************)
(* The multi-hop crawl: discover_multihop (discovery/multihop.py) under a  *)
(* boundary policy (discovery/policy.py).                                  *)
(*                                                                         *)
(* The crawl takes the queue as one wave, attempts the hosts of the wave   *)
(* in a pool of workers, and integrates the answers in the order of the    *)
(* wave.  The attempts of a wave complete in any order.  The neighbors of a *)
(* device that is new are looked at one by one, before the next answer.    *)
(* The network is chosen at the start and does not change: what each host  *)
(* answers, and the neighbors it reports, in the order the crawl sorts     *)
(* them into.                                                              *)
(***************************************************************************)
EXTENDS Integers, FiniteSets, SequencesExt

CONSTANTS
    SeedLists,    \* lists of seeds
    Networks,     \* networks: host -> answer
    MaxDepth,     \* max_depth
    MaxDevices,   \* max_devices
    NoAddress     \* a neighbor advertised no management address

VARIABLES
    network,      \* host -> answer
    seeds,        \* the seeds, in order
    crawl,        \* "ready", "attempting", "integrating", "reported" or "raised"
    queue,        \* hosts to visit, with their depth
    wave,         \* the hosts of this wave
    answered,     \* positions of the wave, in the order their attempts ended
    integrated,   \* how many answers of the wave are integrated
    found,        \* results
    ahead,        \* the neighbors of the last result that were not looked at yet
    visits,       \* the visit list
    enqueued,     \* enqueued_hosts
    markers,      \* recorded_boundary and recorded_missing_ip
    order         \* history: every host that was taken in a wave, in order

crawlVars == <<network, seeds, crawl, queue, wave, answered, integrated, found, ahead, visits,
               enqueued, markers, order>>

\* An answer: none, or a device with its id, its serial number ("" when it has
\* none) and its neighbors.
Down == [up |-> FALSE, id |-> "", serial |-> "", neighbors |-> <<>>]
Device(id, serial, neighbors) ==
    [up |-> TRUE, id |-> id, serial |-> serial, neighbors |-> neighbors]

\* A neighbor.  kind: a protocol that announces management addresses and is
\* followed, one that is not followed, or routing evidence.  rules: the hostname
\* rules that match.  range: where its address lies.
Neighbor(name, address, kind, rules, range) ==
    [name |-> name, address |-> address, kind |-> kind, rules |-> rules, range |-> range]

ASSUME CrawlAssumption ==
    /\ MaxDepth \in Nat /\ MaxDevices \in Nat \ {0}
    /\ \A s \in SeedLists : s \in Seq(ToSet(s)) /\ s # <<>> /\ IsInjective(s)
    /\ \A n \in Networks :
         /\ \A s \in SeedLists : ToSet(s) \subseteq DOMAIN n
         /\ DOMAIN n \cap {"routing", "noaddress"} = {}
         /\ \A h \in DOMAIN n :
              /\ n[h].neighbors \in Seq(ToSet(n[h].neighbors))
              /\ \A x \in ToSet(n[h].neighbors) :
                   /\ x.address \in DOMAIN n \cup {NoAddress}
                   /\ x.kind \in {"followed", "unfollowed", "routing"}
                   /\ x.rules \subseteq {"allow", "deny"}
                   /\ x.range \in {"inside", "outside", "excluded", "unreadable"}

At(host, depth) == [host |-> host, depth |-> depth]
Visit(host, depth, status) == [host |-> host, depth |-> depth, status |-> status]

CrawlInit ==
    /\ network \in Networks
    /\ seeds \in SeedLists
    /\ crawl = "ready"
    /\ queue = [i \in DOMAIN seeds |-> At(seeds[i], 0)]
    /\ wave = <<>> /\ answered = <<>> /\ integrated = 0
    /\ found = <<>> /\ ahead = <<>> /\ visits = <<>>
    /\ enqueued = ToSet(seeds)
    /\ markers = {}
    /\ order = <<>>

---------------------------------------------------------------------------
(* The policy.                                                             *)

\* Mutant: an allow rule is looked up before the deny rules.
TraversableAllowFirst(n) ==
    IF "allow" \in n.rules THEN TRUE
    ELSE /\ "deny" \notin n.rules /\ n.kind = "followed"
         /\ n.address # NoAddress /\ n.range = "inside"

\* evaluate_neighbor, for a management candidate
Traversable(n) ==
    IF "deny" \in n.rules \/ n.kind # "followed" THEN FALSE
    ELSE \/ "allow" \in n.rules
         \/ n.address # NoAddress /\ n.range \notin {"unreadable", "excluded", "outside"}

---------------------------------------------------------------------------
(* Waves.                                                                  *)

\* Only the remaining budget of hosts is attempted.
Attempted == 1 .. Min({MaxDevices - Len(found), Len(wave)})

TakeWave ==
    /\ crawl = "ready"
    /\ queue # <<>>
    /\ crawl' = "attempting"
    /\ wave' = queue
    /\ queue' = <<>>
    /\ order' = order \o [i \in DOMAIN queue |-> queue[i].host]
    /\ answered' = <<>>
    /\ integrated' = 0
    /\ UNCHANGED <<network, seeds, found, ahead, visits, enqueued, markers>>

\* attempt, by any worker of the pool
Attempt(i) ==
    /\ crawl = "attempting"
    /\ i \in Attempted \ ToSet(answered)
    /\ answered' = Append(answered, i)
    /\ UNCHANGED <<network, seeds, crawl, queue, wave, integrated, found, ahead, visits,
                   enqueued, markers, order>>

\* pool.map has every answer.
Collected ==
    /\ crawl = "attempting"
    /\ ToSet(answered) = Attempted
    /\ crawl' = "integrating"
    /\ UNCHANGED <<network, seeds, queue, wave, answered, integrated, found, ahead, visits,
                   enqueued, markers, order>>

---------------------------------------------------------------------------
(* Integration.                                                            *)

\* Mutant: a device is known by its id alone.
KnownById(device) == \E i \in DOMAIN found : found[i].id = device.id

\* The device was discovered before, under this id or with this serial number.
Known(device) ==
    \E i \in DOMAIN found :
        found[i].id = device.id \/ (device.serial # "" /\ found[i].serial = device.serial)

\* Mutant: a neighbor counts as deep as the device that reports it.
DeeperNot(depth) == depth

Deeper(depth) == depth + 1

\* Mutant: a host is not remembered when it is put on the queue.
RememberedNot(hosts, host) == hosts

Remembered(hosts, host) == hosts \cup {host}

\* A neighbor that is not followed is visited on paper, once per marker.
Skipped(host, status, marker) ==
    /\ \/ marker \in markers /\ UNCHANGED <<visits, markers>>
       \/ /\ marker \notin markers
          /\ markers' = markers \cup {marker}
          /\ visits' = Append(visits, Visit(host, Deeper(Last(found).depth), status))
    /\ UNCHANGED <<queue, enqueued>>

\* Mutant: a neighbor beyond the boundary is left out of the report.
BeyondForgotten(n) == UNCHANGED <<visits, markers, queue, enqueued>>

Beyond(n) ==
    Skipped(IF n.address = NoAddress THEN n.name ELSE n.address, "boundary", <<n.name, n.address>>)

\* A host is put on the queue, when it never was before.
Enqueue(host) ==
    /\ \/ host \in enqueued /\ UNCHANGED <<queue, enqueued>>
       \/ /\ host \notin enqueued
          /\ enqueued' = Remembered(enqueued, host)
          /\ queue' = Append(queue, At(host, Deeper(Last(found).depth)))
    /\ UNCHANGED <<visits, markers>>

\* One round of the loop over the neighbors of the last result.
Follow ==
    /\ ahead # <<>>
    /\ ahead' = Tail(ahead)
    /\ LET n == Head(ahead)
       IN  \/ n.kind = "routing" /\ Skipped(n.name, "unresolved", <<n.name, "routing">>)
           \/ n.kind # "routing" /\ ~Traversable(n) /\ Beyond(n)
           \/ /\ n.kind # "routing" /\ Traversable(n) /\ n.address = NoAddress
              /\ Skipped(n.name, "noaddress", <<n.name, "noaddress">>)
           \/ n.kind # "routing" /\ Traversable(n) /\ n.address # NoAddress /\ Enqueue(n.address)
    /\ UNCHANGED <<network, seeds, crawl, wave, answered, integrated, found, order>>

\* Mutant: answers are integrated as they come.
PlaceAsAnswered(i) == answered[i]

\* Answers are integrated in the order of the wave.
Place(i) == i

\* Mutant: the only seed's error aborts the crawl at any depth.
AbortsAnyway(item) == Len(seeds) = 1

Aborts(item) == item.depth = 0 /\ Len(seeds) = 1

Noted(status, item) ==
    /\ visits' = Append(visits, Visit(item.host, item.depth, status))
    /\ UNCHANGED <<crawl, queue, found, ahead, enqueued, markers>>

\* Mutant: one hop too far.
AtTheEdgeLate(depth) == depth > MaxDepth

\* No neighbor of a device at this depth is followed.
AtTheEdge(depth) == depth >= MaxDepth

\* The device is new: it is recorded, and its neighbors are looked at next.
Discover(item, device) ==
    /\ found' = Append(found, [id |-> device.id, serial |-> device.serial,
                               host |-> item.host, depth |-> item.depth])
    /\ visits' = Append(visits, Visit(item.host, item.depth, "connected"))
    /\ ahead' = IF AtTheEdge(item.depth) THEN <<>> ELSE device.neighbors
    /\ UNCHANGED <<crawl, queue, enqueued, markers>>

\* One round of the loop over the attempts.  The loop's own test of the device
\* limit is never true, because the budget of the wave was computed from it.
Integrate ==
    LET item == wave[Place(integrated + 1)]
        answer == network[item.host]
    IN  /\ crawl = "integrating" /\ ahead = <<>>
        /\ integrated < Len(answered)
        /\ integrated' = integrated + 1
        /\ IF Len(found) >= MaxDevices THEN Noted("limit", item)
           ELSE IF ~answer.up
           THEN IF Aborts(item)
                THEN crawl' = "raised" /\ UNCHANGED <<queue, found, ahead, visits, enqueued, markers>>
                ELSE Noted("failed", item)
           ELSE IF Known(answer) THEN Noted("duplicate", item)
           ELSE Discover(item, answer)
        /\ UNCHANGED <<network, seeds, wave, answered, order>>

\* The hosts of the wave beyond the budget are skipped, without an attempt.
Overflow ==
    LET rest == SubSeq(wave, Len(answered) + 1, Len(wave))
    IN  /\ crawl = "integrating" /\ ahead = <<>>
        /\ integrated = Len(answered)
        /\ visits' = visits \o [i \in DOMAIN rest |-> Visit(rest[i].host, rest[i].depth, "limit")]
        /\ crawl' = "ready"
        /\ UNCHANGED <<network, seeds, queue, wave, answered, integrated, found, ahead, enqueued,
                       markers, order>>

\* The report; or the error of the first seed, when every seed failed.
Report ==
    /\ crawl = "ready"
    /\ queue = <<>>
    /\ crawl' = IF found = <<>> THEN "raised" ELSE "reported"
    /\ UNCHANGED <<network, seeds, queue, wave, answered, integrated, found, ahead, visits,
                   enqueued, markers, order>>

CrawlNext ==
    \/ TakeWave
    \/ \E i \in DOMAIN wave : Attempt(i)
    \/ Collected \/ Integrate \/ Follow \/ Overflow \/ Report

CrawlSpec == CrawlInit /\ [][CrawlNext]_crawlVars

---------------------------------------------------------------------------
(* Properties.                                                             *)

HostVisits == {"connected", "failed", "duplicate", "limit"}

\* The crawl stays within the limits it was given.
CrawlTypeOK ==
    /\ Len(found) <= MaxDevices
    /\ \A i \in DOMAIN found : found[i].depth \in 0 .. MaxDepth
    /\ \A i \in DOMAIN visits : visits[i].depth \in 0 .. MaxDepth

\* "devices reachable via several addresses are deduplicated by device
\* identity": no two results have one id or one serial number.
CrawlDevicesDistinct ==
    \A i, j \in DOMAIN found :
        /\ found[i].id = found[j].id => i = j
        /\ found[i].serial = found[j].serial /\ found[i].serial # "" => i = j

\* "Hosts are visited at most once", also in a network with cycles.
CrawlHostsOnce ==
    \A i, j \in DOMAIN visits :
        visits[i].status \in HostVisits /\ visits[j].status \in HostVisits
            /\ visits[i].host = visits[j].host => i = j

\* "results are INTEGRATED in the wave's FIFO order, so the visit list, dedup,
\* and enqueue order are byte-identical to the sequential engine": the visits of
\* hosts are those of the waves, in order, whatever order the answers came in.
CrawlVisitsInOrder ==
    \A i \in DOMAIN visits :
        LET rank == Cardinality({k \in 1 .. i : visits[k].status \in HostVisits})
        IN  visits[i].status \in HostVisits => rank \in DOMAIN order /\ visits[i].host = order[rank]

\* What the policy's documentation says of a neighbor that may be followed:
\* "Deny always wins over allow; allow wins over range scoping; anything outside
\* declared ranges is observe-only".
MayBeFollowed(n) ==
    /\ n.kind = "followed"
    /\ "deny" \notin n.rules
    /\ n.address # NoAddress
    /\ "allow" \in n.rules \/ n.range = "inside"

Advertises(r, host) ==
    r.depth < MaxDepth
        /\ \E n \in ToSet(network[r.host].neighbors) : n.address = host /\ MayBeFollowed(n)

\* "only allowed neighbors are followed": a host that is no seed is visited only
\* after a discovered device advertised it as one that the policy lets the crawl
\* follow.
CrawlFollowsPolicy ==
    \A i \in DOMAIN visits :
        visits[i].status \in HostVisits =>
            \/ visits[i].host \in ToSet(seeds)
            \/ \E j \in DOMAIN found : Advertises(found[j], visits[i].host)

\* The traversal is breadth-first: a host has depth 0 if it is a seed, and
\* otherwise one more than the nearest discovered device that advertised it.
CrawlShortest ==
    \A i \in DOMAIN visits :
        LET from == {j \in DOMAIN found : Advertises(found[j], visits[i].host)}
        IN  visits[i].status \in HostVisits =>
              IF visits[i].host \in ToSet(seeds) THEN visits[i].depth = 0
              ELSE from # {} => visits[i].depth = 1 + Min({found[j].depth : j \in from})

\* "never silently followed and never erased": the report mentions every neighbor
\* of every device that it looked beyond, by its address or by its name.
CrawlNothingErased ==
    crawl = "reported" =>
        \A j \in DOMAIN found :
            found[j].depth < MaxDepth =>
                \A n \in ToSet(network[found[j].host].neighbors) :
                    \E i \in DOMAIN visits : visits[i].host \in {n.address, n.name}

\* "discovery continues as long as at least one seed succeeds".
CrawlRaisesOnlyEmpty == crawl = "raised" => found = <<>>

\* The concurrent crawl reports what a sequential breadth-first one would,
\* within its limits, and keeps what it found.
CrawlSound ==
    /\ CrawlTypeOK
    /\ CrawlDevicesDistinct
    /\ CrawlHostsOnce
    /\ CrawlVisitsInOrder
    /\ CrawlShortest
    /\ CrawlRaisesOnlyEmpty

\* The boundary policy decides who is contacted, and hides nobody.
CrawlPolicyKept ==
    /\ CrawlFollowsPolicy
    /\ CrawlNothingErased

=============================================================================
