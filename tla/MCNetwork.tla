----------------------------- MODULE MCNetwork -----------------------------
(***************************************************************************)
(* What Atlas does on the network, for TLC: the multi-hop crawl, the       *)
(* device console, and the calendar by which discoveries are started.      *)
(* They share no state, so one run checks them: every behaviour is one of  *)
(* a single component (`busy' says which), and the others stay in one of   *)
(* their initial states.                                                   *)
(***************************************************************************)
EXTENDS Crawl, Console, DailyTimes

VARIABLE busy

networkVars == <<busy, crawlVars, consoleVars, dailyVars>>

RestingNetwork == CHOOSE n \in Networks : TRUE
RestingKeys == CHOOSE keys \in [Devices -> HostKeys] : TRUE
RestingZone == CHOOSE z \in Zones : TRUE

NetworkInit ==
    /\ busy \in {"crawl", "console", "calendar"}
    /\ CrawlInit
    /\ ConsoleInit
    /\ DailyInit
    /\ busy # "crawl" => network = RestingNetwork /\ seeds = <<"a">>
    /\ busy # "console" => presents = RestingKeys
    /\ busy # "calendar" => wallZone = RestingZone /\ dailyTime = 0

NetworkNext ==
    /\ \/ busy = "crawl" /\ CrawlNext /\ UNCHANGED <<consoleVars, dailyVars>>
       \/ busy = "console" /\ ConsoleNext /\ UNCHANGED <<crawlVars, dailyVars>>
       \/ busy = "calendar" /\ DailyNext /\ UNCHANGED <<crawlVars, consoleVars>>
    /\ UNCHANGED busy

NetworkSpec == NetworkInit /\ [][NetworkNext]_networkVars /\ ConsoleFairness

MCHosts == {"a", "b", "c", "d"}

\* A neighbor that the policy lets the crawl follow.
Plain(h) == Neighbor(h, h, "followed", {}, "inside")

\* A cycle with a tail; a mesh; and a network with a neighbor for each rule.
MCTopologies ==
    {[a |-> <<Plain("b")>>, b |-> <<Plain("c")>>, c |-> <<Plain("a"), Plain("d")>>, d |-> <<>>],
     [a |-> <<Plain("b"), Plain("c")>>, b |-> <<Plain("a"), Plain("d")>>,
      c |-> <<Plain("b"), Plain("d")>>, d |-> <<Plain("a")>>],
     [a |-> <<Neighbor("b", "b", "followed", {"allow"}, "outside"),
              Neighbor("c", "c", "followed", {"allow", "deny"}, "inside"),
              Neighbor("e", NoAddress, "followed", {"allow"}, "inside"),
              Neighbor("r", "d", "routing", {}, "inside")>>,
      b |-> <<Neighbor("d", "d", "followed", {}, "outside"),
              Neighbor("f", NoAddress, "followed", {}, "inside"),
              Neighbor("c", "c", "unfollowed", {}, "inside")>>,
      c |-> <<Plain("d")>>,
      d |-> <<Neighbor("r", "d", "routing", {}, "inside")>>]}

\* What a host answers: nothing; as a device of its own; as a device with the
\* serial number of another; as device b, without a serial number.
MCSerial == [a |-> "1", b |-> "2", c |-> "3", d |-> ""]
MCAnswer(kind, h, neighbors) ==
    CASE kind = "down" -> Down
      [] kind = "own" -> Device(h, MCSerial[h], neighbors)
      [] kind = "twin" -> Device(h, "1", neighbors)
      [] kind = "alias" -> Device("b", "", neighbors)

MCNetworks ==
    {[h \in MCHosts |-> MCAnswer(kind[h], h, topology[h])] :
       topology \in MCTopologies, kind \in [MCHosts -> {"down", "own", "twin", "alias"}]}

MCSeedLists == {<<"a">>, <<"a", "d">>, <<"c", "a", "d">>}

\* Clocks set forward and back by one, two and three, at every time of a day.
MCZones ==
    {z \in [at : 6 .. 12, before : {-1, 0, 2}, after : {-1, 0, 2}] :
       /\ z.before # z.after
       /\ z.before > z.after =>
            (z.at + z.before - 1) \div DayLength = (z.at + z.after) \div DayLength}

============================================================================
