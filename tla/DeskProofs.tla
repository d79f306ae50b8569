----------------------------- MODULE DeskProofs -----------------------------
(***************************************************************************)
(* Proofs about what operators write and read at their desks.              *)
(*                                                                         *)
(* IncidentCases: however investigations, forms posted from pages that may *)
(* be torn or stale, and bulk requests interleave, a form is accepted only *)
(* for the catalog its page showed, a case ends with a resolution, and     *)
(* a change has its audit event or a request that owes it, unless that     *)
(* request failed or died between its write and the append.                *)
(*                                                                         *)
(* PolicyReview: whatever the shared cache of reports held and whoever     *)
(* emptied it, a report is no older than its request, the cache keeps its  *)
(* bound, and an edit of what its form did not show has an excuse.         *)
(*                                                                         *)
(* Access: an administrator remains, a page overwrites only accounts it    *)
(* shows, a revocation leaves no session and a dead session stays dead.    *)
(*                                                                         *)
(* ChangePlans: through stale pages, requests that overlap in the file and *)
(* a file that may be lost, what executes or has executed carries its      *)
(* approval and its outcome; and while requests follow one another, what is*)
(* approved was assessed and seen, a completed plan passed its checks and  *)
(* its case was told.                                                      *)
(***************************************************************************)
EXTENDS IncidentCases, PolicyReview, Access, ChangePlans, FiniteSetTheorems, SequenceTheorems,
        WellFoundedInduction, TLAPS

---------------------------------------------------------------------------
(* IncidentCases                                                           *)

\* A page shows at most one catalog.
Clerical ==
    [pc : {"rest", "display", "found", "bulk", "auditing"},
     page : [case : Nat, rev : Nat, seen : SUBSET Seq(CaseRecord)],
     title : CaseTitles \cup {""}, found : Nat, bulk : SUBSET Nat, event : Nat]

CaseTypes ==
    /\ cases \in Seq(CaseRecord)
    /\ caseRevision \in 0 .. MaxCaseRevision
    /\ clerk \in [Clerks -> Clerical]

\* The catalog: a case was touched at most once per revision, and whatever
\* brought it to its end recorded a resolution.
CatalogOfCases ==
    \A i \in DOMAIN cases :
      /\ cases[i].touched <= caseRevision
      /\ cases[i].status \in {"resolved", "closed"} => cases[i].resolution

\* A clerk works on cases there are, with a title when one was investigated, and
\* its page is no newer than the catalog.
ClerksInv ==
    \A o \in Clerks :
      /\ clerk[o].page.case \in {0} \cup DOMAIN cases
      /\ clerk[o].found \in {0} \cup DOMAIN cases
      /\ clerk[o].bulk \subseteq DOMAIN cases
      /\ clerk[o].pc = "found" => clerk[o].title \in CaseTitles
      /\ clerk[o].page.rev <= caseRevision
      /\ clerk[o].pc = "auditing" => clerk[o].page.case = 0

CaseInv ==
    /\ CaseTypes
    /\ CatalogOfCases
    /\ ClerksInv
    /\ CaseRevisionIdentifies
    /\ CaseChangesAudited

\* The newest of the cases that were found is one of them.
LEMMA NewestFound ==
    ASSUME NEW n \in Nat, NEW found, found \subseteq 1 .. n
    PROVE  Newest(found) \in {0} \cup found
<1>1. CASE found = {}
  BY <1>1 DEF Newest
<1>2. CASE found # {}
  <2> DEFINE left == {k \in Nat : \E i \in found : k = n - i}
             smaller == OpToRel(<, Nat)
  <2>1. left \subseteq Nat
    OBVIOUS
  <2>2. left # {}
    <3>1. PICK i \in found : TRUE
      BY <1>2
    <3>2. n - i \in Nat
      BY <3>1
    <3> QED
      BY <3>1, <3>2
  <2>3. IsWellFoundedOn(smaller, Nat)
    BY NatLessThanWellFounded, Zenon
  <2>4. \A x, y \in Nat : <<x, y>> \in smaller <=> x < y
    BY DEF OpToRel
  <2>5. \A k \in left : \E i \in found : k = n - i
    OBVIOUS
  <2>6. \A i \in found : n - i \in left
    OBVIOUS
  <2> HIDE DEF smaller, left
  <2>7. PICK k \in left : \A m \in left : ~(<<m, k>> \in smaller)
    BY <2>1, <2>2, <2>3, WFMin
  <2>8. PICK i \in found : k = n - i
    BY <2>5, <2>7
  <2>9. \A j \in found : j <= i
    <3> SUFFICES ASSUME NEW j \in found PROVE j <= i
      OBVIOUS
    <3>1. n - j \in left /\ n - j \in Nat /\ k \in Nat
      BY <2>1, <2>6, <2>7
    <3>2. ~(n - j < k)
      BY <2>4, <2>7, <3>1
    <3> QED
      BY <2>8, <3>2
  <2> QED
    BY <1>2, <2>9 DEF Newest
<1> QED
  BY <1>1, <1>2

\* A new catalog keeps its cases' types: a case is replaced, or one is opened.
LEMMA CatalogTypes ==
    ASSUME CaseTypes
    PROVE  /\ DOMAIN cases = 1 .. Len(cases) /\ Len(cases) \in Nat
           /\ \A i \in DOMAIN cases, c \in CaseRecord :
                LET d == [cases EXCEPT ![i] = c]
                IN  /\ d \in Seq(CaseRecord) /\ DOMAIN d = DOMAIN cases
                    /\ \A j \in DOMAIN cases : d[j] = IF j = i THEN c ELSE cases[j]
           /\ \A c \in CaseRecord :
                LET d == Append(cases, c)
                IN  /\ d \in Seq(CaseRecord) /\ DOMAIN d = DOMAIN cases \cup {Len(cases) + 1}
                    /\ \A j \in DOMAIN cases : d[j] = cases[j]
                    /\ d[Len(cases) + 1] = c
<1>1. DOMAIN cases = 1 .. Len(cases) /\ Len(cases) \in Nat
  BY DEF CaseTypes
<1>2. ASSUME NEW i \in DOMAIN cases, NEW c \in CaseRecord, NEW d, d = [cases EXCEPT ![i] = c]
      PROVE  /\ d \in Seq(CaseRecord) /\ DOMAIN d = DOMAIN cases
             /\ \A j \in DOMAIN cases : d[j] = IF j = i THEN c ELSE cases[j]
  <2>1. cases \in Seq(CaseRecord) /\ i \in 1 .. Len(cases)
    BY <1>1 DEF CaseTypes
  <2>2. d \in Seq(CaseRecord)
    BY <1>2, <2>1, ExceptSeq
  <2> QED
    BY <1>2, <2>2
<1>3. ASSUME NEW c \in CaseRecord, NEW d, d = Append(cases, c)
      PROVE  /\ d \in Seq(CaseRecord) /\ DOMAIN d = DOMAIN cases \cup {Len(cases) + 1}
             /\ \A j \in DOMAIN cases : d[j] = cases[j]
             /\ d[Len(cases) + 1] = c
  <2>1. cases \in Seq(CaseRecord)
    BY DEF CaseTypes
  <2>2. /\ d \in Seq(CaseRecord) /\ Len(d) = Len(cases) + 1
        /\ \A j \in 1 .. Len(cases) : d[j] = cases[j]
        /\ d[Len(cases) + 1] = c
    BY <1>3, <2>1, AppendProperties
  <2>3. DOMAIN d = 1 .. (Len(cases) + 1)
    BY <2>2
  <2> QED
    BY <1>1, <2>2, <2>3
<1> QED
  BY <1>1, <1>2, <1>3

\* What an operation may make of a case.
Sound(c) ==
    /\ c \in CaseRecord
    /\ c.touched <= caseRevision + 1
    /\ c.status \in {"resolved", "closed"} => c.resolution

\* A write of the catalog by a request of o, which then owes its event.
LEMMA CatalogWritten ==
    ASSUME CaseInv, NEW o \in Clerks, clerk[o].pc # "auditing",
           NEW request \in Clerical, request.page = NoPage, request.found = 0,
           request.bulk \subseteq DOMAIN cases, OweEvent(o, request),
           NEW changed, WriteCases(changed), UNCHANGED <<caseAudit, caseLost>>,
           \/ \E i \in DOMAIN cases : \E c : Sound(c) /\ changed = [cases EXCEPT ![i] = c]
           \/ \E c : Sound(c) /\ changed = Append(cases, c)
    PROVE  CaseInv'
<1> DEFINE n == caseRevision + 1
           owing == [request EXCEPT !.pc = "auditing", !.event = n]
<1>0. CaseTypes /\ CatalogOfCases /\ ClerksInv
  BY DEF CaseInv
<1>1. caseRevision \in Nat /\ MaxCaseRevision \in Nat /\ caseRevision' = caseRevision + 1
      /\ caseRevision' \in 0 .. MaxCaseRevision
  BY <1>0, CaseAssumption DEF CaseTypes, WriteCases, CaseAssumption
<1>2. /\ cases' \in Seq(CaseRecord) /\ DOMAIN cases \subseteq DOMAIN cases'
      /\ \A i \in DOMAIN cases' : (i \in DOMAIN cases /\ cases'[i] = cases[i]) \/ Sound(cases'[i])
  <2>1. cases' = changed
    BY DEF WriteCases
  <2>2. CASE \E i \in DOMAIN cases : \E c : Sound(c) /\ changed = [cases EXCEPT ![i] = c]
    <3>0. PICK i \in DOMAIN cases : \E c : Sound(c) /\ changed = [cases EXCEPT ![i] = c]
      BY <2>2
    <3>1. PICK c : Sound(c) /\ changed = [cases EXCEPT ![i] = c]
      BY <3>0
    <3>2. c \in CaseRecord
      BY <3>1 DEF Sound
    <3>3. changed \in Seq(CaseRecord) /\ DOMAIN changed = DOMAIN cases
          /\ \A j \in DOMAIN cases : changed[j] = IF j = i THEN c ELSE cases[j]
      BY <1>0, <3>1, <3>2, CatalogTypes
    <3> QED
      BY <2>1, <3>1, <3>3
  <2>3. CASE \E c : Sound(c) /\ changed = Append(cases, c)
    <3>1. PICK c : Sound(c) /\ changed = Append(cases, c)
      BY <2>3
    <3>2. c \in CaseRecord
      BY <3>1 DEF Sound
    <3>3. changed \in Seq(CaseRecord) /\ DOMAIN changed = DOMAIN cases \cup {Len(cases) + 1}
          /\ (\A j \in DOMAIN cases : changed[j] = cases[j]) /\ changed[Len(cases) + 1] = c
      BY <1>0, <3>1, <3>2, CatalogTypes
    <3> QED
      BY <2>1, <3>1, <3>3
  <2> QED
    BY <2>2, <2>3
<1>4. /\ owing \in Clerical /\ owing.pc = "auditing" /\ owing.event = caseRevision + 1
      /\ owing.bulk = request.bulk /\ owing.found = 0 /\ owing.page.case = 0 /\ owing.page.rev = 0
  <2>1. NoPage.case = 0 /\ NoPage.rev = 0
    BY DEF NoPage
  <2>2. n \in Nat
    BY <1>1
  <2> HIDE DEF n
  <2>3. owing \in Clerical /\ owing.pc = "auditing" /\ owing.event = n
        /\ owing.bulk = request.bulk /\ owing.found = 0 /\ owing.page = NoPage
    BY <2>2 DEF Clerical
  <2> QED
    BY <2>1, <2>3 DEF n
<1>5. clerk' = [clerk EXCEPT ![o] = owing]
  BY DEF OweEvent
<1> HIDE DEF owing
<1>6. clerk'[o] = owing /\ \A p \in Clerks : p # o => clerk'[p] = clerk[p]
  BY <1>0, <1>5 DEF CaseTypes
<1>t. \A p \in Clerks : clerk[p].page.rev \in Nat
  BY <1>0 DEF CaseTypes, Clerical
<1>7. CaseTypes'
  BY <1>0, <1>1, <1>2, <1>4, <1>5 DEF CaseTypes
<1>8. CatalogOfCases'
  <2> SUFFICES ASSUME NEW i \in DOMAIN cases'
               PROVE  /\ cases'[i].touched <= caseRevision'
                      /\ cases'[i].status \in {"resolved", "closed"} => cases'[i].resolution
    BY DEF CatalogOfCases
  <2>1. CASE i \in DOMAIN cases /\ cases'[i] = cases[i]
    <3>1. cases[i] \in CaseRecord
      BY <1>0, <2>1, CatalogTypes DEF CaseTypes
    <3>2. cases[i].touched \in Nat
      BY <3>1 DEF CaseRecord
    <3>3. cases[i].touched <= caseRevision
      BY <1>0, <2>1 DEF CatalogOfCases
    <3>4. cases[i].status \in {"resolved", "closed"} => cases[i].resolution
      BY <1>0, <2>1 DEF CatalogOfCases
    <3> QED
      BY <1>1, <2>1, <3>2, <3>3, <3>4
  <2>2. CASE Sound(cases'[i])
    BY <1>1, <2>2 DEF Sound
  <2> QED
    BY <1>2, <2>1, <2>2
<1>9. ClerksInv'
  <2> SUFFICES ASSUME NEW p \in Clerks PROVE ClerksInv!(p)'
    BY DEF ClerksInv
  <2>1. CASE p = o
    BY <1>1, <1>2, <1>4, <1>6, <2>1
  <2>2. CASE p # o
    <3>1. ClerksInv!(p)
      BY <1>0 DEF ClerksInv
    <3>2. clerk'[p] = clerk[p] /\ clerk[p].page.rev <= caseRevision'
      BY <1>1, <1>6, <1>t, <2>2, <3>1
    <3> QED
      BY <1>2, <3>1, <3>2
  <2> QED
    BY <2>1, <2>2
<1>10. CaseRevisionIdentifies'
  <2>1. \A p \in Clerks : p # o => clerk'[p].page.rev # caseRevision'
    BY <1>0, <1>1, <1>6, <1>t DEF ClerksInv
  <2> QED
    BY <1>4, <1>6, <2>1 DEF CaseRevisionIdentifies
<1>11. CaseChangesAudited'
  <2>1. Owing' = Owing \cup {o} /\ o \notin Owing /\ Owing \subseteq Clerks
    BY <1>4, <1>6 DEF Owing
  <2>2. \A p \in Owing : clerk'[p].event = clerk[p].event
    BY <1>6, <2>1
  <2>3. OwedEvents' = OwedEvents \cup {caseRevision + 1}
    BY <1>4, <1>6, <2>1, <2>2 DEF OwedEvents
  <2>4. /\ caseAudit \cup OwedEvents \cup caseLost = 1 .. caseRevision
        /\ OwedEvents \cap (caseAudit \cup caseLost) = {} /\ caseAudit \cap caseLost = {}
        /\ \A p, q \in Owing : clerk[p].event = clerk[q].event => p = q
    BY DEF CaseInv, CaseChangesAudited
  <2>5. 1 .. (caseRevision + 1) = (1 .. caseRevision) \cup {caseRevision + 1}
        /\ caseRevision + 1 \notin 1 .. caseRevision
    BY <1>1
  <2>6. caseRevision + 1 \notin caseAudit /\ caseRevision + 1 \notin OwedEvents
        /\ caseRevision + 1 \notin caseLost
    BY <2>4, <2>5
  <2>7. caseAudit' \cup OwedEvents' \cup caseLost' = 1 .. caseRevision'
    BY <1>1, <2>3, <2>4, <2>5
  <2>8. OwedEvents' \cap (caseAudit' \cup caseLost') = {} /\ caseAudit' \cap caseLost' = {}
    BY <2>3, <2>4, <2>6
  <2>9. ASSUME NEW p \in Owing', NEW q \in Owing', clerk'[p].event = clerk'[q].event
        PROVE  p = q
    <3>1. \A r \in Owing : clerk[r].event # caseRevision + 1
      BY <2>6 DEF OwedEvents
    <3> QED
      BY <1>4, <1>6, <2>1, <2>2, <2>4, <2>9, <3>1
  <2> QED
    BY <2>7, <2>8, <2>9 DEF CaseChangesAudited
<1> QED
  BY <1>7, <1>8, <1>9, <1>10, <1>11 DEF CaseInv

\* A step of o that only moves its page or its request on.
LEMMA ClerkMoves ==
    ASSUME CaseInv, NEW o \in Clerks, clerk[o].pc # "auditing",
           NEW next \in Clerical, clerk' = [clerk EXCEPT ![o] = next], next.pc # "auditing",
           UNCHANGED <<cases, caseRevision, caseAudit, caseLost>>,
           next.page.case \in {0} \cup DOMAIN cases, next.found \in {0} \cup DOMAIN cases,
           next.bulk \subseteq DOMAIN cases, next.pc = "found" => next.title \in CaseTitles,
           next.page.rev <= caseRevision,
           next.pc = "rest" /\ next.page.case # 0 => next.page.seen \subseteq {cases}
    PROVE  CaseInv'
<1>0. CaseTypes /\ CatalogOfCases /\ ClerksInv
  BY DEF CaseInv
<1>1. clerk'[o] = next /\ \A p \in Clerks : p # o => clerk'[p] = clerk[p]
  BY <1>0 DEF CaseTypes
<1>2. CaseTypes' /\ CatalogOfCases'
  BY <1>0 DEF CaseTypes, CatalogOfCases
<1>3. ClerksInv'
  BY <1>0, <1>1 DEF ClerksInv
<1>4. CaseRevisionIdentifies'
  BY <1>1 DEF CaseInv, CaseRevisionIdentifies
<1>5. CaseChangesAudited'
  <2>1. Owing' = Owing /\ \A p \in Owing : clerk'[p].event = clerk[p].event
    BY <1>1 DEF Owing
  <2>2. OwedEvents' = OwedEvents
    BY <2>1 DEF OwedEvents
  <2> QED
    BY <2>1, <2>2 DEF CaseInv, CaseChangesAudited
<1> QED
  BY <1>2, <1>3, <1>4, <1>5 DEF CaseInv

\* What the repository's operations make of a case is sound.
LEMMA SoundCases ==
    ASSUME CaseInv, NEW i \in DOMAIN cases
    PROVE  /\ Sound(Touched(cases[i])) /\ Sound(Acknowledged(cases[i]))
           /\ Sound(Suppressed(cases[i])) /\ Sound(Reopened(cases[i]))
           /\ \A v \in {"evidence", "excuse", "none"} : Sound(Resolved(cases[i], v))
           /\ \A target \in CaseTransitions[cases[i].status] :
                MayMoveCase(cases[i], target) => Sound(MovedCase(cases[i], target))
           /\ MayClose(cases[i]) => Sound(MovedCase(cases[i], "closed"))
<1> DEFINE c == cases[i]
<1>1. CaseTypes /\ CatalogOfCases
  BY DEF CaseInv
<1>2. c \in CaseRecord /\ caseRevision \in Nat
  BY <1>1, CatalogTypes DEF CaseTypes
<1>3. c.touched <= caseRevision /\ (c.status \in {"resolved", "closed"} => c.resolution)
  BY <1>1 DEF CatalogOfCases
<1>4. c.touched \in Nat /\ c.status \in DOMAIN CaseTransitions /\ c.evidence \in BOOLEAN
  BY <1>2 DEF CaseRecord
<1>5. DOMAIN CaseTransitions = {"open", "acknowledged", "investigating", "mitigating",
                                "monitoring", "resolved", "closed", "suppressed"}
  BY DEF CaseTransitions
<1>6. \A status \in DOMAIN CaseTransitions : CaseTransitions[status] \subseteq DOMAIN CaseTransitions
  BY <1>5 DEF CaseTransitions
<1>7. \A status \in DOMAIN CaseTransitions :
        "closed" \in CaseTransitions[status] => status = "resolved"
  BY <1>5 DEF CaseTransitions
<1> HIDE DEF c
<1>8. ASSUME NEW status \in DOMAIN CaseTransitions
      PROVE  /\ [c EXCEPT !.status = status] \in CaseRecord
             /\ [c EXCEPT !.status = status].touched = c.touched
             /\ [c EXCEPT !.status = status].status = status
             /\ [c EXCEPT !.status = status].resolution = c.resolution
  BY <1>2 DEF CaseRecord
<1>9. ASSUME NEW status \in DOMAIN CaseTransitions,
             status \in {"resolved", "closed"} => c.resolution
      PROVE  Sound([c EXCEPT !.status = status])
  BY <1>2, <1>3, <1>4, <1>8, <1>9 DEF Sound
<1>10. Sound(Touched(c))
  <2> DEFINE t == c.touched + 1
             d == [c EXCEPT !.touched = t]
  <2>1. t \in Nat /\ t <= caseRevision + 1
    BY <1>2, <1>3, <1>4
  <2> HIDE DEF t
  <2>2. d \in CaseRecord /\ d.touched = t /\ d.status = c.status /\ d.resolution = c.resolution
    BY <1>2, <2>1 DEF CaseRecord
  <2> HIDE DEF d
  <2>3. Sound(d)
    BY <1>3, <2>1, <2>2 DEF Sound
  <2> QED
    BY <2>3 DEF d, t, Touched
<1>11. Sound(Acknowledged(c)) /\ Sound(Suppressed(c))
  BY <1>5, <1>9 DEF Acknowledged, Suppressed
<1>12. Sound(Reopened(c))
  <2> DEFINE d == [c EXCEPT !.status = "open", !.resolution = FALSE]
  <2>1. d \in CaseRecord /\ d.touched = c.touched /\ d.status = "open"
    BY <1>2, <1>5 DEF CaseRecord
  <2> HIDE DEF d
  <2>2. Sound(d)
    BY <1>2, <1>3, <1>4, <2>1 DEF Sound
  <2> QED
    BY <2>2 DEF d, Reopened
<1>13. ASSUME NEW v \in {"evidence", "excuse", "none"} PROVE Sound(Resolved(c, v))
  <2> DEFINE e == c.evidence \/ v = "evidence"
             x == v = "excuse"
             d == [c EXCEPT !.status = "resolved", !.resolution = TRUE, !.evidence = e, !.excuse = x]
  <2>1. e \in BOOLEAN /\ x \in BOOLEAN
    BY <1>4
  <2> HIDE DEF e, x
  <2>2. d \in CaseRecord /\ d.touched = c.touched /\ d.resolution
    BY <1>2, <1>5, <2>1 DEF CaseRecord
  <2> HIDE DEF d
  <2>3. Sound(d)
    BY <1>2, <1>3, <1>4, <2>2 DEF Sound
  <2> QED
    BY <2>3 DEF d, e, x, Resolved
<1>14. ASSUME NEW target \in CaseTransitions[c.status], MayMoveCase(c, target)
       PROVE  Sound(MovedCase(c, target))
  BY <1>3, <1>4, <1>6, <1>7, <1>9, <1>14 DEF MayMoveCase, MovedCase
<1>15. MayClose(c) => Sound(MovedCase(c, "closed"))
  BY <1>5, <1>9 DEF MayClose, MovedCase
<1> QED
  BY <1>10, <1>11, <1>12, <1>13, <1>14, <1>15 DEF c

\* The steps of an investigation.
LEMMA InvestigationStep ==
    ASSUME CaseInv, NEW o \in Clerks,
           (\E title \in CaseTitles : FindActive(o, title)) \/ Conclude(o)
    PROVE  CaseInv'
<1>0. CaseTypes /\ ClerksInv
  BY DEF CaseInv
<1>1. ASSUME NEW title \in CaseTitles, FindActive(o, title) PROVE CaseInv'
  <2> DEFINE found == Newest({i \in DOMAIN cases : ActiveCase(cases[i], title)})
             next == [RestingClerk EXCEPT !.pc = "found", !.title = title, !.found = found]
  <2>1. found \in {0} \cup DOMAIN cases
    BY <1>0, CatalogTypes, NewestFound
  <2>2. clerk' = [clerk EXCEPT ![o] = next]
        /\ clerk[o].pc = "rest" /\ UNCHANGED <<cases, caseRevision, caseAudit, caseLost>>
    BY <1>1 DEF FindActive
  <2>3. found \in Nat
    BY <1>0, <2>1, CatalogTypes
  <2> HIDE DEF found
  <2>4. RestingClerk \in Clerical /\ RestingClerk.page = NoPage /\ RestingClerk.bulk = {}
    BY DEF RestingClerk, Clerical, NoPage
  <2>5. next \in Clerical /\ next.pc = "found" /\ next.found = found /\ next.page = NoPage
        /\ next.bulk = {} /\ next.title = title
    BY <2>3, <2>4 DEF Clerical
  <2> HIDE DEF next
  <2>6. next.page.case = 0 /\ next.page.rev = 0 /\ 0 <= caseRevision
    BY <1>0, <2>5 DEF NoPage, CaseTypes
  <2> QED
    BY <2>1, <2>2, <2>5, <2>6, ClerkMoves
<1>2. CASE Conclude(o)
  <2> DEFINE i == clerk[o].found
             title == clerk[o].title
  <2>1. clerk[o].pc = "found" /\ UNCHANGED <<caseAudit, caseLost>> /\ OweEvent(o, RestingClerk)
    BY <1>2 DEF Conclude
  <2>2. i \in {0} \cup DOMAIN cases /\ title \in CaseTitles /\ caseRevision \in Nat
    BY <1>0, <2>1 DEF ClerksInv, CaseTypes
  <2>3. RestingClerk \in Clerical /\ RestingClerk.page = NoPage /\ RestingClerk.found = 0
        /\ RestingClerk.bulk \subseteq DOMAIN cases
    BY DEF RestingClerk, Clerical, NoPage
  <2>4. CASE i # 0
    <3>1. Sound(Touched(cases[i])) /\ WriteCases([cases EXCEPT ![i] = Touched(cases[i])])
      BY <1>2, <2>2, <2>4, SoundCases DEF Conclude, MutateCase
    <3> QED
      BY <2>1, <2>2, <2>3, <2>4, <3>1, CatalogWritten
  <2>5. CASE i = 0
    <3>1. WriteCases(Append(cases, OpenedCase(title)))
      BY <1>2, <2>5 DEF Conclude
    <3>2. Sound(OpenedCase(title))
      BY <2>2 DEF OpenedCase, Sound, CaseRecord, CaseTransitions
    <3> QED
      BY <2>1, <2>3, <3>1, <3>2, CatalogWritten
  <2> QED
    BY <2>4, <2>5
<1> QED
  BY <1>1, <1>2

\* The steps of a page that write nothing.
LEMMA PageStep ==
    ASSUME CaseInv, NEW o \in Clerks,
           (\E i \in DOMAIN cases : DisplayCase(o, i)) \/ DisplayCaseRevision(o) \/ RefuseStale(o)
             \/ SelectCases(o)
    PROVE  CaseInv'
<1>0. CaseTypes /\ ClerksInv
  BY DEF CaseInv
<1>r. /\ RestingClerk \in Clerical /\ RestingClerk.page = NoPage /\ RestingClerk.bulk = {}
      /\ RestingClerk.found = 0
  BY DEF RestingClerk, Clerical, NoPage
<1>t. clerk[o] \in Clerical /\ caseRevision \in Nat
  BY <1>0 DEF CaseTypes
<1>1. ASSUME NEW i \in DOMAIN cases, DisplayCase(o, i) PROVE CaseInv'
  <2> DEFINE page == [case |-> i, rev |-> 0, seen |-> {cases}]
             next == [RestingClerk EXCEPT !.pc = "display", !.page = page]
  <2>1. clerk' = [clerk EXCEPT ![o] = next]
        /\ clerk[o].pc = "rest" /\ UNCHANGED <<cases, caseRevision, caseAudit, caseLost>>
    BY <1>1 DEF DisplayCase
  <2>2. i \in Nat
    BY <1>0, CatalogTypes
  <2>3. page \in [case : Nat, rev : Nat, seen : SUBSET Seq(CaseRecord)] /\ page.case = i
        /\ page.rev = 0
    BY <1>0, <2>2 DEF CaseTypes
  <2> HIDE DEF page
  <2>4. next \in Clerical /\ next.pc = "display" /\ next.page = page /\ next.bulk = {}
        /\ next.found = 0
    BY <1>r, <2>3 DEF Clerical
  <2> HIDE DEF next
  <2>5. /\ next.page.case \in {0} \cup DOMAIN cases /\ next.found \in {0} \cup DOMAIN cases
        /\ next.bulk \subseteq DOMAIN cases /\ next.page.rev <= caseRevision
        /\ next.pc \notin {"auditing", "found"}
        /\ next.pc = "rest" /\ next.page.case # 0 => next.page.seen \subseteq {cases}
    BY <1>t, <2>3, <2>4
  <2> QED
    BY <2>1, <2>4, <2>5, ClerkMoves
<1>2. CASE DisplayCaseRevision(o)
  <2> DEFINE seen == clerk[o].page.seen \cap {cases}
             page == [case |-> clerk[o].page.case, rev |-> caseRevision, seen |-> seen]
             next == [clerk[o] EXCEPT !.pc = "rest", !.page = page]
  <2>1. clerk[o].pc = "display" /\ UNCHANGED <<cases, caseRevision, caseAudit, caseLost>>
    BY <1>2 DEF DisplayCaseRevision
  <2>2. clerk' = [clerk EXCEPT ![o] = next]
    BY <1>2 DEF DisplayCaseRevision
  <2>3. clerk[o].page.case \in Nat /\ seen \subseteq Seq(CaseRecord) /\ seen \subseteq {cases}
    BY <1>t DEF Clerical
  <2> HIDE DEF seen
  <2>4. page \in [case : Nat, rev : Nat, seen : SUBSET Seq(CaseRecord)]
        /\ page.case = clerk[o].page.case /\ page.rev = caseRevision /\ page.seen = seen
    BY <1>t, <2>3
  <2> HIDE DEF page
  <2>5. next \in Clerical /\ next.pc = "rest" /\ next.page = page /\ next.bulk = clerk[o].bulk
        /\ next.found = clerk[o].found
    BY <1>t, <2>4 DEF Clerical
  <2> HIDE DEF next
  <2>6. /\ clerk[o].page.case \in {0} \cup DOMAIN cases /\ clerk[o].found \in {0} \cup DOMAIN cases
        /\ clerk[o].bulk \subseteq DOMAIN cases
    BY <1>0 DEF ClerksInv
  <2>7. /\ next.page.case \in {0} \cup DOMAIN cases /\ next.found \in {0} \cup DOMAIN cases
        /\ next.bulk \subseteq DOMAIN cases /\ next.page.rev <= caseRevision
        /\ next.pc \notin {"auditing", "found"}
        /\ next.pc = "rest" /\ next.page.case # 0 => next.page.seen \subseteq {cases}
    BY <1>t, <2>3, <2>4, <2>5, <2>6
  <2> QED
    BY <2>1, <2>2, <2>5, <2>7, ClerkMoves
<1>3. CASE RefuseStale(o)
  <2> DEFINE next == [clerk[o] EXCEPT !.page = NoPage]
  <2>1. clerk' = [clerk EXCEPT ![o] = next] /\ clerk[o].pc = "rest"
        /\ UNCHANGED <<cases, caseRevision, caseAudit, caseLost>>
    BY <1>3 DEF RefuseStale
  <2>2. NoPage \in [case : Nat, rev : Nat, seen : SUBSET Seq(CaseRecord)] /\ NoPage.case = 0
        /\ NoPage.rev = 0
    BY DEF NoPage
  <2>3. next \in Clerical /\ next.pc = "rest" /\ next.page = NoPage /\ next.bulk = clerk[o].bulk
        /\ next.found = clerk[o].found
    BY <1>t, <2>1, <2>2 DEF Clerical
  <2> HIDE DEF next
  <2>4. clerk[o].found \in {0} \cup DOMAIN cases /\ clerk[o].bulk \subseteq DOMAIN cases
    BY <1>0 DEF ClerksInv
  <2>5. /\ next.page.case \in {0} \cup DOMAIN cases /\ next.found \in {0} \cup DOMAIN cases
        /\ next.bulk \subseteq DOMAIN cases /\ next.page.rev <= caseRevision
        /\ next.pc \notin {"auditing", "found"}
        /\ next.pc = "rest" /\ next.page.case # 0 => next.page.seen \subseteq {cases}
    BY <1>t, <2>2, <2>3, <2>4
  <2> QED
    BY <2>1, <2>3, <2>5, ClerkMoves
<1>4. CASE SelectCases(o)
  <2> DEFINE next == [RestingClerk EXCEPT !.pc = "bulk", !.bulk = DOMAIN cases]
  <2>1. clerk' = [clerk EXCEPT ![o] = next] /\ clerk[o].pc = "rest"
        /\ UNCHANGED <<cases, caseRevision, caseAudit, caseLost>>
    BY <1>4 DEF SelectCases
  <2>2. DOMAIN cases \subseteq Nat
    BY <1>0, CatalogTypes
  <2>3. next \in Clerical /\ next.pc = "bulk" /\ next.page = NoPage /\ next.bulk = DOMAIN cases
        /\ next.found = 0
    BY <1>r, <2>2 DEF Clerical
  <2> HIDE DEF next
  <2>4. next.page.case = 0 /\ next.page.rev = 0
    BY <2>3 DEF NoPage
  <2>5. /\ next.page.case \in {0} \cup DOMAIN cases /\ next.found \in {0} \cup DOMAIN cases
        /\ next.bulk \subseteq DOMAIN cases /\ next.page.rev <= caseRevision
        /\ next.pc \notin {"auditing", "found"}
        /\ next.pc = "rest" /\ next.page.case # 0 => next.page.seen \subseteq {cases}
    BY <1>t, <2>3, <2>4
  <2> QED
    BY <2>1, <2>3, <2>5, ClerkMoves
<1> QED
  BY <1>1, <1>2, <1>3, <1>4

\* A form of a page changes the case of the page.
LEMMA PostStep ==
    ASSUME CaseInv, NEW o \in Clerks,
           PostMove(o) \/ PostClose(o) \/ PostResolve(o) \/ PostOther(o)
    PROVE  CaseInv'
<1> DEFINE i == clerk[o].page.case
<1>1. Submits(o)
  BY DEF PostMove, PostClose, PostResolve, PostOther, PostForm
<1>2. i \in DOMAIN cases /\ clerk[o].pc = "rest"
  BY <1>1 DEF Submits, CaseInv, ClerksInv
<1>3. \E c : Sound(c) /\ PostForm(o, c)
  <2>1. CASE PostMove(o)
    <3>1. PICK target \in CaseTransitions[cases[i].status] :
            MayMoveCase(cases[i], target) /\ PostForm(o, MovedCase(cases[i], target))
      BY <2>1 DEF PostMove
    <3> QED
      BY <1>2, <3>1, SoundCases
  <2>2. CASE PostClose(o)
    BY <1>2, <2>2, SoundCases DEF PostClose
  <2>3. CASE PostResolve(o)
    <3>1. PICK v \in {"evidence", "excuse", "none"} : PostForm(o, Resolved(cases[i], v))
      BY <2>3 DEF PostResolve
    <3> QED
      BY <1>2, <3>1, SoundCases
  <2>4. CASE PostOther(o)
    BY <1>2, <2>4, SoundCases DEF PostOther
  <2> QED
    BY <2>1, <2>2, <2>3, <2>4
<1>4. PICK c : Sound(c) /\ PostForm(o, c)
  BY <1>3
<1>5. WriteCases([cases EXCEPT ![i] = c]) /\ OweEvent(o, RestingClerk) /\ UNCHANGED <<caseAudit, caseLost>>
  BY <1>4 DEF PostForm, MutateCase
<1>6. RestingClerk \in Clerical /\ RestingClerk.page = NoPage /\ RestingClerk.found = 0
      /\ RestingClerk.bulk \subseteq DOMAIN cases
  BY DEF RestingClerk, Clerical, NoPage
<1> HIDE DEF i
<1> QED
  BY <1>2, <1>4, <1>5, <1>6, CatalogWritten DEF i

\* A bulk request changes the next case.
LEMMA BulkCaseStep == ASSUME CaseInv, NEW o \in Clerks, BulkStep(o) PROVE CaseInv'
<1>0. clerk[o].pc = "bulk" /\ clerk[o].bulk \subseteq DOMAIN cases /\ UNCHANGED <<caseAudit, caseLost>>
      /\ clerk[o].bulk \subseteq Nat
  BY CatalogTypes DEF BulkStep, CaseInv, ClerksInv
<1>1. PICK i \in clerk[o].bulk :
        /\ MutateCase(i, Resolved(cases[i], "none")) \/ MutateCase(i, Suppressed(cases[i]))
        /\ OweEvent(o, [RestingClerk EXCEPT !.bulk = clerk[o].bulk \ {i}])
  BY DEF BulkStep
<1>2. PICK c : Sound(c) /\ WriteCases([cases EXCEPT ![i] = c])
  BY <1>0, <1>1, SoundCases DEF MutateCase
<1> DEFINE todo == clerk[o].bulk \ {i}
           request == [RestingClerk EXCEPT !.bulk = todo]
<1>3. todo \subseteq DOMAIN cases /\ todo \in SUBSET Nat
  BY <1>0
<1>4. RestingClerk \in Clerical /\ RestingClerk.page = NoPage /\ RestingClerk.found = 0
  BY DEF RestingClerk, Clerical, NoPage
<1>5. OweEvent(o, request)
  BY <1>1
<1> HIDE DEF todo
<1>6. request \in Clerical /\ request.page = NoPage /\ request.found = 0 /\ request.bulk = todo
  BY <1>3, <1>4 DEF Clerical
<1> HIDE DEF request
<1> QED
  BY <1>0, <1>2, <1>3, <1>5, <1>6, CatalogWritten

\* The event of a change is recorded or lost, and the request goes on or ends.
LEMMA AuditStep ==
    ASSUME CaseInv, NEW o \in Clerks, AuditChange(o) \/ LoseEvent(o)
    PROVE  CaseInv'
<1>0. CaseTypes /\ CatalogOfCases /\ ClerksInv /\ clerk[o] \in Clerical
  BY DEF CaseInv, CaseTypes
<1>1. /\ clerk[o].pc = "auditing" /\ UNCHANGED <<cases, caseRevision>>
      /\ Proceeds(o, clerk[o].bulk) \/ Proceeds(o, {})
      /\ \/ caseAudit' = caseAudit \cup {clerk[o].event} /\ UNCHANGED caseLost
         \/ caseLost' = caseLost \cup {clerk[o].event} /\ UNCHANGED caseAudit
  BY DEF AuditChange, AppendEvent, LoseEvent
<1>2. PICK todo \in {clerk[o].bulk, {}} : Proceeds(o, todo)
  BY <1>1
<1> DEFINE pc == IF todo = {} THEN "rest" ELSE "bulk"
           next == [clerk[o] EXCEPT !.pc = pc, !.bulk = todo, !.event = 0]
<1>3. clerk' = [clerk EXCEPT ![o] = next]
  BY <1>2 DEF Proceeds
<1>4. pc \in {"rest", "bulk"}
  OBVIOUS
<1>5. todo \subseteq DOMAIN cases /\ todo \in SUBSET Nat
  BY <1>0, CatalogTypes DEF ClerksInv
<1> HIDE DEF pc
<1>6. next \in Clerical /\ next.pc = pc /\ next.page = clerk[o].page /\ next.bulk = todo
      /\ next.found = clerk[o].found
  BY <1>0, <1>4, <1>5 DEF Clerical
<1> HIDE DEF next
<1>7. clerk'[o] = next /\ \A p \in Clerks : p # o => clerk'[p] = clerk[p]
  BY <1>0, <1>3 DEF CaseTypes
<1>8. CaseTypes' /\ CatalogOfCases'
  BY <1>0, <1>1, <1>3, <1>6 DEF CaseTypes, CatalogOfCases
<1>9. ClerksInv'
  BY <1>0, <1>1, <1>4, <1>5, <1>6, <1>7 DEF ClerksInv
<1>10. CaseChangesAudited'
  <2>1. Owing' = Owing \ {o} /\ o \in Owing /\ Owing \subseteq Clerks
    BY <1>1, <1>4, <1>6, <1>7 DEF Owing
  <2>2. \A p \in Owing' : clerk'[p].event = clerk[p].event
    BY <1>7, <2>1
  <2>3. /\ caseAudit \cup OwedEvents \cup caseLost = 1 .. caseRevision
        /\ OwedEvents \cap (caseAudit \cup caseLost) = {} /\ caseAudit \cap caseLost = {}
        /\ \A p, q \in Owing : clerk[p].event = clerk[q].event => p = q
    BY DEF CaseInv, CaseChangesAudited
  <2>4. OwedEvents' = OwedEvents \ {clerk[o].event} /\ clerk[o].event \in OwedEvents
    BY <2>1, <2>2, <2>3 DEF OwedEvents
  <2>5. \A p, q \in Owing' : clerk'[p].event = clerk'[q].event => p = q
    BY <2>1, <2>2, <2>3
  <2>6. /\ caseAudit' \cup OwedEvents' \cup caseLost' = 1 .. caseRevision'
        /\ OwedEvents' \cap (caseAudit' \cup caseLost') = {} /\ caseAudit' \cap caseLost' = {}
    BY <1>1, <2>3, <2>4
  <2> QED
    BY <2>5, <2>6 DEF CaseChangesAudited
<1>11. CaseRevisionIdentifies'
  BY <1>0, <1>1, <1>6, <1>7 DEF CaseInv, CaseRevisionIdentifies, ClerksInv
<1> QED
  BY <1>8, <1>9, <1>10, <1>11 DEF CaseInv

\* The server dies: what requests owed is lost.
LEMMA CaseDeathStep == ASSUME CaseInv, CaseServerDies PROVE CaseInv'
<1>0. CaseTypes /\ CatalogOfCases /\ ClerksInv
  BY DEF CaseInv
<1>1. /\ UNCHANGED <<cases, caseRevision, caseAudit>> /\ caseLost' = caseLost \cup OwedEvents
      /\ clerk' = [p \in Clerks |-> IF clerk[p].pc = "rest" THEN clerk[p] ELSE RestingClerk]
  BY DEF CaseServerDies
<1>2. /\ RestingClerk \in Clerical /\ RestingClerk.page.case = 0 /\ RestingClerk.page.rev = 0
      /\ RestingClerk.bulk = {} /\ RestingClerk.found = 0 /\ RestingClerk.pc = "rest"
  BY DEF RestingClerk, Clerical, NoPage
<1>3. \A p \in Clerks : /\ clerk'[p] = clerk[p] \/ clerk'[p] = RestingClerk
                        /\ clerk'[p].pc = "rest"
  BY <1>1, <1>2
<1>4. CaseTypes' /\ CatalogOfCases'
  BY <1>0, <1>1, <1>2 DEF CaseTypes, CatalogOfCases
<1>5. ClerksInv'
  BY <1>0, <1>1, <1>2, <1>3 DEF ClerksInv, CaseTypes
<1>6. CaseRevisionIdentifies'
  BY <1>1, <1>2, <1>3 DEF CaseInv, CaseRevisionIdentifies
<1>7. CaseChangesAudited'
  <2>1. Owing' = {} /\ OwedEvents' = {}
    BY <1>3 DEF Owing, OwedEvents
  <2> QED
    BY <1>1, <2>1 DEF CaseInv, CaseChangesAudited
<1> QED
  BY <1>4, <1>5, <1>6, <1>7 DEF CaseInv

LEMMA CaseInitInv == CaseInit => CaseInv
<1> SUFFICES ASSUME CaseInit PROVE CaseInv
  OBVIOUS
<1>1. RestingClerk \in Clerical /\ RestingClerk.page.case = 0 /\ RestingClerk.page.rev = 0
      /\ RestingClerk.bulk = {} /\ RestingClerk.found = 0 /\ RestingClerk.pc = "rest"
  BY DEF RestingClerk, Clerical, NoPage
<1>2. /\ cases = FirstCases.cases /\ caseRevision = FirstCases.rev /\ caseAudit = 1 .. caseRevision
      /\ caseLost = {}
      /\ clerk = [o \in Clerks |-> RestingClerk]
  BY DEF CaseInit
<1>3. CaseTypes /\ CatalogOfCases
  BY <1>1, <1>2, CaseAssumption DEF CaseAssumption, CaseTypes, CatalogOfCases
<1>4. ClerksInv
  BY <1>1, <1>2, CaseAssumption DEF CaseAssumption, ClerksInv
<1>5. CaseRevisionIdentifies /\ CaseChangesAudited
  <2>1. Owing = {} /\ OwedEvents = {}
    BY <1>1, <1>2 DEF Owing, OwedEvents
  <2> QED
    BY <1>1, <1>2, <2>1 DEF CaseRevisionIdentifies, CaseChangesAudited
<1> QED
  BY <1>3, <1>4, <1>5 DEF CaseInv

LEMMA SpecCaseInv == CaseSpec => []CaseInv
<1>1. CaseInv /\ [CaseNext]_caseVars => CaseInv'
  <2> SUFFICES ASSUME CaseInv, [CaseNext]_caseVars PROVE CaseInv'
    OBVIOUS
  <2>1. CASE UNCHANGED caseVars
    BY <2>1 DEF caseVars, CaseInv, CaseTypes, CatalogOfCases, ClerksInv, CaseRevisionIdentifies,
                CaseChangesAudited, Owing, OwedEvents
  <2>2. CASE CaseNext
    BY <2>2, InvestigationStep, PageStep, PostStep, BulkCaseStep, AuditStep, CaseDeathStep DEF CaseNext
  <2> QED
    BY <2>1, <2>2
<1> QED
  BY <1>1, CaseInitInv, PTL DEF CaseSpec

\* Through investigations, forms from pages that may be stale, and bulk requests
\* at once: a form that is accepted is about the catalog its page showed, a case
\* that ended has a resolution, and a change has one audit event, or one request
\* that still owes it, unless the append failed or the server died before it.
THEOREM SpecCasesSound == CaseSpec => []CasesSound
<1>1. CaseInv => CasesSound
  <2> SUFFICES ASSUME CaseInv PROVE CasesSound
    OBVIOUS
  <2>1. CaseTypeOK
    <3>1. \A i \in DOMAIN cases : cases[i] \in CaseRecord /\ cases[i].touched <= caseRevision
      BY CatalogTypes DEF CaseInv, CaseTypes, CatalogOfCases
    <3> QED
      BY <3>1 DEF CaseInv, CaseTypes, CaseRecord, ClerksInv, CaseTypeOK
  <2> QED
    BY <2>1 DEF CaseInv, CatalogOfCases, CaseEndsResolved, CasesSound
<1> QED
  BY <1>1, SpecCaseInv, PTL

---------------------------------------------------------------------------
(* PolicyReview                                                            *)

ReviewSteps == {"idle", "key", "lookup", "hit", "evaluate", "store", "bound", "evict", "report",
                "exceptionRevision", "baselines", "baselineRevision", "invalidate", "except"}

ReviewRecord ==
    [at : ReviewSteps, goal : {"page", "save"}, view : Views \cup {<<>>},
     key : Seq(Nat), report : Seq(Nat), began : Seq(Nat)]

CacheEntry == [key : Views \X Seq(Nat), report : Seq(Nat)]

PolicyTypes ==
    /\ evidence \in [Scopes -> Nat]
    /\ baselines \in Nat
    /\ exceptions \in Nat
    /\ reports \in Seq(CacheEntry)
    /\ review \in [Reviewers -> ReviewRecord]

\* The part of the stamps that part i of a report is read after: a report
\* starts with the baselines, the stamps end with them.
StampOf(i, scopes) == IF i = 1 THEN scopes + 1 ELSE i - 1

\* Part by part, what has been read of the report is no older than the stamps.
NewerThan(report, stamps, scopes) ==
    \A i \in 1 .. Len(report) : report[i] >= stamps[StampOf(i, scopes)]

\* A report that has been evaluated, of that many scopes, and stamps it covers.
Covers(report, stamps, scopes) ==
    Len(report) = scopes + 1 /\ Len(stamps) = scopes + 1 /\ NewerThan(report, stamps, scopes)

\* A request that has not got its report: what it began with is no newer than
\* its key, and its key no newer than the stores are.
Keyed(r) ==
    /\ r.view \in Views
    /\ Len(r.began) = Len(r.view) + 1
    /\ Len(r.key) <= Len(r.view) + 1
    /\ \A i \in 1 .. Len(r.view) + 1 : r.began[i] <= KeyPart(r.view, i)
    /\ \A i \in 1 .. Len(r.key) : r.began[i] <= r.key[i] /\ r.key[i] <= KeyPart(r.view, i)

ReviewOf(r) ==
    /\ r.at \in {"key", "lookup", "hit", "evaluate", "store"} => Keyed(r)
    /\ r.at = "key" => Len(r.key) <= Len(r.view)
    /\ r.at \in {"lookup", "hit", "evaluate", "store"} => Len(r.key) = Len(r.view) + 1
    /\ r.at \in {"key", "lookup"} => r.report = <<>>
    /\ r.at = "evaluate" => Len(r.report) <= Len(r.view) /\ NewerThan(r.report, r.key, Len(r.view))
    /\ r.at \in {"hit", "store"} => Covers(r.report, r.key, Len(r.view))
    /\ r.at \in {"bound", "evict", "report"} =>
         r.view \in Views /\ Covers(r.report, r.began, Len(r.view))

\* A cached report covers its key.
CacheCovers ==
    \A i \in DOMAIN reports : Covers(reports[i].report, reports[i].key[2], Len(reports[i].key[1]))

PolicyInv ==
    /\ PolicyTypes
    /\ \A o \in Reviewers : ReviewOf(review[o])
    /\ CacheCovers
    /\ CacheBounded
    /\ EditsExcused

---------------------------------------------------------------------------
(* PolicyReview: stamps and reports                                        *)

LEMMA ViewOfScopes ==
    ASSUME NEW view \in Views
    PROVE  /\ view \in Seq(Scopes)
           /\ Len(view) \in Nat /\ DOMAIN view = 1 .. Len(view)
           /\ \A i \in 1 .. Len(view) : view[i] \in Scopes
<1>1. view \in Seq(Scopes)
  BY PolicyAssumption
<1> QED BY <1>1

LEMMA StampsAreNumbers ==
    ASSUME PolicyTypes, NEW view \in Views, NEW i \in 1 .. Len(view) + 1
    PROVE  KeyPart(view, i) \in Nat
<1>1. Len(view) \in Nat /\ \A j \in 1 .. Len(view) : view[j] \in Scopes
  BY ViewOfScopes
<1> QED BY <1>1 DEF KeyPart, PolicyTypes

\* Reports that cover their stamps are as new as PolicyReview wants them.
LEMMA CoveringIsNotOlder ==
    ASSUME NEW report \in Seq(Nat), NEW stamps \in Seq(Nat), NEW scopes \in Nat,
           Covers(report, stamps, scopes)
    PROVE  NotOlder(report, stamps)
<1>1. /\ Len(report) = scopes + 1 /\ Len(stamps) = scopes + 1
      /\ \A i \in 1 .. scopes + 1 : report[i] >= stamps[StampOf(i, scopes)]
  BY DEF Covers, NewerThan
<1>2. Head(report) >= Last(stamps)
  <2>1. report[1] >= stamps[scopes + 1]
    <3>1. 1 \in 1 .. scopes + 1 /\ StampOf(1, scopes) = scopes + 1
      BY DEF StampOf
    <3> QED BY <1>1, <3>1
  <2>2. Head(report) = report[1]
    BY <1>1
  <2> QED BY <1>1, <2>1, <2>2 DEF Last
<1>3. \A i \in DOMAIN Front(stamps) : report[i + 1] >= stamps[i]
  <2>1. DOMAIN Front(stamps) = 1 .. scopes
    <3>1. Front(stamps) = SubSeq(stamps, 1, scopes)
      BY <1>1 DEF Front
    <3> QED BY <1>1, <3>1
  <2>2. \A i \in 1 .. scopes : i + 1 \in 1 .. scopes + 1 /\ StampOf(i + 1, scopes) = i
    BY DEF StampOf
  <2> QED BY <1>1, <2>1, <2>2
<1> QED BY <1>2, <1>3 DEF NotOlder

\* What covers the key covers anything that is no newer.
LEMMA CoversOlder ==
    ASSUME NEW report \in Seq(Nat), NEW key \in Seq(Nat), NEW began \in Seq(Nat), NEW scopes \in Nat,
           Covers(report, key, scopes), Len(began) = scopes + 1,
           \A i \in 1 .. scopes + 1 : began[i] <= key[i]
    PROVE  Covers(report, began, scopes)
<1>1. \A i \in 1 .. scopes + 1 : StampOf(i, scopes) \in 1 .. scopes + 1
  BY DEF StampOf
<1>2. /\ Len(report) = scopes + 1 /\ Len(key) = scopes + 1
      /\ \A i \in 1 .. scopes + 1 : report[i] >= key[StampOf(i, scopes)]
  BY DEF Covers, NewerThan
<1>3. \A i \in 1 .. scopes + 1 : report[i] \in Nat /\ key[i] \in Nat /\ began[i] \in Nat
  BY <1>2
<1>4. ASSUME NEW i \in 1 .. scopes + 1
      PROVE  report[i] >= began[StampOf(i, scopes)]
  <2> DEFINE j == StampOf(i, scopes)
  <2>1. j \in 1 .. scopes + 1
    BY <1>1
  <2> HIDE DEF j
  <2>2. report[i] >= key[j] /\ key[j] >= began[j]
    BY <1>2, <2>1 DEF j
  <2>3. report[i] >= began[j]
    BY <1>3, <2>1, <2>2
  <2> QED BY <2>3 DEF j
<1> QED BY <1>2, <1>4 DEF Covers, NewerThan

\* The evidence and the baselines only grow newer, and with them what a request
\* may have read.
LEMMA RequestsOutlast ==
    ASSUME PolicyTypes, PolicyTypes', NEW r \in ReviewRecord, ReviewOf(r),
           \A s \in Scopes : evidence[s] <= evidence'[s],
           baselines <= baselines'
    PROVE  ReviewOf(r)'
<1>1. ASSUME NEW view \in Views, NEW i \in 1 .. Len(view) + 1
      PROVE  KeyPart(view, i) <= KeyPart(view, i)' /\ KeyPart(view, i) \in Nat
             /\ KeyPart(view, i)' \in Nat
  <2>1. Len(view) \in Nat /\ \A j \in 1 .. Len(view) : view[j] \in Scopes
    BY ViewOfScopes
  <2> QED BY <2>1 DEF KeyPart, PolicyTypes
<1>2. ASSUME Keyed(r)
      PROVE  Keyed(r)'
  <2>1. /\ r.view \in Views /\ Len(r.view) \in Nat
        /\ Len(r.began) = Len(r.view) + 1 /\ Len(r.key) <= Len(r.view) + 1
        /\ r.began \in Seq(Nat) /\ r.key \in Seq(Nat)
    BY <1>2, ViewOfScopes DEF Keyed, ReviewRecord
  <2>2. \A i \in 1 .. Len(r.view) + 1 : r.began[i] \in Nat
    BY <2>1
  <2>3. \A i \in 1 .. Len(r.key) : r.key[i] \in Nat /\ i \in 1 .. Len(r.view) + 1
    BY <2>1
  <2>4. ASSUME NEW i \in 1 .. Len(r.view) + 1
        PROVE  r.began[i] <= KeyPart(r.view, i)'
    <3>1. r.began[i] <= KeyPart(r.view, i)
      BY <1>2 DEF Keyed
    <3> QED BY <1>1, <2>1, <2>2, <3>1
  <2>5. ASSUME NEW i \in 1 .. Len(r.key)
        PROVE  r.began[i] <= r.key[i] /\ r.key[i] <= KeyPart(r.view, i)'
    <3>1. r.began[i] <= r.key[i] /\ r.key[i] <= KeyPart(r.view, i)
      BY <1>2 DEF Keyed
    <3>2. i \in 1 .. Len(r.view) + 1 /\ r.key[i] \in Nat
      BY <2>3
    <3>3. KeyPart(r.view, i) <= KeyPart(r.view, i)' /\ KeyPart(r.view, i) \in Nat
          /\ KeyPart(r.view, i)' \in Nat
      BY <1>1, <2>1, <3>2
    <3> QED BY <3>1, <3>2, <3>3
  <2> QED BY <2>1, <2>4, <2>5 DEF Keyed
<1> QED BY <1>2 DEF ReviewOf

---------------------------------------------------------------------------
(* PolicyReview: one request moves                                         *)

Bounding == {o \in Reviewers : At(o, "bound") \/ At(o, "evict")}

\* How many requests are about to bound the cache.
LEMMA BoundingCounts ==
    ASSUME PolicyTypes, NEW o \in Reviewers, NEW new \in ReviewRecord,
           review' = [review EXCEPT ![o] = new]
    PROVE  /\ Cardinality(Bounding) \in Nat /\ Cardinality(Bounding') \in Nat
           /\ (new.at \in {"bound", "evict"} <=> review[o].at \in {"bound", "evict"})
                => Bounding' = Bounding
           /\ new.at \in {"bound", "evict"} /\ review[o].at \notin {"bound", "evict"}
                => Cardinality(Bounding') = Cardinality(Bounding) + 1
<1>1. /\ review'[o] = new
      /\ \A q \in Reviewers : q # o => review'[q] = review[q]
  BY DEF PolicyTypes
<1>2. Bounding = {q \in Reviewers : review[q].at \in {"bound", "evict"}}
      /\ Bounding' = {q \in Reviewers : review'[q].at \in {"bound", "evict"}}
  BY DEF Bounding, At
<1>3. IsFiniteSet(Bounding) /\ IsFiniteSet(Bounding')
  <2>1. IsFiniteSet(Reviewers)
    BY PolicyAssumption
  <2>2. Bounding \subseteq Reviewers /\ Bounding' \subseteq Reviewers
    BY <1>2
  <2> QED BY <2>1, <2>2, FS_Subset
<1>4. (new.at \in {"bound", "evict"} <=> review[o].at \in {"bound", "evict"})
        => Bounding' = Bounding
  BY <1>1, <1>2
<1>5. new.at \in {"bound", "evict"} /\ review[o].at \notin {"bound", "evict"}
        => Bounding' = Bounding \cup {o} /\ o \notin Bounding
  BY <1>1, <1>2
<1>6. Cardinality(Bounding) \in Nat /\ Cardinality(Bounding') \in Nat
  BY <1>3, FS_CardinalityType
<1>7. o \notin Bounding => Cardinality(Bounding \cup {o}) = Cardinality(Bounding) + 1
  BY <1>3, FS_AddElement
<1> QED BY <1>4, <1>5, <1>6, <1>7

\* The number of entries, and one entry per key.
EntriesBounded == Len(reports) <= CacheEntries + Cardinality(Bounding)
OneEntryPerKey == \A i, j \in DOMAIN reports : reports[i].key = reports[j].key => i = j

LEMMA BoundedIs == CacheBounded <=> EntriesBounded /\ OneEntryPerKey
  BY DEF CacheBounded, EntriesBounded, OneEntryPerKey, Bounding

LEMMA BoundedIsNext == CacheBounded' <=> EntriesBounded' /\ OneEntryPerKey'
  BY DEF CacheBounded, EntriesBounded, OneEntryPerKey, Bounding

\* A request moves; the stores may have grown newer.
LEMMA RequestMoves ==
    ASSUME PolicyInv, NEW o \in Reviewers, NEW new \in ReviewRecord,
           review' = [review EXCEPT ![o] = new],
           evidence' = evidence,
           baselines' \in Nat, baselines <= baselines',
           exceptions' \in Nat,
           reports' \in Seq(CacheEntry),
           ReviewOf(new)', CacheCovers', CacheBounded', EditsExcused'
    PROVE  PolicyInv'
<1>1. /\ review'[o] = new
      /\ \A q \in Reviewers : q # o => review'[q] = review[q]
      /\ review' \in [Reviewers -> ReviewRecord]
  BY DEF PolicyInv, PolicyTypes
<1>2. PolicyTypes'
  BY <1>1 DEF PolicyInv, PolicyTypes
<1>3. \A s \in Scopes : evidence[s] <= evidence'[s]
  BY DEF PolicyInv, PolicyTypes
<1>4. ASSUME NEW q \in Reviewers
      PROVE  ReviewOf(review[q])'
  <2>1. CASE q = o
    BY <1>1, <2>1 DEF ReviewOf, Keyed, KeyPart
  <2>2. CASE q # o
    <3>1. PICK r \in ReviewRecord : r = review[q] /\ r = review'[q]
      BY <1>1, <2>2 DEF PolicyInv, PolicyTypes
    <3>2. ReviewOf(r)
      BY <3>1 DEF PolicyInv
    <3>3. ReviewOf(r)'
      BY <1>2, <1>3, <3>2, RequestsOutlast DEF PolicyInv
    <3> QED BY <3>1, <3>3 DEF ReviewOf, Keyed, KeyPart
  <2> QED BY <2>1, <2>2
<1> QED BY <1>2, <1>4 DEF PolicyInv

\* The same, with the stores and the cache as they were and nobody more or less
\* about to bound it.
LEMMA RequestGoesOn ==
    ASSUME PolicyInv, NEW o \in Reviewers, NEW new \in ReviewRecord,
           review' = [review EXCEPT ![o] = new],
           evidence' = evidence, baselines' = baselines,
           exceptions' \in Nat,
           reports' = reports,
           ReviewOf(new)',
           EditsExcused',
           \/ new.at \in {"bound", "evict"} <=> review[o].at \in {"bound", "evict"}
           \/ Len(reports) <= CacheEntries
    PROVE  PolicyInv'
<1>1. baselines' \in Nat /\ baselines <= baselines' /\ reports' \in Seq(CacheEntry)
  BY DEF PolicyInv, PolicyTypes
<1>2. CacheCovers'
  BY DEF PolicyInv, CacheCovers
<1>3. EntriesBounded /\ OneEntryPerKey
  BY BoundedIs DEF PolicyInv
<1>4. EntriesBounded'
  <2>1. CASE Len(reports) <= CacheEntries
    <3>1. Cardinality(Bounding') \in Nat
      BY BoundingCounts DEF PolicyInv
    <3>2. CacheEntries \in Nat /\ Len(reports) \in Nat
      BY PolicyAssumption DEF PolicyInv, PolicyTypes
    <3>3. Len(reports) <= CacheEntries + Cardinality(Bounding')
      BY <2>1, <3>1, <3>2
    <3> QED BY <3>3 DEF EntriesBounded
  <2>2. CASE new.at \in {"bound", "evict"} <=> review[o].at \in {"bound", "evict"}
    <3>1. Bounding' = Bounding
      BY <2>2, BoundingCounts DEF PolicyInv
    <3> QED BY <1>3, <3>1 DEF EntriesBounded
  <2> QED BY <2>1, <2>2
<1>5. OneEntryPerKey'
  BY <1>3 DEF OneEntryPerKey
<1> QED BY <1>1, <1>2, <1>4, <1>5, BoundedIsNext, RequestMoves

LEMMA IdleRequest ==
    /\ NoReview \in ReviewRecord
    /\ NoReview.at = "idle" /\ NoReview.key = <<>> /\ NoReview.report = <<>>
  BY DEF NoReview, ReviewRecord, ReviewSteps

LEMMA RequestGoes ==
    ASSUME PolicyTypes, NEW o \in Reviewers, NEW step \in ReviewSteps, Goes(o, step)
    PROVE  \E new \in ReviewRecord :
             /\ review' = [review EXCEPT ![o] = new]
             /\ new.at = step
             /\ new.goal = review[o].goal /\ new.view = review[o].view
             /\ new.key = review[o].key /\ new.report = review[o].report
             /\ new.began = review[o].began
<1> DEFINE now == [review[o] EXCEPT !.at = step]
<1>1. review[o] \in ReviewRecord
  BY DEF PolicyTypes
<1>2. /\ now \in ReviewRecord
      /\ now.at = step
      /\ now.goal = review[o].goal /\ now.view = review[o].view
      /\ now.key = review[o].key /\ now.report = review[o].report
      /\ now.began = review[o].began
  BY <1>1 DEF ReviewRecord
<1>3. review' = [review EXCEPT ![o] = now]
  BY DEF Goes
<1> QED BY <1>2, <1>3

\* A request ends, or goes on to a step that has nothing to do with the cache.
LEMMA RequestLeaves ==
    ASSUME PolicyInv, NEW o \in Reviewers,
           \/ Ends(o)
           \/ \E step \in {"exceptionRevision", "baselines", "baselineRevision", "except"} :
                Goes(o, step),
           evidence' = evidence, baselines' = baselines,
           exceptions' \in Nat,
           reports' = reports,
           EditsExcused',
           review[o].at \notin {"bound", "evict"} \/ Len(reports) <= CacheEntries
    PROVE  PolicyInv'
<1>1. PICK new \in ReviewRecord :
        /\ review' = [review EXCEPT ![o] = new]
        /\ new.at \in {"idle", "exceptionRevision", "baselines", "baselineRevision", "except"}
  <2>1. CASE Ends(o)
    BY <2>1, IdleRequest DEF Ends
  <2>2. CASE \E step \in {"exceptionRevision", "baselines", "baselineRevision", "except"} :
               Goes(o, step)
    <3>1. PICK step \in {"exceptionRevision", "baselines", "baselineRevision", "except"} :
            Goes(o, step)
      BY <2>2
    <3>2. step \in ReviewSteps
      BY DEF ReviewSteps
    <3> QED BY <3>1, <3>2, RequestGoes DEF PolicyInv
  <2> QED BY <2>1, <2>2
<1>2. ReviewOf(new)'
  BY <1>1 DEF ReviewOf
<1>3. \/ new.at \in {"bound", "evict"} <=> review[o].at \in {"bound", "evict"}
      \/ Len(reports) <= CacheEntries
  BY <1>1
<1> QED BY <1>1, <1>2, <1>3, RequestGoesOn

\* A request begins with the stores as they are.
LEMMA OpenReportKeepsInv ==
    ASSUME PolicyInv, NEW o \in Reviewers, NEW view \in Views, NEW goal \in {"page", "save"},
           OpenReport(o, goal, view)
    PROVE  PolicyInv'
<1>1. /\ UNCHANGED <<evidence, baselines, exceptions, reports, blindEdits>>
      /\ review[o].at = "idle"
  BY DEF OpenReport, Opens, At, stores
<1>2. /\ Len(view) \in Nat /\ DOMAIN view = 1 .. Len(view)
      /\ \A i \in 1 .. Len(view) : evidence[view[i]] \in Nat
      /\ baselines \in Nat
  BY ViewOfScopes DEF PolicyInv, PolicyTypes
<1>3. PICK began \in Seq(Nat) :
        /\ began = Append(EvidenceOf(view), baselines)
        /\ Len(began) = Len(view) + 1
        /\ \A i \in 1 .. Len(view) + 1 : began[i] = KeyPart(view, i)
  <2>1. /\ EvidenceOf(view) \in Seq(Nat) /\ Len(EvidenceOf(view)) = Len(view)
        /\ \A i \in 1 .. Len(view) : EvidenceOf(view)[i] = evidence[view[i]]
    <3>1. EvidenceOf(view) = [i \in 1 .. Len(view) |-> evidence[view[i]]]
      BY <1>2 DEF EvidenceOf
    <3>2. EvidenceOf(view) \in [1 .. Len(view) -> Nat]
      BY <1>2, <3>1
    <3> QED BY <1>2, <3>1, <3>2
  <2> DEFINE stamps == EvidenceOf(view)
             all == Append(stamps, baselines)
  <2> HIDE DEF stamps
  <2>2. /\ all \in Seq(Nat) /\ Len(all) = Len(view) + 1
        /\ \A i \in 1 .. Len(view) : all[i] = stamps[i]
        /\ all[Len(view) + 1] = baselines
    BY <1>2, <2>1 DEF stamps
  <2> HIDE DEF all
  <2>3. \A i \in 1 .. Len(view) + 1 : all[i] = KeyPart(view, i)
    BY <1>2, <2>1, <2>2 DEF KeyPart, stamps
  <2> QED BY <2>2, <2>3 DEF all, stamps
<1>4. PICK new \in ReviewRecord :
        /\ review' = [review EXCEPT ![o] = new]
        /\ new.at = "key" /\ new.view = view /\ new.began = began
        /\ new.key = <<>> /\ new.report = <<>>
  <2> DEFINE now == [NoReview EXCEPT !.at = "key", !.goal = goal, !.view = view, !.began = began]
  <2>1. /\ now \in ReviewRecord
        /\ now.at = "key" /\ now.view = view /\ now.began = began
        /\ now.key = <<>> /\ now.report = <<>>
    BY IdleRequest DEF ReviewRecord, ReviewSteps
  <2>2. review' = [review EXCEPT ![o] = now]
    BY <1>3 DEF OpenReport
  <2> QED BY <2>1, <2>2
<1>5. \A i \in 1 .. Len(view) + 1 : KeyPart(view, i)' = KeyPart(view, i) /\ KeyPart(view, i) \in Nat
  BY <1>1, StampsAreNumbers DEF PolicyInv, KeyPart
<1>6. ReviewOf(new)'
  <2>1. Keyed(new)'
    <3>1. \A i \in 1 .. Len(view) + 1 : began[i] <= KeyPart(view, i)'
      BY <1>3, <1>5
    <3> QED BY <1>2, <1>3, <1>4, <3>1 DEF Keyed
  <2> QED BY <1>2, <1>4, <2>1 DEF ReviewOf
<1>7. EditsExcused'
  BY <1>1 DEF PolicyInv, EditsExcused
<1>8. exceptions' \in Nat
  BY <1>1 DEF PolicyInv, PolicyTypes
<1> QED BY <1>1, <1>4, <1>6, <1>7, <1>8, RequestGoesOn

\* Another part of the key is read, after what the request began with.
LEMMA ReadKeyKeepsInv ==
    ASSUME PolicyInv, NEW o \in Reviewers, ReadKey(o)
    PROVE  PolicyInv'
<1>1. /\ UNCHANGED <<evidence, baselines, exceptions, reports, blindEdits>>
      /\ review[o].at = "key"
  BY DEF ReadKey, At, stores
<1>2. PICK me \in ReviewRecord : me = review[o]
  BY DEF PolicyInv, PolicyTypes
<1>3. PICK part \in Nat : part = Len(me.key) + 1
  <2>1. me.key \in Seq(Nat)
    BY DEF ReviewRecord
  <2> QED BY <2>1
<1>4. /\ me.view \in Views /\ Len(me.view) \in Nat
      /\ me.key \in Seq(Nat) /\ Len(me.key) \in Nat
      /\ part \in 1 .. Len(me.view) + 1
      /\ me.report = <<>> /\ Keyed(me)
  <2>1. ReviewOf(me)
    BY <1>2 DEF PolicyInv
  <2>2. Keyed(me) /\ Len(me.key) <= Len(me.view) /\ me.report = <<>>
    BY <1>1, <1>2, <2>1 DEF ReviewOf
  <2>3. me.view \in Views /\ Len(me.view) \in Nat
    BY <2>2, ViewOfScopes DEF Keyed
  <2>4. me.key \in Seq(Nat)
    BY DEF ReviewRecord
  <2> QED BY <1>3, <2>2, <2>3, <2>4
<1>5. PICK read \in Nat : read = KeyPart(me.view, part)
  BY <1>4, StampsAreNumbers DEF PolicyInv
<1>6. PICK key \in Seq(Nat) :
        /\ key = Append(me.key, read) /\ Len(key) = part
        /\ key[part] = read /\ \A i \in 1 .. Len(me.key) : key[i] = me.key[i]
  <2> DEFINE all == Append(me.key, read)
  <2>1. /\ all \in Seq(Nat) /\ Len(all) = part
        /\ all[part] = read /\ \A i \in 1 .. Len(me.key) : all[i] = me.key[i]
    BY <1>3, <1>4
  <2> HIDE DEF all
  <2> QED BY <2>1 DEF all
<1>7. PICK new \in ReviewRecord :
        /\ review' = [review EXCEPT ![o] = new]
        /\ new.at = IF part > Len(me.view) THEN "lookup" ELSE "key"
        /\ new.key = key
        /\ new.view = me.view /\ new.began = me.began /\ new.report = me.report
  <2> DEFINE at == IF part > Len(me.view) THEN "lookup" ELSE "key"
             now == [me EXCEPT !.key = key, !.at = at]
  <2>1. /\ now \in ReviewRecord
        /\ now.at = at /\ now.key = key
        /\ now.view = me.view /\ now.began = me.began /\ now.report = me.report
    <3>1. at \in ReviewSteps
      BY DEF ReviewSteps
    <3> HIDE DEF at
    <3> QED BY <3>1 DEF ReviewRecord
  <2>2. review' = [review EXCEPT ![o] = now]
    BY <1>2, <1>3, <1>5, <1>6 DEF ReadKey
  <2> QED BY <2>1, <2>2
<1>8. \A i \in 1 .. Len(me.view) + 1 : KeyPart(me.view, i)' = KeyPart(me.view, i)
  BY <1>1 DEF KeyPart
<1>9. Keyed(new)'
  <2>1. /\ Len(me.began) = Len(me.view) + 1
        /\ \A i \in 1 .. Len(me.view) + 1 : me.began[i] <= KeyPart(me.view, i)
        /\ \A i \in 1 .. Len(me.key) : me.began[i] <= me.key[i] /\ me.key[i] <= KeyPart(me.view, i)
    BY <1>4 DEF Keyed
  <2>2. Len(key) <= Len(me.view) + 1
    BY <1>4, <1>6
  <2>3. \A i \in 1 .. Len(key) : i = part \/ i \in 1 .. Len(me.key)
    BY <1>3, <1>4, <1>6
  <2>4. \A i \in 1 .. Len(key) : i \in 1 .. Len(me.view) + 1
    BY <1>4, <1>6
  <2>5. \A i \in 1 .. Len(key) : me.began[i] <= key[i] /\ key[i] <= KeyPart(me.view, i)
    <3> SUFFICES ASSUME NEW i \in 1 .. Len(key)
                 PROVE  me.began[i] <= key[i] /\ key[i] <= KeyPart(me.view, i)
      OBVIOUS
    <3>1. CASE i = part
      BY <1>4, <1>5, <1>6, <2>1, <3>1
    <3>2. CASE i \in 1 .. Len(me.key)
      BY <1>6, <2>1, <3>2
    <3> QED BY <2>3, <3>1, <3>2
  <2> QED BY <1>4, <1>7, <1>8, <2>1, <2>2, <2>4, <2>5 DEF Keyed
<1>10. ReviewOf(new)'
  BY <1>4, <1>6, <1>7, <1>9 DEF ReviewOf
<1>11. EditsExcused' /\ exceptions' \in Nat
  BY <1>1 DEF PolicyInv, PolicyTypes, EditsExcused
<1>12. new.at \notin {"bound", "evict"}
  BY <1>7
<1> QED BY <1>1, <1>7, <1>10, <1>11, <1>12, RequestGoesOn

\* With its key, a request whose report covers the key has one that covers what
\* the request began with.
LEMMA RequestCovers ==
    ASSUME PolicyTypes, NEW r \in ReviewRecord, ReviewOf(r), r.at \in {"hit", "store"}
    PROVE  /\ r.view \in Views /\ Len(r.view) \in Nat
           /\ Covers(r.report, r.key, Len(r.view))
           /\ Covers(r.report, r.began, Len(r.view))
<1>1. /\ Keyed(r) /\ Len(r.key) = Len(r.view) + 1
      /\ Covers(r.report, r.key, Len(r.view))
  BY DEF ReviewOf
<1>2. /\ r.view \in Views /\ Len(r.view) \in Nat
      /\ Len(r.began) = Len(r.view) + 1
      /\ \A i \in 1 .. Len(r.view) + 1 : r.began[i] <= r.key[i]
  BY <1>1, ViewOfScopes DEF Keyed
<1>3. r.report \in Seq(Nat) /\ r.key \in Seq(Nat) /\ r.began \in Seq(Nat)
  BY DEF ReviewRecord
<1> QED BY <1>1, <1>2, <1>3, CoversOlder

\* The report of an entry with the request's key covers that key.
LEMMA LookUpReportKeepsInv ==
    ASSUME PolicyInv, NEW o \in Reviewers, LookUpReport(o)
    PROVE  PolicyInv'
<1>1. /\ UNCHANGED <<evidence, baselines, exceptions, reports, blindEdits>>
      /\ review[o].at = "lookup"
  BY DEF LookUpReport, At, stores
<1>2. PICK me \in ReviewRecord : me = review[o]
  BY DEF PolicyInv, PolicyTypes
<1>3. Keyed(me) /\ Len(me.key) = Len(me.view) + 1 /\ me.report = <<>> /\ me.view \in Views
      /\ Len(me.view) \in Nat
  BY <1>1, <1>2, ViewOfScopes DEF PolicyInv, ReviewOf, Keyed
<1>4. PICK new \in ReviewRecord :
        /\ review' = [review EXCEPT ![o] = new]
        /\ new.key = me.key /\ new.view = me.view /\ new.began = me.began
        /\ \/ new.at = "evaluate" /\ new.report = <<>>
           \/ new.at = "hit" /\ Covers(new.report, me.key, Len(me.view))
  <2>1. CASE Goes(o, "evaluate")
    <3>1. "evaluate" \in ReviewSteps
      BY DEF ReviewSteps
    <3> QED BY <1>2, <1>3, <2>1, <3>1, RequestGoes DEF PolicyInv
  <2>2. ASSUME NEW i \in Entries(KeyOf(o)),
               review' = [review EXCEPT ![o].at = "hit", ![o].report = reports[i].report]
        PROVE  \E new \in ReviewRecord :
                 /\ review' = [review EXCEPT ![o] = new]
                 /\ new.key = me.key /\ new.view = me.view /\ new.began = me.began
                 /\ new.at = "hit" /\ Covers(new.report, me.key, Len(me.view))
    <3>1. i \in DOMAIN reports /\ reports[i].key = <<me.view, me.key>>
      BY <1>2, <2>2 DEF Entries, KeyOf
    <3>2. PICK report \in Seq(Nat) : report = reports[i].report
      <4>1. reports[i] \in CacheEntry
        BY <3>1 DEF PolicyInv, PolicyTypes
      <4>2. reports[i].report \in Seq(Nat)
        BY <4>1 DEF CacheEntry
      <4> QED BY <4>2
    <3>3. Covers(report, me.key, Len(me.view))
      BY <3>1, <3>2 DEF PolicyInv, CacheCovers
    <3> DEFINE now == [me EXCEPT !.at = "hit", !.report = report]
    <3>4. /\ now \in ReviewRecord
          /\ now.key = me.key /\ now.view = me.view /\ now.began = me.began
          /\ now.at = "hit" /\ now.report = report
      BY DEF ReviewRecord, ReviewSteps
    <3>5. review' = [review EXCEPT ![o] = now]
      BY <1>2, <2>2, <3>2
    <3> QED BY <3>3, <3>4, <3>5
  <2> QED BY <2>1, <2>2 DEF LookUpReport
<1>5. ReviewOf(new)'
  <2>1. Keyed(new)'
    BY <1>1, <1>3, <1>4 DEF Keyed, KeyPart
  <2>2. new.at = "evaluate" => Len(new.report) <= Len(new.view) /\ NewerThan(new.report, new.key, Len(new.view))
    BY <1>3, <1>4 DEF NewerThan
  <2> QED BY <1>3, <1>4, <2>1, <2>2 DEF ReviewOf
<1>6. EditsExcused' /\ exceptions' \in Nat
  BY <1>1 DEF PolicyInv, PolicyTypes, EditsExcused
<1>7. new.at \notin {"bound", "evict"}
  BY <1>4
<1> QED BY <1>1, <1>4, <1>5, <1>6, <1>7, RequestGoesOn

\* An entry that moves to the end: the sequence is permuted.
LEMMA MovedToEnd ==
    ASSUME NEW s \in Seq(CacheEntry), NEW i \in DOMAIN s
    PROVE  LET t == Append(RemoveAt(s, i), s[i])
               was(j) == IF j < i THEN j ELSE IF j < Len(s) THEN j + 1 ELSE i
           IN  /\ t \in Seq(CacheEntry) /\ Len(t) = Len(s)
               /\ \A j \in 1 .. Len(s) : t[j] = s[was(j)] /\ was(j) \in 1 .. Len(s)
               /\ \A j, k \in 1 .. Len(s) : was(j) = was(k) => j = k
<1> DEFINE before == SubSeq(s, 1, i - 1)
           after == SubSeq(s, i + 1, Len(s))
           rest == before \o after
           t == Append(rest, s[i])
           was(j) == IF j < i THEN j ELSE IF j < Len(s) THEN j + 1 ELSE i
<1>1. Len(s) \in Nat /\ i \in 1 .. Len(s) /\ s[i] \in CacheEntry
  OBVIOUS
<1>2. /\ before \in Seq(CacheEntry) /\ Len(before) = i - 1
      /\ \A j \in 1 .. i - 1 : before[j] = s[j]
  BY <1>1
<1>3. /\ after \in Seq(CacheEntry) /\ Len(after) = Len(s) - i
      /\ \A j \in 1 .. Len(s) - i : after[j] = s[i + j]
  BY <1>1
<1> HIDE DEF before, after
<1>4. /\ rest \in Seq(CacheEntry) /\ Len(rest) = Len(s) - 1
      /\ \A j \in 1 .. i - 1 : rest[j] = s[j]
      /\ \A j \in i .. Len(s) - 1 : rest[j] = s[j + 1]
  <2>1. rest \in Seq(CacheEntry) /\ Len(rest) = Len(s) - 1
    BY <1>1, <1>2, <1>3
  <2>2. \A j \in 1 .. i - 1 : rest[j] = s[j]
    BY <1>1, <1>2, <1>3
  <2>3. ASSUME NEW j \in i .. Len(s) - 1
        PROVE  rest[j] = s[j + 1]
    <3>1. rest[j] = after[j - (i - 1)] /\ j - (i - 1) \in 1 .. Len(s) - i
      BY <1>1, <1>2, <1>3
    <3>2. i + (j - (i - 1)) = j + 1
      BY <1>1
    <3> QED BY <1>3, <3>1, <3>2
  <2> QED BY <2>1, <2>2, <2>3
<1> HIDE DEF rest
<1>5. /\ t \in Seq(CacheEntry) /\ Len(t) = Len(s)
      /\ \A j \in 1 .. Len(s) - 1 : t[j] = rest[j]
      /\ t[Len(s)] = s[i]
  BY <1>1, <1>4
<1> HIDE DEF t
<1>6. \A j \in 1 .. Len(s) : t[j] = s[was(j)] /\ was(j) \in 1 .. Len(s)
  <2> SUFFICES ASSUME NEW j \in 1 .. Len(s)
               PROVE  t[j] = s[was(j)] /\ was(j) \in 1 .. Len(s)
    OBVIOUS
  <2>1. CASE j < i
    <3>1. j \in 1 .. i - 1 /\ j \in 1 .. Len(s) - 1
      BY <1>1, <2>1
    <3> QED BY <1>4, <1>5, <2>1, <3>1
  <2>2. CASE i <= j /\ j < Len(s)
    <3>1. j \in i .. Len(s) - 1 /\ j \in 1 .. Len(s) - 1 /\ ~(j < i)
      BY <1>1, <2>2
    <3>2. t[j] = s[j + 1] /\ was(j) = j + 1
      BY <1>4, <1>5, <2>2, <3>1
    <3> QED BY <1>1, <3>1, <3>2
  <2>3. CASE j = Len(s)
    <3>1. was(j) = i
      BY <1>1, <2>3
    <3> QED BY <1>1, <1>5, <2>3, <3>1
  <2> QED BY <1>1, <2>1, <2>2, <2>3
<1>7. \A j, k \in 1 .. Len(s) : was(j) = was(k) => j = k
  <2>1. \A j \in 1 .. Len(s) :
          \/ j < i /\ was(j) = j
          \/ i <= j /\ j < Len(s) /\ was(j) = j + 1
          \/ j = Len(s) /\ was(j) = i
    <3> SUFFICES ASSUME NEW j \in 1 .. Len(s)
                 PROVE  \/ j < i /\ was(j) = j
                        \/ i <= j /\ j < Len(s) /\ was(j) = j + 1
                        \/ j = Len(s) /\ was(j) = i
      OBVIOUS
    <3>1. CASE j < i
      BY <3>1
    <3>2. CASE ~(j < i) /\ j < Len(s)
      BY <1>1, <3>2
    <3>3. CASE ~(j < i) /\ ~(j < Len(s))
      <4>1. j = Len(s)
        BY <1>1, <3>3
      <4>2. was(j) = i
        BY <3>3
      <4> QED BY <4>1, <4>2
    <3> QED BY <3>1, <3>2, <3>3
  <2> HIDE DEF was
  <2> QED BY <1>1, <2>1
<1>8. t = Append(RemoveAt(s, i), s[i])
  BY DEF t, rest, before, after, RemoveAt
<1> QED BY <1>5, <1>6, <1>7, <1>8

LEMMA TouchReportKeepsInv ==
    ASSUME PolicyInv, NEW o \in Reviewers, TouchReport(o)
    PROVE  PolicyInv'
<1>1. /\ UNCHANGED <<evidence, baselines, exceptions, blindEdits>>
      /\ review[o].at = "hit"
      /\ EditsExcused' /\ exceptions' \in Nat /\ baselines' \in Nat /\ baselines <= baselines'
  BY DEF TouchReport, At, stores, PolicyInv, PolicyTypes, EditsExcused
<1>2. CASE Ends(o) /\ reports' = reports
  BY <1>1, <1>2, RequestLeaves
<1>3. ASSUME NEW i \in Entries(KeyOf(o)),
             reports' = Append(RemoveAt(reports, i), reports[i]),
             Goes(o, "report")
      PROVE  PolicyInv'
  <2>1. PICK me \in ReviewRecord : me = review[o]
    BY DEF PolicyInv, PolicyTypes
  <2>2. me.view \in Views /\ Covers(me.report, me.began, Len(me.view))
    BY <1>1, <2>1, RequestCovers DEF PolicyInv
  <2>3. "report" \in ReviewSteps
    BY DEF ReviewSteps
  <2>4. PICK new \in ReviewRecord :
          /\ review' = [review EXCEPT ![o] = new]
          /\ new.at = "report" /\ new.view = me.view
          /\ new.report = me.report /\ new.began = me.began
    BY <1>3, <2>1, <2>3, RequestGoes DEF PolicyInv
  <2>5. ReviewOf(new)'
    BY <2>2, <2>4 DEF ReviewOf
  <2> DEFINE was(j) == IF j < i THEN j ELSE IF j < Len(reports) THEN j + 1 ELSE i
  <2>6. reports \in Seq(CacheEntry) /\ i \in DOMAIN reports
    BY <1>3 DEF Entries, PolicyInv, PolicyTypes
  <2>7. /\ reports' \in Seq(CacheEntry) /\ Len(reports') = Len(reports)
        /\ \A j \in 1 .. Len(reports) : reports'[j] = reports[was(j)] /\ was(j) \in 1 .. Len(reports)
        /\ \A j, k \in 1 .. Len(reports) : was(j) = was(k) => j = k
    BY <1>3, <2>6, MovedToEnd
  <2> HIDE DEF was
  <2>8. DOMAIN reports' = 1 .. Len(reports) /\ DOMAIN reports = 1 .. Len(reports)
    BY <2>6, <2>7
  <2>9. CacheCovers'
    BY <2>7, <2>8 DEF PolicyInv, CacheCovers
  <2>10. EntriesBounded /\ OneEntryPerKey
    BY BoundedIs DEF PolicyInv
  <2>11. EntriesBounded'
    <3>1. Bounding' = Bounding
      BY <1>1, <2>4, BoundingCounts DEF PolicyInv
    <3> QED BY <2>7, <2>10, <3>1 DEF EntriesBounded
  <2>12. OneEntryPerKey'
    BY <2>7, <2>8, <2>10 DEF OneEntryPerKey
  <2> QED BY <1>1, <2>4, <2>5, <2>7, <2>9, <2>11, <2>12, BoundedIsNext, RequestMoves
<1> QED BY <1>1, <1>2, <1>3 DEF TouchReport

\* The report is read part by part, each after the part of the key it answers to.
LEMMA EvaluateReportKeepsInv ==
    ASSUME PolicyInv, NEW o \in Reviewers, EvaluateReport(o)
    PROVE  PolicyInv'
<1>1. /\ UNCHANGED <<evidence, baselines, exceptions, reports, blindEdits>>
      /\ review[o].at = "evaluate"
  BY DEF EvaluateReport, At, stores
<1>2. PICK me \in ReviewRecord : me = review[o]
  BY DEF PolicyInv, PolicyTypes
<1>3. PICK part \in Nat : part = Len(me.report)
  <2>1. me.report \in Seq(Nat)
    BY DEF ReviewRecord
  <2> QED BY <2>1
<1>4. /\ Keyed(me) /\ me.view \in Views /\ Len(me.view) \in Nat
      /\ Len(me.key) = Len(me.view) + 1
      /\ part <= Len(me.view) /\ NewerThan(me.report, me.key, Len(me.view))
      /\ me.report \in Seq(Nat) /\ me.key \in Seq(Nat)
  <2>1. ReviewOf(me)
    BY <1>2 DEF PolicyInv
  <2>2. Keyed(me) /\ Len(me.key) = Len(me.view) + 1
        /\ part <= Len(me.view) /\ NewerThan(me.report, me.key, Len(me.view))
    BY <1>1, <1>2, <1>3, <2>1 DEF ReviewOf
  <2>3. me.view \in Views
    BY <2>2 DEF Keyed
  <2>4. me.report \in Seq(Nat) /\ me.key \in Seq(Nat)
    BY DEF ReviewRecord
  <2> QED BY <2>2, <2>3, <2>4, ViewOfScopes
<1>5. PICK stamp \in 1 .. Len(me.view) + 1 : stamp = StampOf(part + 1, Len(me.view))
  <2>1. StampOf(part + 1, Len(me.view)) \in 1 .. Len(me.view) + 1
    BY <1>4 DEF StampOf
  <2> QED BY <2>1
<1>6. PICK read \in Nat : read = KeyPart(me.view, stamp)
  BY <1>4, StampsAreNumbers DEF PolicyInv
<1>7. read = IF part = 0 THEN baselines ELSE evidence[me.view[part]]
  BY <1>4, <1>5, <1>6 DEF StampOf, KeyPart
<1>8. read >= me.key[stamp]
  <2>1. me.key[stamp] <= KeyPart(me.view, stamp) /\ me.key[stamp] \in Nat
    BY <1>4, <1>5 DEF Keyed
  <2> QED BY <1>6, <2>1
<1>9. PICK report \in Seq(Nat) :
        /\ report = Append(me.report, read) /\ Len(report) = part + 1
        /\ report[part + 1] = read /\ \A i \in 1 .. part : report[i] = me.report[i]
  <2> DEFINE all == Append(me.report, read)
  <2>1. /\ all \in Seq(Nat) /\ Len(all) = part + 1
        /\ all[part + 1] = read /\ \A i \in 1 .. part : all[i] = me.report[i]
    BY <1>3, <1>4
  <2> HIDE DEF all
  <2> QED BY <2>1 DEF all
<1>10. NewerThan(report, me.key, Len(me.view))
  <2>1. \A i \in 1 .. part : me.report[i] >= me.key[StampOf(i, Len(me.view))]
    BY <1>3, <1>4 DEF NewerThan
  <2>2. \A i \in 1 .. part + 1 : i = part + 1 \/ i \in 1 .. part
    OBVIOUS
  <2> QED BY <1>5, <1>8, <1>9, <2>1, <2>2 DEF NewerThan
<1>11. PICK new \in ReviewRecord :
         /\ review' = [review EXCEPT ![o] = new]
         /\ new.at = IF part = Len(me.view) THEN "store" ELSE "evaluate"
         /\ new.report = report
         /\ new.view = me.view /\ new.began = me.began /\ new.key = me.key
  <2> DEFINE at == IF part = Len(me.view) THEN "store" ELSE "evaluate"
             now == [me EXCEPT !.report = report, !.at = at]
  <2>1. /\ now \in ReviewRecord
        /\ now.at = at /\ now.report = report
        /\ now.view = me.view /\ now.began = me.began /\ now.key = me.key
    <3>1. at \in ReviewSteps
      BY DEF ReviewSteps
    <3> HIDE DEF at
    <3> QED BY <3>1 DEF ReviewRecord
  <2>2. review' = [review EXCEPT ![o] = now]
    BY <1>2, <1>3, <1>7, <1>9 DEF EvaluateReport
  <2> QED BY <2>1, <2>2
<1>12. ReviewOf(new)'
  <2>1. Keyed(new)'
    BY <1>1, <1>4, <1>11 DEF Keyed, KeyPart
  <2>2. new.at = "store" => Covers(new.report, new.key, Len(new.view))
    BY <1>4, <1>9, <1>10, <1>11 DEF Covers
  <2>3. new.at = "evaluate" => Len(new.report) <= Len(new.view)
    BY <1>4, <1>9, <1>11
  <2> QED BY <1>4, <1>10, <1>11, <2>1, <2>2, <2>3 DEF ReviewOf
<1>13. EditsExcused' /\ exceptions' \in Nat
  BY <1>1 DEF PolicyInv, PolicyTypes, EditsExcused
<1>14. new.at \notin {"bound", "evict"}
  BY <1>11
<1> QED BY <1>1, <1>11, <1>12, <1>13, <1>14, RequestGoesOn

\* The report is stored under its key, at the end or in place of the entry that
\* another request stored meanwhile.
LEMMA StoreReportKeepsInv ==
    ASSUME PolicyInv, NEW o \in Reviewers, StoreReport(o)
    PROVE  PolicyInv'
<1>1. /\ UNCHANGED <<evidence, baselines, exceptions, blindEdits>>
      /\ review[o].at = "store" /\ Goes(o, "bound")
      /\ EditsExcused' /\ exceptions' \in Nat /\ baselines' \in Nat /\ baselines <= baselines'
  BY DEF StoreReport, At, stores, PolicyInv, PolicyTypes, EditsExcused
<1>2. PICK me \in ReviewRecord : me = review[o]
  BY DEF PolicyInv, PolicyTypes
<1>3. /\ me.view \in Views /\ Len(me.view) \in Nat
      /\ Covers(me.report, me.key, Len(me.view))
      /\ Covers(me.report, me.began, Len(me.view))
      /\ me.key \in Seq(Nat) /\ me.report \in Seq(Nat)
  BY <1>1, <1>2, RequestCovers DEF PolicyInv, ReviewRecord
<1>4. PICK new \in ReviewRecord :
        /\ review' = [review EXCEPT ![o] = new]
        /\ new.at = "bound" /\ new.view = me.view
        /\ new.report = me.report /\ new.began = me.began
  <2>1. "bound" \in ReviewSteps
    BY DEF ReviewSteps
  <2> QED BY <1>1, <1>2, <2>1, RequestGoes DEF PolicyInv
<1>5. ReviewOf(new)'
  BY <1>3, <1>4 DEF ReviewOf
<1>6. PICK entry \in CacheEntry :
        /\ entry = StoredEntry(o)
        /\ entry.key = <<me.view, me.key>> /\ entry.report = me.report
  <2>1. [key |-> <<me.view, me.key>>, report |-> me.report] \in CacheEntry
    BY <1>3 DEF CacheEntry
  <2> QED BY <1>2, <2>1 DEF StoredEntry, KeyOf
<1>7. Covers(entry.report, entry.key[2], Len(entry.key[1]))
  BY <1>3, <1>6
<1>8. EntriesBounded /\ OneEntryPerKey
  BY BoundedIs DEF PolicyInv
<1>9. Cardinality(Bounding') = Cardinality(Bounding) + 1 /\ Cardinality(Bounding) \in Nat
  BY <1>1, <1>4, BoundingCounts DEF PolicyInv
<1>10. /\ reports \in Seq(CacheEntry) /\ Len(reports) \in Nat
       /\ DOMAIN reports = 1 .. Len(reports)
       /\ \A i \in 1 .. Len(reports) : reports[i] \in CacheEntry
       /\ CacheEntries \in Nat
  BY PolicyAssumption DEF PolicyInv, PolicyTypes
<1>11. CASE Entries(entry.key) = {}
  <2>1. reports' = Append(reports, entry)
    BY <1>6, <1>11 DEF StoreReport
  <2>2. /\ reports' \in Seq(CacheEntry) /\ Len(reports') = Len(reports) + 1
        /\ DOMAIN reports' = 1 .. Len(reports) + 1
        /\ \A i \in 1 .. Len(reports) : reports'[i] = reports[i]
        /\ reports'[Len(reports) + 1] = entry
    BY <1>10, <2>1
  <2>3. \A i \in 1 .. Len(reports) + 1 : i = Len(reports) + 1 \/ i \in 1 .. Len(reports)
    BY <1>10
  <2>4. CacheCovers'
    BY <1>7, <1>10, <2>2, <2>3 DEF PolicyInv, CacheCovers
  <2>5. EntriesBounded'
    BY <1>8, <1>9, <1>10, <2>2 DEF EntriesBounded
  <2>6. \A i \in 1 .. Len(reports) : reports[i].key # entry.key
    BY <1>10, <1>11 DEF Entries
  <2>7. OneEntryPerKey'
    BY <1>8, <1>10, <2>2, <2>3, <2>6 DEF OneEntryPerKey
  <2> QED BY <1>1, <1>4, <1>5, <2>2, <2>4, <2>5, <2>7, BoundedIsNext, RequestMoves
<1>12. CASE Entries(entry.key) # {}
  <2>1. reports' = [i \in 1 .. Len(reports) |-> IF i \in Entries(entry.key) THEN entry ELSE reports[i]]
    BY <1>6, <1>10, <1>12 DEF StoreReport
  <2>2. \A i \in 1 .. Len(reports) :
          /\ reports'[i] \in {entry, reports[i]}
          /\ reports'[i].key = reports[i].key
    BY <1>10, <2>1 DEF Entries
  <2>3. reports' \in Seq(CacheEntry) /\ Len(reports') = Len(reports)
        /\ DOMAIN reports' = 1 .. Len(reports)
    <3>1. reports' \in [1 .. Len(reports) -> CacheEntry]
      BY <1>10, <2>1
    <3> QED BY <1>10, <3>1
  <2>4. CacheCovers'
    <3>1. \A i \in 1 .. Len(reports) :
            Covers(reports[i].report, reports[i].key[2], Len(reports[i].key[1]))
      BY <1>10 DEF PolicyInv, CacheCovers
    <3> QED BY <1>7, <2>2, <2>3, <3>1 DEF CacheCovers
  <2>5. EntriesBounded'
    BY <1>8, <1>9, <1>10, <2>3 DEF EntriesBounded
  <2>6. OneEntryPerKey'
    BY <1>8, <1>10, <2>2, <2>3 DEF OneEntryPerKey
  <2> QED BY <1>1, <1>4, <1>5, <2>3, <2>4, <2>5, <2>6, BoundedIsNext, RequestMoves
<1> QED BY <1>11, <1>12

\* The request sees whether the cache exceeds its bound ...
LEMMA BoundCacheKeepsInv ==
    ASSUME PolicyInv, NEW o \in Reviewers, BoundCache(o)
    PROVE  PolicyInv'
<1> DEFINE step == IF Len(reports) > CacheEntries THEN "evict" ELSE "report"
<1>1. /\ UNCHANGED <<evidence, baselines, exceptions, reports, blindEdits>>
      /\ review[o].at = "bound" /\ Goes(o, step)
      /\ EditsExcused' /\ exceptions' \in Nat
  BY DEF BoundCache, At, stores, PolicyInv, PolicyTypes, EditsExcused
<1>2. step \in ReviewSteps /\ step \in {"evict", "report"}
  BY DEF ReviewSteps
<1>3. step = "report" => Len(reports) <= CacheEntries
  <2>1. Len(reports) \in Nat /\ CacheEntries \in Nat
    BY PolicyAssumption DEF PolicyInv, PolicyTypes
  <2> QED BY <2>1
<1> HIDE DEF step
<1>4. PICK new \in ReviewRecord :
        /\ review' = [review EXCEPT ![o] = new]
        /\ new.at = step /\ new.view = review[o].view
        /\ new.report = review[o].report /\ new.began = review[o].began
  BY <1>1, <1>2, RequestGoes DEF PolicyInv
<1>5. ReviewOf(new)'
  <2>1. review[o].view \in Views /\ Covers(review[o].report, review[o].began, Len(review[o].view))
    BY <1>1 DEF PolicyInv, ReviewOf
  <2> QED BY <1>2, <1>4, <2>1 DEF ReviewOf
<1>6. \/ new.at \in {"bound", "evict"} <=> review[o].at \in {"bound", "evict"}
      \/ Len(reports) <= CacheEntries
  BY <1>1, <1>2, <1>3, <1>4
<1> QED BY <1>1, <1>4, <1>5, <1>6, RequestGoesOn

\* ... and evicts the oldest entry that there is by then.
LEMMA EvictReportKeepsInv ==
    ASSUME PolicyInv, NEW o \in Reviewers, EvictReport(o)
    PROVE  PolicyInv'
<1>1. /\ UNCHANGED <<evidence, baselines, exceptions, blindEdits>>
      /\ review[o].at = "evict"
      /\ EditsExcused' /\ exceptions' \in Nat /\ baselines' \in Nat /\ baselines <= baselines'
  BY DEF EvictReport, At, stores, PolicyInv, PolicyTypes, EditsExcused
<1>2. CASE reports = <<>>
  <2>1. Ends(o) /\ reports' = reports /\ Len(reports) <= CacheEntries
    BY <1>2, PolicyAssumption DEF EvictReport
  <2> QED BY <1>1, <2>1, RequestLeaves
<1>3. CASE reports # <<>>
  <2>1. reports' = Tail(reports) /\ Goes(o, "bound")
    BY <1>3 DEF EvictReport
  <2>2. reports \in Seq(CacheEntry) /\ Len(reports) \in Nat /\ CacheEntries \in Nat
        /\ DOMAIN reports = 1 .. Len(reports)
    BY PolicyAssumption DEF PolicyInv, PolicyTypes
  <2>3. /\ reports' \in Seq(CacheEntry) /\ Len(reports') = Len(reports) - 1
        /\ DOMAIN reports' = 1 .. Len(reports) - 1
        /\ \A i \in 1 .. Len(reports) - 1 : reports'[i] = reports[i + 1]
    BY <1>3, <2>1, <2>2
  <2>4. "bound" \in ReviewSteps
    BY DEF ReviewSteps
  <2>5. PICK new \in ReviewRecord :
          /\ review' = [review EXCEPT ![o] = new]
          /\ new.at = "bound" /\ new.view = review[o].view
          /\ new.report = review[o].report /\ new.began = review[o].began
    BY <2>1, <2>4, RequestGoes DEF PolicyInv
  <2>6. ReviewOf(new)'
    <3>1. review[o].view \in Views /\ Covers(review[o].report, review[o].began, Len(review[o].view))
      BY <1>1 DEF PolicyInv, ReviewOf
    <3> QED BY <2>5, <3>1 DEF ReviewOf
  <2>7. \A i \in 1 .. Len(reports) - 1 : i + 1 \in 1 .. Len(reports)
    BY <2>2
  <2>8. CacheCovers'
    BY <2>2, <2>3, <2>7 DEF PolicyInv, CacheCovers
  <2>9. EntriesBounded /\ OneEntryPerKey
    BY BoundedIs DEF PolicyInv
  <2>10. EntriesBounded'
    <3>1. Bounding' = Bounding /\ Cardinality(Bounding) \in Nat
      BY <1>1, <2>5, BoundingCounts DEF PolicyInv
    <3> QED BY <2>2, <2>3, <2>9, <3>1 DEF EntriesBounded
  <2>11. OneEntryPerKey'
    <3> SUFFICES ASSUME NEW i \in 1 .. Len(reports) - 1, NEW j \in 1 .. Len(reports) - 1,
                        reports'[i].key = reports'[j].key
                 PROVE  i = j
      BY <2>3 DEF OneEntryPerKey
    <3>1. i + 1 \in DOMAIN reports /\ j + 1 \in DOMAIN reports
      BY <2>2, <2>7
    <3>2. reports[i + 1].key = reports[j + 1].key
      BY <2>3
    <3>3. i + 1 = j + 1
      BY <2>9, <3>1, <3>2 DEF OneEntryPerKey
    <3> QED BY <2>2, <3>3
  <2> QED BY <1>1, <2>3, <2>5, <2>6, <2>8, <2>10, <2>11, BoundedIsNext, RequestMoves
<1> QED BY <1>2, <1>3

---------------------------------------------------------------------------
(* PolicyReview: the pages and the forms                                   *)

\* A page is shown field by field; nothing else changes.
LEMMA ShowResultKeepsInv ==
    ASSUME PolicyInv, NEW o \in Reviewers, ShowResult(o)
    PROVE  PolicyInv'
<1>1. /\ UNCHANGED <<evidence, baselines, exceptions, reports, blindEdits>>
      /\ review[o].at \in {"report", "exceptionRevision", "baselines", "baselineRevision"}
  BY DEF ShowResult, Shows, At, stores
<1>2. \/ Ends(o)
      \/ \E step \in {"exceptionRevision", "baselines", "baselineRevision", "except"} : Goes(o, step)
  BY DEF ShowResult, Shows
<1>3. EditsExcused' /\ exceptions' \in Nat
  BY <1>1 DEF PolicyInv, PolicyTypes, EditsExcused
<1> QED BY <1>1, <1>2, <1>3, RequestLeaves

\* A revision that was checked with the lock held leaves a torn page as the only
\* excuse; one that was checked before leaves the race as well.
LEMMA ExcuseIs ==
    ASSUME NEW shown, NEW rev, NEW current
    PROVE  /\ Excuse(shown, rev, current) \subseteq {"torn", "raced", "none"}
           /\ rev = current => Excuse(shown, rev, current) \subseteq {"torn"}
           /\ "none" \notin Excuse(shown, rev, current)
  BY DEF Excuse

LEMMA SaveBaselineKeepsInv ==
    ASSUME PolicyInv, NEW o \in Reviewers, SaveBaseline(o)
    PROVE  PolicyInv'
<1>1. /\ UNCHANGED <<evidence, exceptions, reports>>
      /\ review[o].at = "report"
      /\ exceptions' \in Nat /\ baselines \in Nat /\ reports' \in Seq(CacheEntry)
  BY DEF SaveBaseline, At, PolicyInv, PolicyTypes
<1>2. CASE BaselineConflict(o)
  <2>1. Ends(o) /\ baselines' = baselines /\ blindEdits' = blindEdits
    BY <1>2 DEF SaveBaseline
  <2>2. EditsExcused'
    BY <2>1 DEF PolicyInv, EditsExcused
  <2> QED BY <1>1, <2>1, <2>2, RequestLeaves
<1>3. CASE ~BaselineConflict(o)
  <2> DEFINE excuses == Excuse(policyForm[o].baselines, policyForm[o].baselineRevision, baselines)
  <2>1. /\ baselines' = baselines + 1
        /\ blindEdits' = blindEdits \cup {<<"baseline", e>> : e \in excuses}
        /\ Goes(o, "invalidate")
    BY <1>3 DEF SaveBaseline
  <2>2. excuses \subseteq {"torn"}
    BY <1>3, ExcuseIs DEF BaselineConflict
  <2> HIDE DEF excuses
  <2>3. EditsExcused'
    BY <2>1, <2>2 DEF PolicyInv, EditsExcused
  <2>4. "invalidate" \in ReviewSteps
    BY DEF ReviewSteps
  <2>5. PICK new \in ReviewRecord :
          review' = [review EXCEPT ![o] = new] /\ new.at = "invalidate"
    BY <2>1, <2>4, RequestGoes DEF PolicyInv
  <2>6. ReviewOf(new)'
    BY <2>5 DEF ReviewOf
  <2>7. CacheCovers'
    BY <1>1 DEF PolicyInv, CacheCovers
  <2>8. EntriesBounded /\ OneEntryPerKey
    BY BoundedIs DEF PolicyInv
  <2>9. Bounding' = Bounding
    BY <1>1, <2>5, BoundingCounts DEF PolicyInv
  <2>10. EntriesBounded' /\ OneEntryPerKey'
    BY <1>1, <2>8, <2>9 DEF EntriesBounded, OneEntryPerKey
  <2>11. baselines' \in Nat /\ baselines <= baselines'
    BY <1>1, <2>1
  <2> QED BY <1>1, <2>3, <2>5, <2>6, <2>7, <2>10, <2>11, BoundedIsNext, RequestMoves
<1> QED BY <1>2, <1>3

\* An empty cache is within its bound.
LEMMA InvalidateKeepsInv ==
    ASSUME PolicyInv, NEW o \in Reviewers, Invalidate(o)
    PROVE  PolicyInv'
<1>1. /\ UNCHANGED <<evidence, baselines, exceptions, blindEdits>>
      /\ reports' = <<>> /\ Ends(o)
      /\ EditsExcused' /\ exceptions' \in Nat /\ baselines' \in Nat /\ baselines <= baselines'
  BY DEF Invalidate, stores, PolicyInv, PolicyTypes, EditsExcused
<1>2. PICK new \in ReviewRecord : review' = [review EXCEPT ![o] = new] /\ new.at = "idle"
  BY <1>1, IdleRequest DEF Ends
<1>3. ReviewOf(new)'
  BY <1>2 DEF ReviewOf
<1>4. reports' \in Seq(CacheEntry) /\ Len(reports') = 0 /\ DOMAIN reports' = {}
  BY <1>1
<1>5. CacheCovers' /\ OneEntryPerKey'
  BY <1>4 DEF CacheCovers, OneEntryPerKey
<1>6. EntriesBounded'
  <2>1. Cardinality(Bounding') \in Nat /\ CacheEntries \in Nat
    BY <1>2, BoundingCounts, PolicyAssumption DEF PolicyInv
  <2>2. 0 <= CacheEntries + Cardinality(Bounding')
    BY <2>1
  <2> QED BY <1>4, <2>2 DEF EntriesBounded
<1> QED BY <1>1, <1>2, <1>3, <1>4, <1>5, <1>6, BoundedIsNext, RequestMoves

LEMMA PostExceptionKeepsInv ==
    ASSUME PolicyInv, NEW o \in Reviewers, PostException(o)
    PROVE  PolicyInv'
<1>1. /\ UNCHANGED <<evidence, baselines, exceptions, reports, blindEdits>>
      /\ review[o].at = "idle" /\ Goes(o, "except")
  BY DEF PostException, Opens, At, stores
<1>2. EditsExcused' /\ exceptions' \in Nat
  BY <1>1 DEF PolicyInv, PolicyTypes, EditsExcused
<1> QED BY <1>1, <1>2, RequestLeaves

\* The exceptions' revision was checked before the lock was taken.
LEMMA WriteExceptionKeepsInv ==
    ASSUME PolicyInv, NEW o \in Reviewers, WriteException(o)
    PROVE  PolicyInv'
<1> DEFINE excuses == Excuse(policyForm[o].exceptions, policyForm[o].exceptionRevision, exceptions)
<1>1. /\ UNCHANGED <<evidence, baselines, reports>>
      /\ review[o].at = "except" /\ Ends(o)
      /\ exceptions' = exceptions + 1
      /\ blindEdits' = blindEdits \cup {<<"exception", e>> : e \in excuses}
  BY DEF WriteException, At
<1>2. excuses \subseteq {"torn", "raced"}
  BY ExcuseIs
<1> HIDE DEF excuses
<1>3. EditsExcused'
  BY <1>1, <1>2 DEF PolicyInv, EditsExcused
<1>4. exceptions' \in Nat
  BY <1>1 DEF PolicyInv, PolicyTypes
<1> QED BY <1>1, <1>3, <1>4, RequestLeaves

\* New evidence: what has been read is only older for it.
LEMMA CollectEvidenceKeepsInv ==
    ASSUME PolicyInv, NEW s \in Scopes, CollectEvidence(s)
    PROVE  PolicyInv'
<1>1. /\ UNCHANGED <<baselines, exceptions, reports, review, blindEdits>>
      /\ evidence' = [evidence EXCEPT ![s] = @ + 1]
  BY DEF CollectEvidence
<1>2. PolicyTypes'
  BY <1>1 DEF PolicyInv, PolicyTypes
<1>3. (\A t \in Scopes : evidence[t] <= evidence'[t]) /\ baselines <= baselines'
  BY <1>1 DEF PolicyInv, PolicyTypes
<1>4. ASSUME NEW q \in Reviewers
      PROVE  ReviewOf(review[q])'
  <2>1. PICK r \in ReviewRecord : r = review[q] /\ r = review'[q]
    BY <1>1 DEF PolicyInv, PolicyTypes
  <2>2. ReviewOf(r)
    BY <2>1 DEF PolicyInv
  <2>3. ReviewOf(r)'
    BY <1>2, <1>3, <2>2, RequestsOutlast DEF PolicyInv
  <2> QED BY <2>1, <2>3 DEF ReviewOf, Keyed, KeyPart
<1>5. CacheCovers' /\ CacheBounded' /\ EditsExcused'
  BY <1>1 DEF PolicyInv, CacheCovers, CacheBounded, EditsExcused, At
<1> QED BY <1>2, <1>4, <1>5 DEF PolicyInv

---------------------------------------------------------------------------
(* PolicyReview: every behaviour                                           *)

LEMMA PolicyInitInv == PolicyInit => PolicyInv
<1> SUFFICES ASSUME PolicyInit PROVE PolicyInv
  OBVIOUS
<1>1. PolicyTypes
  BY IdleRequest DEF PolicyInit, PolicyTypes
<1>2. \A o \in Reviewers : ReviewOf(review[o])
  BY IdleRequest DEF PolicyInit, ReviewOf
<1>3. reports = <<>> /\ Len(reports) = 0 /\ DOMAIN reports = {}
  BY DEF PolicyInit
<1>4. CacheCovers /\ OneEntryPerKey
  BY <1>3 DEF CacheCovers, OneEntryPerKey
<1>5. EntriesBounded
  <2>1. Bounding = {}
    BY IdleRequest DEF PolicyInit, Bounding, At
  <2>2. Cardinality(Bounding) = 0
    BY <2>1, FS_EmptySet
  <2>3. CacheEntries \in Nat
    BY PolicyAssumption
  <2> QED BY <1>3, <2>2, <2>3 DEF EntriesBounded
<1>6. EditsExcused
  BY DEF PolicyInit, EditsExcused
<1> QED BY <1>1, <1>2, <1>4, <1>5, <1>6, BoundedIs DEF PolicyInv

LEMMA PolicyNextInv == PolicyInv /\ [PolicyNext]_policyVars => PolicyInv'
<1> SUFFICES ASSUME PolicyInv, [PolicyNext]_policyVars PROVE PolicyInv'
  OBVIOUS
<1>1. ASSUME NEW o \in Reviewers, NEW view \in Views, NEW goal \in {"page", "save"},
             OpenReport(o, goal, view)
      PROVE  PolicyInv'
  BY <1>1, OpenReportKeepsInv
<1>2. ASSUME NEW o \in Reviewers,
             \/ ReadKey(o) \/ LookUpReport(o) \/ TouchReport(o) \/ EvaluateReport(o)
             \/ StoreReport(o) \/ BoundCache(o) \/ EvictReport(o)
      PROVE  PolicyInv'
  BY <1>2, ReadKeyKeepsInv, LookUpReportKeepsInv, TouchReportKeepsInv, EvaluateReportKeepsInv,
     StoreReportKeepsInv, BoundCacheKeepsInv, EvictReportKeepsInv
<1>3. ASSUME NEW o \in Reviewers,
             \/ ShowResult(o) \/ SaveBaseline(o) \/ Invalidate(o)
             \/ PostException(o) \/ WriteException(o)
      PROVE  PolicyInv'
  BY <1>3, ShowResultKeepsInv, SaveBaselineKeepsInv, InvalidateKeepsInv, PostExceptionKeepsInv,
     WriteExceptionKeepsInv
<1>4. ASSUME NEW s \in Scopes, CollectEvidence(s)
      PROVE  PolicyInv'
  BY <1>4, CollectEvidenceKeepsInv
<1>5. CASE UNCHANGED policyVars
  <2>1. PolicyTypes' /\ CacheCovers' /\ CacheBounded' /\ EditsExcused'
    BY <1>5 DEF policyVars, PolicyInv, PolicyTypes, CacheCovers, CacheBounded, EditsExcused, At
  <2>2. \A q \in Reviewers : ReviewOf(review[q])'
    BY <1>5 DEF policyVars, PolicyInv, ReviewOf, Keyed, KeyPart
  <2> QED BY <2>1, <2>2 DEF PolicyInv
<1> QED BY <1>1, <1>2, <1>3, <1>4, <1>5 DEF PolicyNext

LEMMA PolicyInvSound == PolicyInv => PolicySound
<1> SUFFICES ASSUME PolicyInv PROVE PolicySound
  OBVIOUS
<1>1. ASSUME NEW o \in Reviewers, At(o, "report")
      PROVE  NotOlder(review[o].report, review[o].began)
  <2>1. review[o].view \in Views /\ Covers(review[o].report, review[o].began, Len(review[o].view))
    BY <1>1 DEF PolicyInv, ReviewOf, At
  <2>2. review[o].report \in Seq(Nat) /\ review[o].began \in Seq(Nat)
    BY DEF PolicyInv, PolicyTypes, ReviewRecord
  <2>3. Len(review[o].view) \in Nat
    BY <2>1, ViewOfScopes
  <2> QED BY <2>1, <2>2, <2>3, CoveringIsNotOlder
<1>2. ASSUME NEW i \in DOMAIN reports
      PROVE  NotOlder(reports[i].report, reports[i].key[2])
  <2>1. reports[i] \in CacheEntry
    BY DEF PolicyInv, PolicyTypes
  <2>2. /\ reports[i].report \in Seq(Nat)
        /\ reports[i].key[1] \in Views /\ reports[i].key[2] \in Seq(Nat)
    BY <2>1 DEF CacheEntry
  <2>3. Len(reports[i].key[1]) \in Nat
    BY <2>2, ViewOfScopes
  <2>4. Covers(reports[i].report, reports[i].key[2], Len(reports[i].key[1]))
    BY DEF PolicyInv, CacheCovers
  <2> QED BY <2>2, <2>3, <2>4, CoveringIsNotOlder
<1>3. ReportsCurrent
  BY <1>1, <1>2 DEF ReportsCurrent
<1> QED BY <1>3 DEF PolicyInv, PolicyTypes, PolicySound

\* For any number of operators, views and entries: no page shows a report that is
\* older than its request or its key, the cache exceeds its bound only by those
\* who are about to evict, and an edit of what its form did not show has one of
\* the three excuses that the code leaves.
THEOREM SpecPolicySound == PolicySpec => []PolicySound
<1>1. PolicyInit => PolicyInv
  BY PolicyInitInv
<1>2. PolicyInv /\ [PolicyNext]_policyVars => PolicyInv'
  BY PolicyNextInv
<1>3. PolicyInv => PolicySound
  BY PolicyInvSound
<1> QED BY <1>1, <1>2, <1>3, PTL DEF PolicySpec

---------------------------------------------------------------------------
(* Access                                                                  *)

Account == [admin : BOOLEAN, password : BOOLEAN, disabled : BOOLEAN]

Ops == [kind : {"none", "create", "update", "delete"}, admin : {"keep", "yes", "no"},
        disabled : {"keep", "yes", "no"}, password : BOOLEAN]

SessionRecord == [token : Nat, user : Users, age : Int, idle : Int]

UserCatalogs == [Users -> Account]

AccessRequest == [pc : {"rest", "display", "apply", "finish"}, form : Int,
                  seen : SUBSET UserCatalogs, user : Users \cup {""}, op : Ops,
                  revoke : BOOLEAN, doomed : SUBSET Nat]

AccessTypes ==
    /\ users \in UserCatalogs
    /\ revision \in Nat
    /\ sessions \subseteq SessionRecord
    /\ admin \in [Admins -> AccessRequest]
    /\ opened \in Nat
    /\ revoked \subseteq Nat

\* The file of sessions: tokens are unique and were given out, and no deadline
\* is further away than the limits.
SessionsInv ==
    /\ \A r, s \in sessions : r.token = s.token => r = s
    /\ \A r \in sessions : r.token \in 1 .. opened /\ r.age <= MaxAge /\ r.idle <= IdleTimeout

\* A form is of a revision there was, and one of the current revision was
\* displayed with the current accounts, unless its page is torn.
FormsInv ==
    \A a \in Admins :
      /\ admin[a].form <= revision
      /\ admin[a].form = revision => admin[a].seen \in {{}, {users}}

\* A request that is being applied is a request for an account.
RequestsInv ==
    \A a \in Admins : admin[a].pc = "apply" => admin[a].user \in Users /\ admin[a].op \in Requests

\* The tokens a request has to revoke were given out, to the account it is
\* about, and it will revoke that account's sessions.
DoomedInv ==
    /\ \A t \in revoked : t <= opened
    /\ \A a \in Admins :
         /\ \A t \in admin[a].doomed : t <= opened
         /\ admin[a].doomed # {} => admin[a].revoke /\ admin[a].pc = "finish"
         /\ \A r \in sessions : r.token \in admin[a].doomed => r.user = admin[a].user

AccessInv ==
    /\ AccessTypes
    /\ SessionsInv
    /\ FormsInv
    /\ RequestsInv
    /\ DoomedInv
    /\ AccessAdminRemains
    /\ AccessRevocationHolds

---------------------------------------------------------------------------
(* The operators.                                                          *)

\* The parameters of the model, as the proofs use them.
LEMMA Parameters ==
    /\ Requests \subseteq Ops
    /\ \A op \in Requests : op.kind \in {"create", "update", "delete"}
    /\ MaxAge \in Int /\ IdleTimeout \in Int
    /\ FirstUsers \in UserCatalogs
  BY AccessAssumption DEF Ops, Account, UserCatalogs

\* No request is under way.
LEMMA IdleFacts ==
    /\ Idle \in AccessRequest /\ Idle.pc = "rest" /\ Idle.form = -1 /\ Idle.doomed = {}
    /\ Idle.revoke = FALSE
  BY DEF Idle, AccessRequest, Form, Ops

\* What an administrator's form makes of an account is an account.
LEMMA AfterFacts ==
    ASSUME AccessTypes, NEW u \in Users, NEW op \in Requests
    PROVE  /\ After(u, op) \in Account
           /\ op.kind = "create" => After(u, op) = Updated([Nobody EXCEPT !.disabled = FALSE], op)
           /\ op.kind = "delete" => After(u, op) = Nobody
           /\ op.kind = "update" => After(u, op) = Updated(users[u], op)
<1>1. op \in Ops /\ op.kind \in {"create", "update", "delete"}
  BY Parameters
<1>2. \A account \in Account : Updated(account, op) \in Account
  BY <1>1 DEF Updated, Account, Ops
<1>3. Nobody \in Account /\ [Nobody EXCEPT !.disabled = FALSE] \in Account
  BY DEF Nobody, Account
<1>4. users[u] \in Account
  BY DEF AccessTypes, UserCatalogs
<1> QED
  BY <1>1, <1>2, <1>3, <1>4 DEF After

\* Pruning leaves records out, and nothing else.
LEMMA PrunedFacts ==
    ASSUME NEW records
    PROVE  Pruned(records) \subseteq records /\ \A r \in Pruned(records) : Alive(r)
  BY DEF Pruned

---------------------------------------------------------------------------
(* The inductive invariant.                                                *)

\* The first state.
LEMMA InitAccessInv == AccessInit => AccessInv
<1> SUFFICES ASSUME AccessInit PROVE AccessInv
  OBVIOUS
<1>1. \A a \in Admins : admin[a] = Idle
  BY DEF AccessInit
<1>2. AccessTypes
  BY Parameters, IdleFacts DEF AccessInit, AccessTypes
<1>3. SessionsInv /\ AccessRevocationHolds
  BY DEF AccessInit, SessionsInv, AccessRevocationHolds
<1>4. FormsInv /\ RequestsInv
  BY <1>1, IdleFacts DEF AccessInit, FormsInv, RequestsInv
<1>5. DoomedInv
  BY <1>1, IdleFacts DEF AccessInit, DoomedInv
<1>6. AccessAdminRemains
  BY DEF AccessInit, AccessAdminRemains
<1> QED
  BY <1>2, <1>3, <1>4, <1>5, <1>6 DEF AccessInv

\* A step of one administrator's request that changes nothing else and leaves
\* it with nothing to revoke.
LEMMA RequestStep ==
    ASSUME AccessInv, NEW a \in Admins, NEW request \in AccessRequest,
           admin' = [admin EXCEPT ![a] = request],
           UNCHANGED <<authMode, users, revision, sessions, opened, hadAdmin, revoked>>,
           request.form <= revision,
           request.form = revision => request.seen \in {{}, {users}},
           request.pc = "apply" => request.user \in Users /\ request.op \in Requests,
           request.doomed = {}
    PROVE  AccessInv'
<1>1. /\ DOMAIN admin = Admins /\ admin'[a] = request
      /\ \A b \in Admins \ {a} : admin'[b] = admin[b]
  BY DEF AccessInv, AccessTypes
<1>2. AccessTypes'
  BY DEF AccessInv, AccessTypes
<1>3. SessionsInv' /\ AccessAdminRemains' /\ AccessRevocationHolds'
  BY DEF AccessInv, SessionsInv, AccessAdminRemains, AccessRevocationHolds, AllowSso
<1>4. FormsInv'
  BY <1>1 DEF AccessInv, FormsInv
<1>5. RequestsInv'
  BY <1>1 DEF AccessInv, RequestsInv
<1>6. DoomedInv'
  BY <1>1 DEF AccessInv, DoomedInv
<1> QED
  BY <1>2, <1>3, <1>4, <1>5, <1>6 DEF AccessInv

\* What a page that displays a catalog makes of its administrator's request.
Displayed(request, pc, form, seen) ==
    [request EXCEPT !.pc = pc, !.form = form, !.seen = seen]

\* The page leaves the rest of the request alone.
LEMMA DisplayedFacts ==
    ASSUME NEW r \in AccessRequest, NEW pc \in {"rest", "display"}, NEW form \in Int,
           NEW seen \in SUBSET UserCatalogs
    PROVE  /\ Displayed(r, pc, form, seen) \in AccessRequest
           /\ Displayed(r, pc, form, seen).pc = pc
           /\ Displayed(r, pc, form, seen).form = form
           /\ Displayed(r, pc, form, seen).seen = seen
           /\ Displayed(r, pc, form, seen).doomed = r.doomed
  BY DEF AccessRequest, Displayed

\* users_page lists the accounts, and reads the revision of its forms.
LEMMA DisplayAccessInv ==
    ASSUME AccessInv, NEW a \in Admins, DisplayUsers(a) \/ DisplayRevision(a)
    PROVE  AccessInv'
<1>1. /\ admin[a] \in AccessRequest /\ revision \in Nat /\ revision \in Int /\ users \in UserCatalogs
      /\ admin[a].doomed = {}
  BY DEF AccessInv, AccessTypes, DoomedInv, DisplayUsers, DisplayRevision
<1>2. PICK pc \in {"rest", "display"}, seen \in {{}, {users}} :
        admin' = [admin EXCEPT ![a] = Displayed(admin[a], pc, revision, seen)]
  <2>1. CASE DisplayUsers(a)
    <3>1. admin' = [admin EXCEPT ![a] = Displayed(admin[a], "display", revision, {users})]
      BY <2>1 DEF DisplayUsers, Displayed
    <3> QED
      BY <3>1
  <2>2. CASE DisplayRevision(a)
    <3> DEFINE seen == IF admin[a].form = revision THEN admin[a].seen ELSE {}
    <3>1. admin' = [admin EXCEPT ![a] = Displayed(admin[a], "rest", revision, seen)]
      BY <2>2 DEF DisplayRevision, Displayed
    <3>2. seen \in {{}, {users}}
      BY DEF AccessInv, FormsInv
    <3> HIDE DEF seen
    <3> QED
      BY <3>1, <3>2
  <2> QED
    BY <2>1, <2>2
<1> DEFINE request == Displayed(admin[a], pc, revision, seen)
<1>3. seen \in SUBSET UserCatalogs
  BY <1>1, <1>2
<1>4. /\ request \in AccessRequest /\ request.pc = pc /\ request.form = revision
      /\ request.seen = seen /\ request.doomed = {}
  BY <1>1, <1>3, DisplayedFacts
<1> HIDE DEF request
<1>5. request.form <= revision /\ request.pc # "apply"
  BY <1>1, <1>4
<1>6. UNCHANGED <<authMode, users, revision, sessions, opened, hadAdmin, revoked>>
  BY DEF DisplayUsers, DisplayRevision
<1> QED
  BY <1>2, <1>4, <1>5, <1>6, RequestStep DEF request

\* An administrator posts a form.
LEMMA PostAccessInv ==
    ASSUME AccessInv, NEW a \in Admins, NEW u \in Users, NEW op \in Requests, Post(a, u, op)
    PROVE  AccessInv'
<1> DEFINE request == [admin[a] EXCEPT !.pc = "apply", !.user = u, !.op = op]
<1>1. admin[a] \in AccessRequest /\ admin[a].doomed = {} /\ revision \in Nat /\ op \in Ops
  BY Parameters DEF AccessInv, AccessTypes, DoomedInv, Post
<1>2. /\ request \in AccessRequest /\ request.form = admin[a].form /\ request.seen = admin[a].seen
      /\ request.doomed = {} /\ request.user = u /\ request.op = op
  BY <1>1 DEF AccessRequest
<1>3. /\ request.form <= revision
      /\ request.form = revision => request.seen \in {{}, {users}}
  BY <1>2 DEF AccessInv, FormsInv
<1>4. admin' = [admin EXCEPT ![a] = request]
  BY DEF Post
<1> HIDE DEF request
<1> QED
  BY <1>2, <1>3, <1>4, RequestStep DEF Post

\* The store refuses the edit.
LEMMA RefuseEditAccessInv ==
    ASSUME AccessInv, NEW a \in Admins, RefuseEdit(a)
    PROVE  AccessInv'
<1>1. revision \in Nat
  BY DEF AccessInv, AccessTypes
<1>2. Idle.form <= revision /\ Idle.form # revision /\ Idle.pc # "apply"
  BY <1>1, IdleFacts
<1> QED
  BY <1>2, IdleFacts, RequestStep DEF RefuseEdit

\* What the store makes of a request it accepts.
Applied(request, revoke, doomed) ==
    [request EXCEPT !.pc = "finish", !.revoke = revoke, !.doomed = doomed]

\* The rest of the request is left alone.
LEMMA AppliedFacts ==
    ASSUME NEW r \in AccessRequest, NEW revoke \in BOOLEAN, NEW doomed \in SUBSET Nat
    PROVE  /\ Applied(r, revoke, doomed) \in AccessRequest
           /\ Applied(r, revoke, doomed).pc = "finish"
           /\ Applied(r, revoke, doomed).revoke = revoke
           /\ Applied(r, revoke, doomed).doomed = doomed
           /\ Applied(r, revoke, doomed).form = r.form
           /\ Applied(r, revoke, doomed).user = r.user
  BY DEF AccessRequest, Applied

\* The sessions that a change must end are sessions of its account, and the
\* handler will revoke them.
LEMMA DoomedFacts ==
    ASSUME AccessInv, NEW a \in Admins, NEW u \in Users, NEW op \in Requests, MayApply(a, u, op)
    PROVE  /\ Doomed(a, u, op) \in SUBSET Nat
           /\ \A t \in Doomed(a, u, op) : t <= opened
           /\ \A r \in sessions : r.token \in Doomed(a, u, op) => r.user = u
           /\ Doomed(a, u, op) # {} => MustRevoke(a, u, op)
<1>1. \A t \in Doomed(a, u, op) : \E r \in sessions : r.token = t /\ r.user = u
  BY DEF Doomed
<1>2. \A r \in sessions : r.token \in Nat /\ r.token <= opened
  BY DEF AccessInv, AccessTypes, SessionsInv, SessionRecord
<1>3. \A r \in sessions : r.token \in Doomed(a, u, op) => r.user = u
  BY <1>1 DEF AccessInv, SessionsInv
<1>4. ASSUME Doomed(a, u, op) # {} PROVE MustRevoke(a, u, op)
  <2>1. op.kind \in {"create", "update", "delete"}
    BY Parameters
  <2>2. \/ ~users[u].disabled /\ After(u, op).disabled
        \/ users[u].password /\ op.password /\ a # u
    BY <1>4 DEF Doomed
  <2>3. op.kind # "create"
    BY <2>2 DEF MayApply, Exists, Nobody
  <2> QED
    BY <2>1, <2>2, <2>3 DEF MustRevoke
<1> QED
  BY <1>1, <1>2, <1>3, <1>4

\* An accepted edit leaves a usable administrator if there was one.
LEMMA KeepsAdminFacts ==
    ASSUME AccessTypes, NEW u \in Users, NEW account,
           KeepsAdmin(u, account, AllowSso),
           \E v \in Users : UsableAdmin(users[v], AllowSso)
    PROVE  \E v \in Users : UsableAdmin([users EXCEPT ![u] = account][v], AllowSso)
<1>1. PICK v \in Users : UsableAdmin(users[v], AllowSso)
  OBVIOUS
<1>2. \A x \in Users : [users EXCEPT ![u] = account][x] = IF x = u THEN account ELSE users[x]
  BY DEF AccessTypes, UserCatalogs
<1>3. CASE v # u
  BY <1>1, <1>2, <1>3
<1>4. CASE v = u /\ UsableAdmin(account, AllowSso)
  BY <1>2, <1>4
<1>5. CASE v = u /\ ~UsableAdmin(account, AllowSso)
  <2>1. PICK x \in Users \ {u} : UsableAdmin(users[x], AllowSso)
    BY <1>1, <1>5 DEF KeepsAdmin, OtherAdmins
  <2> QED
    BY <1>2, <2>1
<1> QED
  BY <1>3, <1>4, <1>5

\* create, update and delete of the store.
LEMMA ApplyAccessInv ==
    ASSUME AccessInv, NEW a \in Admins, Apply(a)
    PROVE  AccessInv'
<1> DEFINE u == admin[a].user
           op == admin[a].op
           request == Applied(admin[a], MustRevoke(a, u, op), Doomed(a, u, op))
<1>1. u \in Users /\ op \in Requests
  BY DEF AccessInv, RequestsInv, Apply
<1>2. admin[a] \in AccessRequest /\ DOMAIN admin = Admins /\ revision \in Nat /\ users \in UserCatalogs
      /\ AccessTypes
  BY DEF AccessInv, AccessTypes
<1>3. /\ MayApply(a, u, op)
      /\ users' = [users EXCEPT ![u] = After(u, op)] /\ revision' = revision + 1
      /\ hadAdmin' = (hadAdmin \/ \E v \in Users : UsableAdmin(users'[v], AllowSso))
      /\ UNCHANGED <<authMode, sessions, opened, revoked>>
  BY DEF Apply, WriteUsers
<1>4. admin' = [admin EXCEPT ![a] = request]
  BY DEF Apply, Applied
<1> HIDE DEF u, op
<1>5. /\ Doomed(a, u, op) \in SUBSET Nat
      /\ \A t \in Doomed(a, u, op) : t <= opened
      /\ \A r \in sessions : r.token \in Doomed(a, u, op) => r.user = u
      /\ Doomed(a, u, op) # {} => MustRevoke(a, u, op)
  BY <1>1, <1>3, DoomedFacts
<1>6. MustRevoke(a, u, op) \in BOOLEAN
  BY DEF MustRevoke
<1>7. /\ request \in AccessRequest /\ request.pc = "finish" /\ request.form = admin[a].form
      /\ request.revoke = MustRevoke(a, u, op) /\ request.doomed = Doomed(a, u, op)
      /\ request.user = u
  BY <1>2, <1>5, <1>6, AppliedFacts DEF u
<1> HIDE DEF request
<1>8. /\ admin'[a] = request
      /\ \A b \in Admins \ {a} : admin'[b] = admin[b]
  BY <1>2, <1>4
<1>9. AccessTypes'
  <2>1. After(u, op) \in Account
    BY <1>1, <1>2, AfterFacts
  <2>2. users' \in UserCatalogs
    BY <1>1, <1>2, <1>3, <2>1 DEF UserCatalogs
  <2>3. admin' \in [Admins -> AccessRequest]
    BY <1>4, <1>7 DEF AccessInv, AccessTypes
  <2> QED
    BY <1>2, <1>3, <2>2, <2>3 DEF AccessTypes
<1>10. SessionsInv' /\ AccessRevocationHolds'
  BY <1>3 DEF AccessInv, SessionsInv, AccessRevocationHolds
<1>11. FormsInv'
  <2>1. \A b \in Admins : admin'[b].form = admin[b].form /\ admin[b].form \in Int
    BY <1>2, <1>7, <1>8 DEF AccessTypes, AccessRequest
  <2>2. \A b \in Admins : admin[b].form <= revision
    BY DEF AccessInv, FormsInv
  <2> QED
    BY <1>2, <1>3, <2>1, <2>2 DEF FormsInv
<1>12. RequestsInv'
  BY <1>7, <1>8 DEF AccessInv, RequestsInv
<1>13. DoomedInv'
  BY <1>3, <1>5, <1>7, <1>8 DEF AccessInv, DoomedInv
<1>14. AccessAdminRemains'
  <2>1. AllowSso' = AllowSso
    BY <1>3 DEF AllowSso
  <2>2. ASSUME hadAdmin PROVE \E v \in Users : UsableAdmin(users'[v], AllowSso)
    <3>1. \E v \in Users : UsableAdmin(users[v], AllowSso)
      BY <2>2 DEF AccessInv, AccessAdminRemains
    <3>2. KeepsAdmin(u, After(u, op), AllowSso)
      BY <1>3 DEF MayApply
    <3>3. \E v \in Users : UsableAdmin([users EXCEPT ![u] = After(u, op)][v], AllowSso)
      BY <1>1, <1>2, <3>1, <3>2, KeepsAdminFacts
    <3> QED
      BY <1>3, <3>3
  <2> QED
    BY <1>3, <2>1, <2>2 DEF AccessAdminRemains
<1> QED
  BY <1>9, <1>10, <1>11, <1>12, <1>13, <1>14 DEF AccessInv

\* A step that makes no session: those that are left were there before, with
\* their token and their account, and no further from their deadlines than the
\* limits allow.
LEMMA SessionStep ==
    ASSUME AccessInv, sessions' \subseteq SessionRecord,
           \A r \in sessions' : \E s \in sessions : r.token = s.token /\ r.user = s.user,
           \A r \in sessions' : r.age <= MaxAge /\ r.idle <= IdleTimeout,
           \A r, s \in sessions' : r.token = s.token => r = s,
           UNCHANGED <<authMode, users, revision, admin, opened, hadAdmin, revoked>>
    PROVE  AccessInv'
<1>1. AccessTypes'
  BY DEF AccessInv, AccessTypes
<1>2. SessionsInv'
  <2>1. \A r \in sessions' : r.token \in 1 .. opened'
    BY DEF AccessInv, SessionsInv
  <2> QED
    BY <2>1 DEF SessionsInv
<1>3. FormsInv' /\ RequestsInv'
  BY DEF AccessInv, FormsInv, RequestsInv
<1>4. DoomedInv'
  <2>1. \A a \in Admins : \A r \in sessions' : r.token \in admin[a].doomed => r.user = admin[a].user
    BY DEF AccessInv, DoomedInv
  <2> QED
    BY <2>1 DEF AccessInv, DoomedInv
<1>5. AccessAdminRemains'
  BY DEF AccessInv, AccessAdminRemains, AllowSso
<1>6. AccessRevocationHolds'
  BY DEF AccessInv, AccessRevocationHolds
<1> QED
  BY <1>1, <1>2, <1>3, <1>4, <1>5, <1>6 DEF AccessInv

\* A step that leaves sessions out.
LEMMA FewerSessions ==
    ASSUME AccessInv, sessions' \subseteq sessions,
           UNCHANGED <<authMode, users, revision, admin, opened, hadAdmin, revoked>>
    PROVE  AccessInv'
<1>1. sessions' \subseteq SessionRecord
  BY DEF AccessInv, AccessTypes
<1>2. /\ \A r \in sessions' : r.age <= MaxAge /\ r.idle <= IdleTimeout
      /\ \A r, s \in sessions' : r.token = s.token => r = s
  BY DEF AccessInv, SessionsInv
<1> QED
  BY <1>1, <1>2, SessionStep

\* Sliding keeps a record's token, account and age.
LEMMA SlidFacts ==
    ASSUME NEW r \in SessionRecord
    PROVE  /\ Slid(r) \in SessionRecord /\ Slid(r).token = r.token /\ Slid(r).user = r.user
           /\ Slid(r).age = r.age /\ Slid(r).idle = IdleTimeout
  BY Parameters DEF SessionRecord, Slid

\* identify
LEMMA IdentifyAccessInv ==
    ASSUME AccessInv, NEW record \in sessions, Identify(record)
    PROVE  AccessInv'
<1>0. UNCHANGED <<authMode, users, revision, admin, opened, hadAdmin, revoked>>
  BY DEF Identify
<1>1. CASE sessions' = Without(record.user)
  <2>1. sessions' \subseteq sessions
    BY <1>1, PrunedFacts DEF Without
  <2> QED
    BY <1>0, <2>1, FewerSessions
<1>2. CASE sessions' = Pruned((sessions \ {record}) \cup {Slid(record)})
  <2>1. sessions' \subseteq (sessions \ {record}) \cup {Slid(record)}
    BY <1>2, PrunedFacts
  <2>2. record \in SessionRecord /\ sessions \subseteq SessionRecord /\ IdleTimeout \in Int
    BY Parameters DEF AccessInv, AccessTypes
  <2>3. /\ Slid(record) \in SessionRecord /\ Slid(record).token = record.token
        /\ Slid(record).user = record.user
        /\ Slid(record).age <= MaxAge /\ Slid(record).idle <= IdleTimeout
    BY <2>2, SlidFacts DEF AccessInv, SessionsInv
  <2>4. \A r, s \in sessions : r.token = s.token => r = s
    BY DEF AccessInv, SessionsInv
  <2>5. \A r \in sessions : r.age <= MaxAge /\ r.idle <= IdleTimeout
    BY DEF AccessInv, SessionsInv
  <2> QED
    BY <1>0, <2>1, <2>2, <2>3, <2>4, <2>5, SessionStep
<1> QED
  BY <1>1, <1>2 DEF Identify

\* A tick brings every deadline nearer.
Aged(r) == [r EXCEPT !.age = @ - 1, !.idle = @ - 1]

\* Ageing keeps a record's token and account.
LEMMA AgedFacts ==
    ASSUME NEW r \in SessionRecord
    PROVE  /\ Aged(r) \in SessionRecord /\ Aged(r).token = r.token /\ Aged(r).user = r.user
           /\ Aged(r).age = r.age - 1 /\ Aged(r).idle = r.idle - 1
           /\ r.age \in Int /\ r.idle \in Int
<1>1. r.age \in Int /\ r.idle \in Int /\ r.age - 1 \in Int /\ r.idle - 1 \in Int
  BY DEF SessionRecord
<1>2. ASSUME NEW age \in Int, NEW idle \in Int
      PROVE  LET aged == [r EXCEPT !.age = age, !.idle = idle]
             IN  /\ aged \in SessionRecord /\ aged.token = r.token /\ aged.user = r.user
                 /\ aged.age = age /\ aged.idle = idle
  BY DEF SessionRecord
<1> QED
  BY <1>1, <1>2 DEF Aged

\* The clock ticks.
LEMMA TickAccessInv == AccessInv /\ Tick => AccessInv'
<1> SUFFICES ASSUME AccessInv, Tick PROVE AccessInv'
  OBVIOUS
<1>1. sessions' = {Aged(r) : r \in sessions}
  BY DEF Tick, Aged
<1>2. sessions \subseteq SessionRecord /\ MaxAge \in Int /\ IdleTimeout \in Int
  BY Parameters DEF AccessInv, AccessTypes
<1>3. \A r \in sessions' : \E s \in sessions : r = Aged(s)
  BY <1>1
<1>4. sessions' \subseteq SessionRecord
  BY <1>2, <1>3, AgedFacts
<1>5. \A r \in sessions' : \E s \in sessions : r.token = s.token /\ r.user = s.user
  BY <1>2, <1>3, AgedFacts
<1>6. \A r \in sessions' : r.age <= MaxAge /\ r.idle <= IdleTimeout
  <2> SUFFICES ASSUME NEW r \in sessions' PROVE r.age <= MaxAge /\ r.idle <= IdleTimeout
    OBVIOUS
  <2>1. PICK s \in sessions : r = Aged(s)
    BY <1>3
  <2>2. s.age <= MaxAge /\ s.idle <= IdleTimeout
    BY DEF AccessInv, SessionsInv
  <2> QED
    BY <1>2, <2>1, <2>2, AgedFacts
<1>7. \A r, s \in sessions' : r.token = s.token => r = s
  <2> SUFFICES ASSUME NEW r \in sessions', NEW s \in sessions', r.token = s.token
               PROVE  r = s
    OBVIOUS
  <2>1. PICK x \in sessions : r = Aged(x)
    BY <1>3
  <2>2. PICK y \in sessions : s = Aged(y)
    BY <1>3
  <2>3. x.token = y.token
    BY <1>2, <2>1, <2>2, AgedFacts
  <2>4. x = y
    BY <2>3 DEF AccessInv, SessionsInv
  <2> QED
    BY <2>1, <2>2, <2>4
<1> QED
  BY <1>4, <1>5, <1>6, <1>7, SessionStep DEF Tick

\* A login opens a session, with a token of its own.
LEMMA OpenSessionAccessInv ==
    ASSUME AccessInv, NEW u \in Users, OpenSession(u)
    PROVE  AccessInv'
<1> DEFINE new == Opened(u)
<1>1. sessions \subseteq SessionRecord /\ opened \in Nat /\ MaxAge \in Int /\ IdleTimeout \in Int
  BY Parameters DEF AccessInv, AccessTypes
<1>2. /\ new \in SessionRecord /\ new.token = opened + 1 /\ new.user = u
      /\ new.age = MaxAge /\ new.idle = IdleTimeout
  BY <1>1 DEF Opened, SessionRecord
<1> HIDE DEF new
<1>3. sessions' \subseteq sessions \cup {new} /\ opened' = opened + 1
      /\ UNCHANGED <<authMode, users, revision, admin, hadAdmin, revoked>>
  BY PrunedFacts DEF OpenSession, new
<1>4. \A r \in sessions : r.token \in 1 .. opened /\ r.token # opened + 1
  BY <1>1 DEF AccessInv, SessionsInv
<1>5. AccessTypes'
  BY <1>1, <1>2, <1>3 DEF AccessInv, AccessTypes
<1>6. SessionsInv'
  <2>1. \A r \in sessions' : r.token \in 1 .. opened' /\ r.age <= MaxAge /\ r.idle <= IdleTimeout
    BY <1>1, <1>2, <1>3, <1>4 DEF AccessInv, SessionsInv
  <2>2. \A r, s \in sessions' : r.token = s.token => r = s
    BY <1>2, <1>3, <1>4 DEF AccessInv, SessionsInv
  <2> QED
    BY <2>1, <2>2 DEF SessionsInv
<1>7. FormsInv' /\ RequestsInv'
  BY <1>3 DEF AccessInv, FormsInv, RequestsInv
<1>8. \A t \in revoked : t <= opened' /\ t # new.token
  <2>1. \A t \in revoked : t \in Nat /\ t <= opened
    BY DEF AccessInv, AccessTypes, DoomedInv
  <2> QED
    BY <1>1, <1>2, <1>3, <2>1
<1>9. \A a \in Admins : \A t \in admin[a].doomed : t <= opened' /\ t # new.token
  <2>1. \A a \in Admins : \A t \in admin[a].doomed : t \in Nat /\ t <= opened
    BY DEF AccessInv, AccessTypes, AccessRequest, DoomedInv
  <2> QED
    BY <1>1, <1>2, <1>3, <2>1
<1>10. DoomedInv'
  BY <1>3, <1>8, <1>9 DEF AccessInv, DoomedInv
<1>11. AccessAdminRemains'
  BY <1>3 DEF AccessInv, AccessAdminRemains, AllowSso
<1>12. AccessRevocationHolds'
  BY <1>3, <1>8 DEF AccessInv, AccessRevocationHolds
<1> QED
  BY <1>5, <1>6, <1>7, <1>10, <1>11, <1>12 DEF AccessInv

\* The rest of an administrator's handler.
LEMMA FinishAccessInv ==
    ASSUME AccessInv, NEW a \in Admins, Finish(a)
    PROVE  AccessInv'
<1>1. /\ DOMAIN admin = Admins /\ admin'[a] = Idle /\ revision \in Nat /\ opened \in Nat
      /\ \A b \in Admins \ {a} : admin'[b] = admin[b]
      /\ UNCHANGED <<authMode, users, revision, opened, hadAdmin>>
      /\ revoked' = revoked \cup admin[a].doomed
  BY DEF AccessInv, AccessTypes, Finish
<1>2. sessions' \subseteq sessions
  BY PrunedFacts DEF Finish, Without
<1>3. \A r \in sessions' : r.token \notin admin[a].doomed
  <2>1. CASE admin[a].revoke
    <3>1. \A r \in sessions' : r.user # admin[a].user
      BY <2>1, PrunedFacts DEF Finish, Without
    <3> QED
      BY <1>2, <3>1 DEF AccessInv, DoomedInv
  <2>2. CASE ~admin[a].revoke
    BY <2>2 DEF AccessInv, DoomedInv
  <2> QED
    BY <2>1, <2>2
<1>4. AccessTypes'
  <2>1. admin[a].doomed \subseteq Nat
    BY DEF AccessInv, AccessTypes, AccessRequest
  <2>2. admin' \in [Admins -> AccessRequest]
    BY IdleFacts DEF AccessInv, AccessTypes, Finish
  <2> QED
    BY <1>1, <1>2, <2>1, <2>2 DEF AccessInv, AccessTypes
<1>5. SessionsInv'
  BY <1>1, <1>2 DEF AccessInv, SessionsInv
<1>6. FormsInv' /\ RequestsInv'
  BY <1>1, IdleFacts DEF AccessInv, FormsInv, RequestsInv
<1>7. DoomedInv'
  BY <1>1, <1>2, IdleFacts DEF AccessInv, DoomedInv
<1>8. AccessAdminRemains'
  BY <1>1 DEF AccessInv, AccessAdminRemains, AllowSso
<1>9. AccessRevocationHolds'
  BY <1>1, <1>2, <1>3 DEF AccessInv, AccessRevocationHolds
<1> QED
  BY <1>4, <1>5, <1>6, <1>7, <1>8, <1>9 DEF AccessInv

\* The server is stopped and started, with or without a recovery administrator.
LEMMA RestartAccessInv ==
    ASSUME AccessInv, NEW mode \in Modes, NEW recover \in SUBSET Users, Restart(mode, recover)
    PROVE  AccessInv'
<1>1. /\ \A a \in Admins : admin'[a] = Idle
      /\ admin' \in [Admins -> AccessRequest]
      /\ UNCHANGED <<sessions, opened, revoked>> /\ revision \in Nat
  BY IdleFacts DEF Restart, AccessInv, AccessTypes
<1>2. users' \in UserCatalogs /\ revision' \in Nat
  <2> DEFINE one == [admin |-> TRUE, password |-> TRUE, disabled |-> FALSE]
  <2>1. one \in Account
    BY DEF Account
  <2>2. CASE recover = {}
    BY <2>2 DEF Restart, AccessInv, AccessTypes
  <2>3. CASE recover # {}
    <3>1. /\ users' = [u \in Users |-> IF u \in recover THEN one ELSE users[u]]
          /\ revision' = revision + 1
      BY <2>3 DEF Restart, WriteUsers
    <3>2. \A u \in Users : users[u] \in Account
      BY DEF AccessInv, AccessTypes, UserCatalogs
    <3> HIDE DEF one
    <3> QED
      BY <1>1, <2>1, <3>1, <3>2 DEF UserCatalogs
  <2> QED
    BY <2>2, <2>3
<1>3. AccessTypes'
  BY <1>1, <1>2 DEF AccessInv, AccessTypes
<1>4. SessionsInv' /\ AccessRevocationHolds'
  BY <1>1 DEF AccessInv, SessionsInv, AccessRevocationHolds
<1>5. FormsInv' /\ RequestsInv'
  BY <1>1, <1>2, IdleFacts DEF FormsInv, RequestsInv
<1>6. DoomedInv'
  BY <1>1, IdleFacts DEF AccessInv, DoomedInv
<1>7. AccessAdminRemains'
  BY DEF Restart, AccessAdminRemains, AllowSso
<1> QED
  BY <1>3, <1>4, <1>5, <1>6, <1>7 DEF AccessInv

\* Every step keeps the inductive invariant.
LEMMA NextAccessInv == AccessInv /\ [AccessNext]_accessVars => AccessInv'
<1> SUFFICES ASSUME AccessInv, [AccessNext]_accessVars PROVE AccessInv'
  OBVIOUS
<1>1. ASSUME NEW a \in Admins,
             \/ DisplayUsers(a) \/ DisplayRevision(a)
             \/ \E u \in Users, op \in Requests : Post(a, u, op)
             \/ Apply(a) \/ RefuseEdit(a) \/ Finish(a)
      PROVE  AccessInv'
  BY <1>1, DisplayAccessInv, PostAccessInv, ApplyAccessInv, RefuseEditAccessInv, FinishAccessInv
<1>2. ASSUME NEW u \in Users, Authenticate(u) PROVE AccessInv'
  BY <1>2, FewerSessions DEF Authenticate
<1>3. ASSUME NEW u \in Users, OpenSession(u) PROVE AccessInv'
  BY <1>3, OpenSessionAccessInv
<1>4. ASSUME NEW record \in sessions, Identify(record) PROVE AccessInv'
  BY <1>4, IdentifyAccessInv
<1>5. ASSUME NEW record \in sessions, Logout(record) PROVE AccessInv'
  BY <1>5, FewerSessions, PrunedFacts DEF Logout
<1>6. CASE Tick
  BY <1>6, TickAccessInv
<1>7. ASSUME NEW mode \in Modes, NEW recover \in SUBSET Users, Restart(mode, recover)
      PROVE  AccessInv'
  BY <1>7, RestartAccessInv
<1>8. CASE UNCHANGED accessVars
  BY <1>8, FewerSessions DEF accessVars
<1> QED
  BY <1>1, <1>2, <1>3, <1>4, <1>5, <1>6, <1>7, <1>8 DEF AccessNext

---------------------------------------------------------------------------
(* The properties.                                                         *)

\* The inductive invariant holds in every state that is reached.
LEMMA SpecAccessInv == AccessSpec => []AccessInv
  BY InitAccessInv, NextAccessInv, PTL DEF AccessSpec

\* A usable administrator, once there is one, remains until the mode changes; no
\* administrator overwrites accounts it has not seen, torn pages aside; and a
\* request that had to revoke sessions leaves none of them: for any number of
\* administrators, requests, logins and restarts.
THEOREM SpecAccessSound == AccessSpec => []AccessSound
<1>1. ASSUME AccessInv PROVE AccessSound
  <2>1. AccessTypeOK
    BY <1>1 DEF AccessInv, AccessTypes, SessionsInv, AccessTypeOK, UserCatalogs, Account, AccessRequest
  <2>2. AccessRevisionIdentifies
    BY <1>1 DEF AccessInv, FormsInv, AccessRevisionIdentifies
  <2> QED
    BY <1>1, <2>1, <2>2 DEF AccessInv, AccessSound
<1> QED
  BY <1>1, SpecAccessInv, PTL

\* Whatever makes a session of an old token alive, it was alive before.
LEMMA NextAlive ==
    ASSUME AccessInv, [AccessNext]_accessVars,
           NEW r \in sessions', r.token \in 1 .. opened, Alive(r)
    PROVE  \E s \in sessions : s.token = r.token /\ Alive(s)
<1>1. CASE sessions' \subseteq sessions
  BY <1>1
<1>2. ASSUME NEW a \in Admins,
             \/ DisplayUsers(a) \/ DisplayRevision(a)
             \/ \E u \in Users, op \in Requests : Post(a, u, op)
             \/ Apply(a) \/ RefuseEdit(a) \/ Finish(a)
      PROVE  sessions' \subseteq sessions
  BY <1>2, PrunedFacts
     DEF DisplayUsers, DisplayRevision, Post, Apply, RefuseEdit, Finish, Without
<1>3. ASSUME NEW u \in Users, Authenticate(u) PROVE sessions' \subseteq sessions
  BY <1>3 DEF Authenticate
<1>4. ASSUME NEW u \in Users, OpenSession(u)
      PROVE  \E s \in sessions : s.token = r.token /\ Alive(s)
  <2>1. sessions' \subseteq sessions \cup {Opened(u)} /\ opened \in Nat
    BY <1>4, PrunedFacts DEF OpenSession, AccessInv, AccessTypes
  <2>2. Opened(u).token = opened + 1
    BY DEF Opened
  <2>3. r # Opened(u)
    BY <2>1, <2>2
  <2> QED
    BY <2>1, <2>3
<1>5. ASSUME NEW record \in sessions, Identify(record)
      PROVE  \E s \in sessions : s.token = r.token /\ Alive(s)
  <2>1. CASE sessions' = Without(record.user)
    BY <1>1, <2>1, PrunedFacts DEF Without
  <2>2. CASE sessions' = Pruned((sessions \ {record}) \cup {Slid(record)})
    <3>1. r \in sessions \/ r = Slid(record)
      BY <2>2, PrunedFacts
    <3>2. Slid(record).token = record.token /\ Alive(record)
      BY <1>5, SlidFacts DEF AccessInv, AccessTypes, Identify, Resolves
    <3> QED
      BY <3>1, <3>2
  <2> QED
    BY <1>5, <2>1, <2>2 DEF Identify
<1>6. ASSUME NEW record \in sessions, Logout(record) PROVE sessions' \subseteq sessions
  BY <1>6, PrunedFacts DEF Logout
<1>7. ASSUME Tick
      PROVE  \E s \in sessions : s.token = r.token /\ Alive(s)
  <2>1. PICK s \in sessions : r = Aged(s)
    BY <1>7 DEF Tick, Aged
  <2>2. /\ s.token = r.token /\ r.age = s.age - 1 /\ r.idle = s.idle - 1
        /\ s.age \in Int /\ s.idle \in Int
    BY <2>1, AgedFacts DEF AccessInv, AccessTypes
  <2> QED
    BY <2>2 DEF Alive
<1>8. ASSUME NEW mode \in Modes, NEW recover \in SUBSET Users, Restart(mode, recover)
      PROVE  sessions' \subseteq sessions
  BY <1>8 DEF Restart
<1>9. CASE UNCHANGED accessVars
  BY <1>1, <1>9 DEF accessVars
<1> QED
  BY <1>1, <1>2, <1>3, <1>4, <1>5, <1>6, <1>7, <1>8, <1>9 DEF AccessNext

\* A session that expired, was idle too long or was revoked is never alive
\* again, for any lifetime of sessions: only a login makes one, with a token
\* that was never given out.
THEOREM SpecAccessDeadStaysDead == AccessSpec => AccessDeadStaysDead
<1>1. AccessInv /\ [AccessNext]_accessVars =>
        [\A t \in 1 .. opened :
           (~ \E r \in sessions : r.token = t /\ Alive(r))
              => ~ \E r \in sessions' : r.token = t /\ Alive(r)]_accessVars
  BY NextAlive
<1> QED
  BY <1>1, SpecAccessInv, PTL DEF AccessSpec, AccessDeadStaysDead

---------------------------------------------------------------------------
(* ChangePlans                                                             *)

\* What a page shows, and a request that it posts.
PageRecord ==
    [status : PlanStatuses \cup {"absent"}, rev : Nat, changes : ChangeMaps, checks : Nat,
     due : SUBSET {"pre", "post"}, open : SUBSET ChangeIds]

Tells == PlanStatuses \cup {"none", "linked"}
PlannerRecord ==
    [pc : {"rest", "checking", "loading", "truncating", "writing", "linking", "telling"},
     page : PageRecord, work : PlanRecord \cup {NoPlan}, fresh : SUBSET ChangeMaps,
     tell : Tells]

PlanTypes ==
    /\ plan \in PlanRecord \cup {NoPlan, TornPlan}
    /\ planner \in [Planners -> PlannerRecord]
    /\ added \in Nat /\ saves \in Nat /\ planDeaths \in Nat /\ planCrossed \in Nat

\* What a plan records of its own way, whoever wrote it.
OwnRecord(p) ==
    /\ p.status \in Approved => p.approval # {}
    /\ p.status \in {"running", "completed", "failed", "rolled-back"} => p.pre # "pending"
    /\ p.status = "completed" =>
         /\ \A c \in DOMAIN p.changes : c \in DOMAIN p.log /\ p.log[c] = "done"
         /\ p.post \in {"none", "passed"}

\* It does in the file and in every request that is going to write it, even
\* when requests overlap.
Saving == {"checking", "loading", "truncating", "writing"}
RecordInv ==
    /\ PlanTypes
    /\ HasPlan => OwnRecord(plan)
    /\ \A u \in Planners : planner[u].pc \in Saving
                              => planner[u].work \in PlanRecord /\ OwnRecord(planner[u].work)

\* The rest holds while requests follow one another.
OneRequest == \A u, v \in InFlight : u = v

\* What the lifecycle says of a plan by itself.
Recorded(check) == check \in {"none", "passed"}
SanePlan(p) ==
    /\ p.status \in {"analysed", "in-review"} \cup Approved => p.assessed = {p.changes}
    /\ p.status \in {"running", "completed"} => Recorded(p.pre)
    /\ p.status = "completed" =>
         /\ DOMAIN p.changes \subseteq DOMAIN p.log
         /\ \A c \in DOMAIN p.log : p.log[c] # "failed"
         /\ Recorded(p.post)

SeenByApprover(p) == p.status \in Approved => p.approval = {p.changes}

\* The case hears of what the plan executes to.
Heard(p) == p.incident /\ p.status \in Finished \cup {"running", "failed"}

\* The plan that a request is going to write.
Merged(work, fresh) ==
    [work EXCEPT !.rev = @ + 1,
                 !.assessed = IF fresh # {} THEN fresh ELSE IF HasPlan THEN plan.assessed ELSE {}]
ToWrite(r) == IF r.pc \in {"checking", "loading"} THEN Merged(r.work, r.fresh) ELSE r.work

\* A page is no newer than the plan and, at its revision, shows it.  After a death
\* it may be a page of a lost plan, but then it does not have the checks of this one.
PageOf(page, p) ==
    /\ page.checks = p.checks /\ p.pre # "none" =>
         page.rev <= p.rev /\ (page.rev = p.rev => page.due = Shown(p).due)
    /\ planDeaths = 0 => page.rev <= p.rev /\ (page.rev = p.rev => page = Shown(p))
PageBefore(page, p) ==
    /\ page.checks = p.checks /\ p.pre # "none" => page.rev < p.rev
    /\ planDeaths = 0 => page.rev < p.rev

\* The plan in the file.
PlanFileInv ==
    HasPlan =>
      /\ plan.rev >= 1 /\ SanePlan(plan) /\ plan.checks <= saves
      /\ \A v \in Planners : PageOf(planner[v].page, plan)
      /\ planDeaths = 0 =>
           /\ SeenByApprover(plan)
           /\ Heard(plan) =>
                \/ plan.status \in told
                \/ \E u \in Planners : planner[u].pc = "telling" /\ planner[u].tell = plan.status

\* The plan that a request is going to write, after the one in the file.
WorkInv(r) ==
    LET p == ToWrite(r) IN
    /\ r.work \in PlanRecord
    /\ p.rev >= 1 /\ SanePlan(p) /\ p.checks <= saves + 1
    /\ p.rev = 1 => p.status = "draft"
    /\ \A v \in Planners : PageBefore(planner[v].page, p)
    /\ IF r.pc = "writing" THEN plan = TornPlan ELSE HasPlan => p.rev = plan.rev + 1
    /\ planDeaths = 0 => SeenByApprover(p) /\ (Heard(p) => p.status \in told \cup {r.tell})

\* The plan that create_plan made is linked to its case next.
LinkInv(r) ==
    r.fresh = {} /\ (planDeaths = 0 /\ HasPlan => plan.status = "draft")

RequestsOfPlan ==
    \A u \in Planners :
      /\ planner[u].pc \in Saving => WorkInv(planner[u])
      /\ planner[u].pc = "linking" => LinkInv(planner[u])

PagesOfPlan ==
    /\ \A v \in Planners : planner[v].page.checks <= saves
    /\ planDeaths = 0 /\ ~HasPlan /\ (\A u \in Planners : planner[u].pc # "writing") =>
         \A v \in Planners : planner[v].page.rev = 0

PlanInv ==
    /\ PlanTypes
    /\ OneRequest
    /\ PlanFileInv
    /\ RequestsOfPlan
    /\ PagesOfPlan

---------------------------------------------------------------------------
(* ChangePlans: plans                                                      *)

LEMMA PlansAreThere == NoPlan \notin PlanRecord /\ TornPlan \notin PlanRecord
<1>1. \A p \in PlanRecord : p.status \in PlanStatuses
  BY DEF PlanRecord
<1>2. NoPlan.status = "absent" /\ TornPlan.status = "torn"
  BY DEF NoPlan, TornPlan
<1>3. "absent" \notin PlanStatuses /\ "torn" \notin PlanStatuses
  BY DEF PlanStatuses, Finished
<1> QED BY <1>1, <1>2, <1>3

LEMMA PlanIs ==
    ASSUME PlanTypes
    PROVE  /\ HasPlan <=> plan \in PlanRecord
           /\ HasPlan => plan # NoPlan /\ plan # TornPlan
           /\ ~HasPlan => plan \in {NoPlan, TornPlan}
  BY PlansAreThere DEF PlanTypes, HasPlan

LEMMA MergedIs ==
    ASSUME PlanTypes, NEW work \in PlanRecord, NEW fresh \in SUBSET ChangeMaps
    PROVE  LET p == Merged(work, fresh)
           IN  /\ p \in PlanRecord /\ p.rev = work.rev + 1 /\ p.rev >= 1
               /\ p.assessed = IF fresh # {} THEN fresh ELSE IF HasPlan THEN plan.assessed ELSE {}
               /\ p.status = work.status /\ p.changes = work.changes /\ p.pre = work.pre
               /\ p.post = work.post /\ p.checks = work.checks /\ p.log = work.log
               /\ p.incident = work.incident /\ p.approval = work.approval
<1>1. PICK rev \in Nat : rev = work.rev + 1
  <2>1. work.rev + 1 \in Nat
    BY DEF PlanRecord
  <2> QED BY <2>1
<1>2. PICK assessed \in SUBSET ChangeMaps :
        assessed = IF fresh # {} THEN fresh ELSE IF HasPlan THEN plan.assessed ELSE {}
  <2>1. HasPlan => plan.assessed \in SUBSET ChangeMaps
    BY PlanIs DEF PlanRecord
  <2>2. (IF fresh # {} THEN fresh ELSE IF HasPlan THEN plan.assessed ELSE {}) \in SUBSET ChangeMaps
    BY <2>1
  <2> QED BY <2>2
<1>3. Merged(work, fresh) = [work EXCEPT !.rev = rev, !.assessed = assessed]
  BY <1>1, <1>2 DEF Merged
<1> DEFINE p == [work EXCEPT !.rev = rev, !.assessed = assessed]
<1>4. /\ p \in PlanRecord /\ p.rev = rev /\ p.assessed = assessed
      /\ p.status = work.status /\ p.changes = work.changes /\ p.pre = work.pre
      /\ p.post = work.post /\ p.checks = work.checks /\ p.log = work.log
      /\ p.incident = work.incident /\ p.approval = work.approval
  BY DEF PlanRecord
<1>5. rev >= 1
  <2>1. work.rev \in Nat
    BY DEF PlanRecord
  <2> QED BY <1>1, <2>1
<1> QED BY <1>1, <1>2, <1>3, <1>4, <1>5

\* A new plan.
LEMMA NewPlanIs ==
    /\ NewPlan \in PlanRecord /\ NewPlan.rev = 0 /\ NewPlan.status = "draft"
    /\ NewPlan.pre = "none" /\ NewPlan.checks = 0
<1>1. <<>> \in ChangeMaps
  <2>1. <<>> \in [{} -> 1 .. MaxChanges]
    OBVIOUS
  <2>2. {} \in SUBSET ChangeIds
    OBVIOUS
  <2> QED BY <2>1, <2>2 DEF ChangeMaps
<1>2. <<>> \in Checkpoints
  <2>1. <<>> \in [{} -> {"done", "failed"}]
    OBVIOUS
  <2>2. {} \in SUBSET ChangeIds
    OBVIOUS
  <2> QED BY <2>1, <2>2 DEF Checkpoints
<1> QED BY <1>1, <1>2 DEF NewPlan, PlanRecord, PlanStatuses, CheckResults

\* A page shows the plan.
LEMMA ShownIs ==
    ASSUME NEW p \in PlanRecord
    PROVE  /\ Shown(p) \in PageRecord
           /\ Shown(p).rev = p.rev /\ Shown(p).checks = p.checks /\ Shown(p).changes = p.changes
           /\ Shown(p).status = p.status
           /\ \A phase \in {"pre", "post"} : phase \in Shown(p).due <=> p[phase] = "pending"
           /\ Shown(p).open = DOMAIN p.changes \ DOMAIN p.log
<1>1. PICK due \in SUBSET {"pre", "post"} : due = {phase \in {"pre", "post"} : p[phase] = "pending"}
  <2>1. {phase \in {"pre", "post"} : p[phase] = "pending"} \in SUBSET {"pre", "post"}
    OBVIOUS
  <2> QED BY <2>1
<1>2. PICK open \in SUBSET ChangeIds : open = DOMAIN p.changes \ DOMAIN p.log
  <2>1. p.changes \in ChangeMaps
    BY DEF PlanRecord
  <2>2. DOMAIN p.changes \in SUBSET ChangeIds
    BY <2>1 DEF ChangeMaps
  <2> QED BY <2>2
<1>3. Shown(p) = [status |-> p.status, rev |-> p.rev, changes |-> p.changes, checks |-> p.checks,
                  due |-> due, open |-> open]
  BY <1>1, <1>2 DEF Shown
<1>4. /\ p.status \in PlanStatuses /\ p.rev \in Nat /\ p.checks \in Nat /\ p.changes \in ChangeMaps
  BY DEF PlanRecord
<1> QED BY <1>1, <1>2, <1>3, <1>4 DEF PageRecord

---------------------------------------------------------------------------
(* ChangePlans: steps of one request                                       *)

\* Whoever has a request under way is the only one.
LEMMA OthersRest ==
    ASSUME PlanInv, NEW u \in Planners, planner[u].pc # "rest"
    PROVE  \A v \in Planners : v # u => planner[v].pc = "rest"
  BY DEF PlanInv, OneRequest, InFlight

LEMMA OneRequestStays ==
    ASSUME NEW u \in Planners, \A v \in Planners : v # u => planner'[v].pc = "rest"
    PROVE  OneRequest'
  BY DEF InFlight, OneRequest

\* A step that leaves the plan in the file and the pages.
LEMMA PlannerStep ==
    ASSUME PlanInv, NEW u \in Planners, NEW r \in PlannerRecord,
           planner' = [planner EXCEPT ![u] = r], r.page = planner[u].page,
           UNCHANGED <<plan, told, saves, planDeaths>>, added' \in Nat, planCrossed' \in Nat,
           \A v \in Planners : v # u => planner[v].pc = "rest",
           planner[u].pc # "telling", planner[u].pc # "writing",
           r.pc \in Saving => WorkInv(r),
           r.pc = "linking" => LinkInv(r)
    PROVE  PlanInv'
<1>1. /\ PlanTypes
      /\ \A v \in Planners : planner'[v] = IF v = u THEN r ELSE planner[v]
      /\ \A v \in Planners : planner'[v].page = planner[v].page
  BY DEF PlanInv, PlanTypes
<1>2. PlanTypes'
  BY <1>1 DEF PlanTypes
<1>3. OneRequest'
  BY <1>1, OneRequestStays
<1>4. PlanFileInv'
  BY <1>1 DEF PlanInv, PlanFileInv, HasPlan, PageOf
<1>5. ASSUME r.pc \in Saving
      PROVE  WorkInv(r)'
  BY <1>1, <1>5 DEF WorkInv, PageBefore, HasPlan, ToWrite, Merged
<1>6. RequestsOfPlan'
  <2>1. \A v \in Planners : v # u => planner'[v].pc = "rest"
    BY <1>1
  <2>2. (r.pc = "linking" => LinkInv(r))'
    BY DEF LinkInv, HasPlan
  <2>3. planner'[u] = r
    BY <1>1
  <2>4. ASSUME NEW v \in Planners, planner'[v].pc \in Saving
        PROVE  WorkInv(planner[v])'
    <3>1. v = u
      BY <2>1, <2>4 DEF Saving
    <3> QED BY <1>5, <2>3, <2>4, <3>1 DEF WorkInv, ToWrite
  <2>5. ASSUME NEW v \in Planners, planner'[v].pc = "linking"
        PROVE  LinkInv(planner[v])'
    <3>1. v = u
      BY <2>1, <2>5
    <3> QED BY <2>2, <2>3, <2>5, <3>1 DEF LinkInv
  <2> QED BY <2>4, <2>5 DEF RequestsOfPlan
<1>7. PagesOfPlan'
  BY <1>1 DEF PlanInv, PagesOfPlan, HasPlan
<1> QED BY <1>2, <1>3, <1>4, <1>6, <1>7 DEF PlanInv

\* A plan made of another one by a request: what its checks and its case have to
\* do with those of the old one.
Made(p, r) ==
    /\ r \in PlanRecord /\ r.rev = p.rev /\ r.incident = p.incident
    /\ \/ r.checks = p.checks /\ (r.pre # "none" => p.pre # "none")
       \/ r.checks = saves + 1

\* A request that crosses no other begins when there is none.
LEMMA BeginsAlone ==
    ASSUME PlanTypes, planCrossed' = 0, NEW u, NEW pc, NEW work, NEW fresh, NEW tell,
           Begins(u, pc, work, fresh, tell)
    PROVE  \A v \in Planners : planner[v].pc = "rest"
<1>1. planCrossed' # planCrossed + 1
  BY DEF PlanTypes
<1>2. InFlight = {}
  BY <1>1 DEF Begins
<1> QED BY <1>2 DEF InFlight

LEMMA BeginKeepsInv ==
    ASSUME PlanInv, planCrossed' = 0, HasPlan,
           NEW u \in Planners, NEW pc \in {"checking", "loading"}, NEW work \in PlanRecord,
           NEW fresh \in SUBSET ChangeMaps, NEW tell \in Tells,
           Begins(u, pc, work, fresh, tell), added' \in Nat,
           Made(plan, work),
           SanePlan(Merged(work, fresh)),
           planDeaths = 0 => SeenByApprover(work),
           planDeaths = 0 /\ Heard(work) => work.status \in told \cup {tell}
    PROVE  PlanInv'
<1>1. PlanTypes /\ plan \in PlanRecord
  BY PlanIs DEF PlanInv
<1>2. PICK p \in PlanRecord :
      /\ p = Merged(work, fresh) /\ p.rev = work.rev + 1
      /\ p.status = work.status /\ p.changes = work.changes /\ p.pre = work.pre
      /\ p.checks = work.checks /\ p.incident = work.incident /\ p.approval = work.approval
  BY <1>1, MergedIs
<1>3. PICK r \in PlannerRecord :
        /\ planner' = [planner EXCEPT ![u] = r]
        /\ r.page = planner[u].page
        /\ r.pc = pc /\ r.work = work /\ r.fresh = fresh /\ r.tell = tell
  <2>1. PICK old \in PlannerRecord : old = planner[u]
    BY <1>1 DEF PlanTypes
  <2>2. PICK r : r = [old EXCEPT !.pc = pc, !.work = work, !.fresh = fresh, !.tell = tell]
    OBVIOUS
  <2>3. /\ r \in PlannerRecord /\ r.page = old.page
        /\ r.pc = pc /\ r.work = work /\ r.fresh = fresh /\ r.tell = tell
    BY <2>2 DEF PlannerRecord
  <2>4. planner' = [planner EXCEPT ![u] = r]
    BY <1>1, <2>1, <2>2 DEF Begins, PlanTypes
  <2> QED BY <2>1, <2>3, <2>4
<1>4. /\ \A v \in Planners : planner[v].pc = "rest"
      /\ UNCHANGED <<plan, told, saves, planDeaths>> /\ planCrossed' \in Nat
  BY <1>1, BeginsAlone DEF Begins
<1>5. ToWrite(r) = p
  BY <1>2, <1>3 DEF ToWrite
<1>6. /\ plan.rev \in Nat /\ plan.checks \in Nat /\ saves \in Nat
      /\ plan.rev >= 1 /\ plan.checks <= saves /\ work.rev = plan.rev
      /\ work.incident = plan.incident
  BY <1>1 DEF PlanInv, PlanTypes, PlanFileInv, PlanRecord, Made
<1>7. \A v \in Planners : PageBefore(planner[v].page, p)
  <2> SUFFICES ASSUME NEW v \in Planners PROVE PageBefore(planner[v].page, p)
    OBVIOUS
  <2>1. PICK page \in PageRecord : page = planner[v].page
    BY <1>1 DEF PlanTypes, PlannerRecord
  <2>2. page.rev \in Nat /\ page.checks \in Nat /\ page.checks <= saves
    BY <2>1 DEF PageRecord, PlanInv, PagesOfPlan
  <2>3. PageOf(page, plan)
    BY <2>1 DEF PlanInv, PlanFileInv
  <2>4. planDeaths = 0 => page.rev < p.rev
    BY <1>2, <1>6, <2>2, <2>3 DEF PageOf
  <2>5. ASSUME page.checks = p.checks, p.pre # "none"
        PROVE  page.rev < p.rev
    <3>1. p.checks # saves + 1
      BY <1>6, <2>2, <2>5
    <3>2. p.checks = plan.checks /\ plan.pre # "none"
      BY <1>2, <2>5, <3>1 DEF Made
    <3> QED BY <1>2, <1>6, <2>2, <2>3, <2>5, <3>2 DEF PageOf
  <2> QED BY <2>1, <2>4, <2>5 DEF PageBefore
<1>8. /\ p.rev >= 1 /\ p.rev # 1 /\ p.checks <= saves + 1
      /\ planDeaths = 0 => SeenByApprover(p) /\ (Heard(p) => p.status \in told \cup {tell})
  <2>1. p.rev >= 1 /\ p.rev # 1
    BY <1>2, <1>6
  <2>2. p.checks <= saves + 1
    BY <1>2, <1>6 DEF Made
  <2>3. SeenByApprover(work) => SeenByApprover(p)
    BY <1>2 DEF SeenByApprover
  <2>4. Heard(p) => Heard(work)
    BY <1>2 DEF Heard
  <2> QED BY <1>2, <2>1, <2>2, <2>3, <2>4
<1>9. WorkInv(r)
  BY <1>2, <1>3, <1>5, <1>6, <1>7, <1>8 DEF WorkInv
<1> QED BY <1>3, <1>4, <1>9, PlannerStep

---------------------------------------------------------------------------
(* ChangePlans: what the operations make of the plan                       *)

\* What a request may do to the plan that it read.
Proper(p, fresh, tell) ==
    /\ Made(plan, p)
    /\ SanePlan(Merged(p, fresh))
    /\ planDeaths = 0 => SeenByApprover(p)
    /\ planDeaths = 0 /\ Heard(p) => p.status \in told \cup {tell}

\* The parts of a plan that only its editing changes.
SameContent(p, q) ==
    p.rev = q.rev /\ p.changes = q.changes /\ p.incident = q.incident /\ p.assessed = q.assessed

LEMMA WithStatus ==
    ASSUME NEW q \in PlanRecord, NEW s \in PlanStatuses
    PROVE  LET p == [q EXCEPT !.status = s]
           IN  /\ p \in PlanRecord /\ p.status = s /\ SameContent(p, q)
               /\ p.pre = q.pre /\ p.post = q.post /\ p.checks = q.checks /\ p.log = q.log
               /\ p.approval = q.approval
  BY DEF PlanRecord, SameContent

\* An operation that leaves the changes, and goes where the lifecycle goes.
LEMMA StatusIsProper ==
    ASSUME PlanInv, HasPlan, NEW p \in PlanRecord, NEW tell, SameContent(p, plan),
           \/ p.checks = plan.checks /\ (p.pre # "none" => plan.pre # "none")
           \/ p.checks = saves + 1,
           p.status \in {"analysed", "in-review"} \cup Approved
             => plan.status \in {"analysed", "in-review"} \cup Approved,
           p.status \in {"running", "completed"} => Recorded(p.pre),
           p.status = "completed" =>
             /\ DOMAIN p.changes \subseteq DOMAIN p.log
             /\ \A c \in DOMAIN p.log : p.log[c] # "failed"
             /\ Recorded(p.post),
           planDeaths = 0 /\ p.status \in Approved => p.approval = {p.changes},
           planDeaths = 0 /\ Heard(p) => p.status \in told \cup {tell}
    PROVE  Proper(p, {}, tell)
<1>1. PlanTypes /\ plan \in PlanRecord /\ SanePlan(plan)
  BY PlanIs DEF PlanInv, PlanFileInv
<1>2. {} \in SUBSET ChangeMaps
  OBVIOUS
<1>3. PICK m : m = Merged(p, {})
  OBVIOUS
<1>4. /\ m.assessed = plan.assessed /\ m.status = p.status /\ m.changes = p.changes /\ m.pre = p.pre
      /\ m.post = p.post /\ m.log = p.log
  BY <1>1, <1>2, <1>3, MergedIs
<1>5. SanePlan(m)
  BY <1>1, <1>4 DEF SanePlan, SameContent
<1>6. Made(plan, p)
  BY DEF Made, SameContent
<1> QED BY <1>3, <1>5, <1>6 DEF Proper, SeenByApprover

\* How the pages stand to the plan, when a form is current.
LEMMA CurrentPage ==
    ASSUME PlanInv, NEW u \in Planners, FormIsCurrent(u)
    PROVE  /\ HasPlan /\ planner[u].page \in PageRecord
           /\ planDeaths = 0 => planner[u].page = Shown(plan)
           /\ planner[u].page.checks = plan.checks /\ plan.pre # "none"
                => planner[u].page.due = Shown(plan).due
<1>1. HasPlan /\ planner[u].page.rev = plan.rev
  BY DEF FormIsCurrent
<1>2. PageOf(planner[u].page, plan)
  BY <1>1 DEF PlanInv, PlanFileInv
<1>3. planner[u].page \in PageRecord
  BY DEF PlanInv, PlanTypes, PlannerRecord
<1> QED BY <1>1, <1>2, <1>3 DEF PageOf

\* What Review makes of the plan.
Reviewed(p, seen) ==
    \/ p \in Arrange(plan)
    \/ p \in UpdateReadiness(plan)
    \/ p \in SubmitForReview(plan)
    \/ p \in Decide(plan, seen)
    \/ p \in Schedule(plan)

LEMMA ReviewIsProper ==
    ASSUME PlanInv, NEW u \in Planners, FormIsCurrent(u), NEW p, NEW tell,
           Reviewed(p, planner[u].page.changes)
    PROVE  p \in PlanRecord /\ Proper(p, {}, tell)
<1>1. HasPlan /\ plan \in PlanRecord
  BY CurrentPage, PlanIs DEF PlanInv
<1>2. plan.status \in PlanStatuses /\ saves \in Nat
  BY <1>1 DEF PlanRecord, PlanInv, PlanTypes
<1>3. CASE p \in Arrange(plan)
  <2>1. p = [plan EXCEPT !.ordered = TRUE, !.status = "draft"]
    BY <1>3 DEF Arrange, When
  <2>2. /\ p \in PlanRecord /\ SameContent(p, plan) /\ p.status = "draft"
        /\ p.pre = plan.pre /\ p.checks = plan.checks
    BY <1>1, <2>1 DEF PlanRecord, SameContent, PlanStatuses
  <2> QED BY <1>1, <2>2, StatusIsProper DEF Approved, Heard, Finished
<1>4. CASE p \in UpdateReadiness(plan)
  <2>1. PICK there \in BOOLEAN :
          /\ plan.status \in {"draft", "analysed", "in-review"}
          /\ p = [plan EXCEPT !.ready = there, !.pre = IF there THEN "pending" ELSE "none",
                              !.post = IF there THEN "pending" ELSE "none", !.checks = saves + 1]
    BY <1>4 DEF UpdateReadiness, When
  <2>2. PICK n \in Nat : n = saves + 1
    BY <1>2
  <2>3. PICK r \in CheckResults : r = IF there THEN "pending" ELSE "none"
    BY DEF CheckResults
  <2>4. p = [plan EXCEPT !.ready = there, !.pre = r, !.post = r, !.checks = n]
    BY <2>1, <2>2, <2>3
  <2>5. /\ p \in PlanRecord /\ SameContent(p, plan) /\ p.status = plan.status
        /\ p.checks = saves + 1
    BY <1>1, <2>2, <2>4 DEF PlanRecord, SameContent
  <2> QED BY <1>1, <2>1, <2>5, StatusIsProper DEF Approved, Heard, Finished
<1>5. CASE p \in SubmitForReview(plan)
  <2>1. p = [plan EXCEPT !.status = "in-review"] /\ plan.status = "analysed"
    BY <1>5 DEF SubmitForReview, When
  <2>2. /\ p \in PlanRecord /\ SameContent(p, plan) /\ p.status = "in-review"
        /\ p.pre = plan.pre /\ p.checks = plan.checks
    BY <1>1, <2>1, WithStatus DEF PlanStatuses
  <2> QED BY <1>1, <2>1, <2>2, StatusIsProper DEF Approved, Heard, Finished
<1>6. CASE p \in Decide(plan, planner[u].page.changes)
  <2>1. PICK decision \in {"approved", "draft", "rejected"} :
          /\ p = [plan EXCEPT !.status = decision, !.approval = {planner[u].page.changes}]
          /\ plan.status \in {"in-review", "analysed"}
    BY <1>6 DEF Decide, DecideReview, DecidePlan, When
  <2>2. planner[u].page.changes \in ChangeMaps
    BY CurrentPage DEF PageRecord
  <2>3. /\ p \in PlanRecord /\ SameContent(p, plan) /\ p.status = decision
        /\ p.pre = plan.pre /\ p.checks = plan.checks
        /\ p.approval = {planner[u].page.changes} /\ p.changes = plan.changes
    BY <1>1, <2>1, <2>2 DEF PlanRecord, SameContent, PlanStatuses
  <2>4. planDeaths = 0 => planner[u].page.changes = plan.changes
    BY <1>1, CurrentPage, ShownIs
  <2> QED BY <1>1, <2>1, <2>3, <2>4, StatusIsProper DEF Approved, Heard, Finished
<1>7. CASE p \in Schedule(plan)
  <2>1. p = [plan EXCEPT !.status = "scheduled"] /\ plan.status = "approved"
    BY <1>7 DEF Schedule, When
  <2>2. /\ p \in PlanRecord /\ SameContent(p, plan) /\ p.status = "scheduled"
        /\ p.pre = plan.pre /\ p.checks = plan.checks /\ p.approval = plan.approval
    BY <1>1, <2>1, WithStatus DEF PlanStatuses
  <2>3. planDeaths = 0 => plan.approval = {plan.changes}
    BY <1>1, <2>1 DEF PlanInv, PlanFileInv, SeenByApprover, Approved
  <2> QED BY <1>1, <2>1, <2>2, <2>3, StatusIsProper DEF Approved, Heard, Finished, SameContent
<1> QED BY <1>3, <1>4, <1>5, <1>6, <1>7 DEF Reviewed

\* What Execute makes of the plan, and the status that the case is told then.
Executed(p, page) ==
    \/ \E phase \in page.due : p \in RecordCheck(plan, phase, page.checks)
    \/ p \in StartExecution(plan)
    \/ p \in Complete(plan)
    \/ p \in Fail(plan)
    \/ \E c \in page.open : p \in Checkpoint(plan, c)
    \/ p \in Rollback(plan)
    \/ p \in Cancel(plan)

LEMMA ExecutedIsProper ==
    ASSUME PlanInv, NEW u \in Planners, FormIsCurrent(u), NEW p, NEW tell,
           Executed(p, planner[u].page),
           \A v \in Planners : planner[v].pc = "rest",
           plan.incident /\ p.status # plan.status => tell = p.status
    PROVE  p \in PlanRecord /\ Proper(p, {}, tell)
<1>1. HasPlan /\ plan \in PlanRecord
  BY CurrentPage, PlanIs DEF PlanInv
<1>2. /\ plan.status \in PlanStatuses /\ plan.pre \in CheckResults /\ plan.post \in CheckResults
      /\ plan.log \in Checkpoints
  BY <1>1 DEF PlanRecord
<1>3. /\ SanePlan(plan)
      /\ planDeaths = 0 /\ plan.status \in Approved => plan.approval = {plan.changes}
      /\ planDeaths = 0 /\ Heard(plan) => plan.status \in told
  BY <1>1 DEF PlanInv, PlanFileInv, SeenByApprover
\* The case hears of it.
<1>4. ASSUME p \in PlanRecord, SameContent(p, plan)
      PROVE  planDeaths = 0 /\ Heard(p) => p.status \in told \cup {tell}
  BY <1>3, <1>4 DEF Heard, SameContent
<1>5. CASE \E phase \in planner[u].page.due : p \in RecordCheck(plan, phase, planner[u].page.checks)
  <2>1. PICK phase \in {"pre", "post"}, r \in {"passed", "failed"} :
          /\ phase \in planner[u].page.due
          /\ plan.checks = planner[u].page.checks
          /\ plan.status \in IF phase = "pre" THEN {"scheduled", "running"} ELSE {"running"}
          /\ plan[phase] # "none" /\ p = [plan EXCEPT ![phase] = r]
    BY <1>5, CurrentPage DEF RecordCheck, When, PageRecord
  <2>2. CASE phase = "pre"
    <3>1. /\ p \in PlanRecord /\ SameContent(p, plan) /\ p.status = plan.status
          /\ p.checks = plan.checks /\ p.approval = plan.approval
      BY <1>1, <2>1, <2>2 DEF PlanRecord, SameContent, CheckResults
    <3>2. plan.pre = "pending"
      BY <1>1, <2>1, <2>2, CurrentPage, ShownIs
    <3>3. p.status = "scheduled"
      BY <1>3, <2>1, <2>2, <3>1, <3>2 DEF SanePlan, Recorded
    <3>4. plan.pre # "none"
      BY <3>2
    <3> QED BY <1>1, <1>3, <1>4, <3>1, <3>3, <3>4, StatusIsProper DEF Approved, SameContent
  <2>3. CASE phase = "post"
    <3>1. /\ p \in PlanRecord /\ SameContent(p, plan) /\ p.status = "running"
          /\ plan.status = "running"
          /\ p.checks = plan.checks /\ p.approval = plan.approval /\ p.pre = plan.pre
      BY <1>1, <2>1, <2>3 DEF PlanRecord, SameContent, CheckResults
    <3>2. Recorded(p.pre)
      BY <1>3, <3>1 DEF SanePlan
    <3> QED BY <1>1, <1>3, <1>4, <3>1, <3>2, StatusIsProper DEF Approved, SameContent
  <2> QED BY <2>2, <2>3
<1>6. CASE p \in StartExecution(plan)
  <2>1. /\ p = [plan EXCEPT !.status = "running"] /\ plan.status = "scheduled"
        /\ plan.pre \notin {"failed", "pending"}
    BY <1>6 DEF StartExecution, When
  <2>2. /\ p \in PlanRecord /\ SameContent(p, plan) /\ p.status = "running" /\ p.pre = plan.pre
        /\ p.checks = plan.checks /\ p.approval = plan.approval
    BY <1>1, <2>1, WithStatus DEF PlanStatuses
  <2>3. Recorded(p.pre)
    BY <1>2, <2>1, <2>2 DEF CheckResults, Recorded
  <2> QED BY <1>1, <1>3, <1>4, <2>1, <2>2, <2>3, StatusIsProper DEF Approved, SameContent
<1>7. CASE p \in Complete(plan)
  <2>1. /\ p = [plan EXCEPT !.status = "completed"] /\ plan.status = "running"
        /\ DOMAIN plan.changes \subseteq DOMAIN plan.log
        /\ \A c \in DOMAIN plan.log : plan.log[c] # "failed"
        /\ plan.post \notin {"pending", "failed"}
    BY <1>7 DEF Complete, When
  <2>2. /\ p \in PlanRecord /\ SameContent(p, plan) /\ p.status = "completed" /\ p.pre = plan.pre
        /\ p.checks = plan.checks /\ p.approval = plan.approval /\ p.log = plan.log
        /\ p.post = plan.post
    <3>1. "completed" \in PlanStatuses
      BY DEF PlanStatuses, Finished
    <3> QED BY <1>1, <2>1, <3>1, WithStatus
  <2>3. Recorded(p.pre) /\ Recorded(p.post)
    BY <1>2, <1>3, <2>1, <2>2 DEF CheckResults, Recorded, SanePlan
  <2>4. DOMAIN p.changes \subseteq DOMAIN p.log /\ \A c \in DOMAIN p.log : p.log[c] # "failed"
    BY <2>1, <2>2 DEF SameContent
  <2> QED BY <1>1, <1>3, <1>4, <2>1, <2>2, <2>3, <2>4, StatusIsProper DEF Approved, SameContent
<1>8. CASE p \in Fail(plan) \/ p \in Rollback(plan)
  <2>1. PICK s \in {"failed", "rolled-back"} :
          p = [plan EXCEPT !.status = s] /\ plan.status \in {"running", "failed"}
    BY <1>8 DEF Fail, Rollback, When
  <2>2. /\ p \in PlanRecord /\ SameContent(p, plan) /\ p.status = s /\ p.pre = plan.pre
        /\ p.checks = plan.checks /\ p.approval = plan.approval
    BY <1>1, <2>1, WithStatus DEF PlanStatuses, Finished
  <2> QED BY <1>1, <1>3, <1>4, <2>1, <2>2, StatusIsProper DEF Approved, SameContent
<1>9. CASE \E c \in planner[u].page.open : p \in Checkpoint(plan, c)
  <2>1. PICK c \in planner[u].page.open, r \in {"done", "failed"} :
          /\ plan.status = "running" /\ c \in DOMAIN plan.changes
          /\ p = [plan EXCEPT !.log = With(@, c, r)]
    BY <1>9 DEF Checkpoint, When
  <2>2. c \in ChangeIds
    BY CurrentPage, <2>1 DEF PageRecord
  <2>3. PICK log \in Checkpoints : log = With(plan.log, c, r)
    <3>1. PICK ids \in SUBSET ChangeIds : plan.log \in [ids -> {"done", "failed"}]
      BY <1>2 DEF Checkpoints
    <3>2. With(plan.log, c, r) \in [ids \cup {c} -> {"done", "failed"}]
      BY <3>1 DEF With
    <3>3. ids \cup {c} \in SUBSET ChangeIds
      BY <2>2
    <3> QED BY <3>2, <3>3 DEF Checkpoints
  <2>4. /\ p \in PlanRecord /\ SameContent(p, plan) /\ p.status = "running" /\ p.pre = plan.pre
        /\ p.checks = plan.checks /\ p.approval = plan.approval
    BY <1>1, <2>1, <2>3 DEF PlanRecord, SameContent
  <2>5. Recorded(p.pre)
    BY <1>3, <2>1, <2>4 DEF SanePlan
  <2> QED BY <1>1, <1>3, <1>4, <2>1, <2>4, <2>5, StatusIsProper DEF Approved, SameContent
<1>10. CASE p \in Cancel(plan)
  <2>1. p = [plan EXCEPT !.status = "cancelled"]
    BY <1>10 DEF Cancel, When
  <2>2. /\ p \in PlanRecord /\ SameContent(p, plan) /\ p.status = "cancelled" /\ p.pre = plan.pre
        /\ p.checks = plan.checks
    BY <1>1, <2>1, WithStatus DEF PlanStatuses, Finished
  <2> QED BY <1>1, <1>4, <2>1, <2>2, StatusIsProper DEF Approved
<1> QED BY <1>5, <1>6, <1>7, <1>8, <1>9, <1>10 DEF Executed

\* A change gets the first free id.
LEMMA FirstFreeIs ==
    ASSUME NEW p, FreeIds(p) # {}
    PROVE  FirstFree(p) \in FreeIds(p)
<1> DEFINE free == FreeIds(p)
           smaller == OpToRel(<, Nat)
<1>1. free \in SUBSET Nat /\ free # {}
  BY PlanAssumption DEF FreeIds
<1>2. IsWellFoundedOn(smaller, Nat)
  BY NatLessThanWellFounded, Zenon
<1>3. \A x, y \in Nat : <<x, y>> \in smaller <=> x < y
  BY DEF OpToRel
<1>4. FirstFree(p) = CHOOSE c \in free : \A d \in free : c <= d
  BY DEF FirstFree
<1> HIDE DEF smaller, free
<1>5. PICK n \in free : \A m \in free : ~(<<m, n>> \in smaller)
  BY <1>1, <1>2, WFMin
<1>6. n \in Nat /\ \A m \in free : m \in Nat /\ ~(m < n)
  BY <1>1, <1>3, <1>5
<1>7. \A m \in free : n <= m
  BY <1>6
<1>8. FirstFree(p) \in free
  BY <1>4, <1>5, <1>7
<1> QED BY <1>8 DEF free

\* An operation that takes the plan back to a draft.
LEMMA DraftIsProper ==
    ASSUME PlanInv, HasPlan, NEW p \in PlanRecord, NEW tell, p.status = "draft",
           p.rev = plan.rev, p.incident = plan.incident, p.checks = plan.checks, p.pre = plan.pre
    PROVE  Proper(p, {}, tell)
<1>1. PlanTypes
  BY DEF PlanInv
<1>2. Merged(p, {}).status = "draft"
  BY <1>1, MergedIs
<1>3. SanePlan(Merged(p, {})) /\ SeenByApprover(p)
  BY <1>2 DEF SanePlan, SeenByApprover, Approved
<1> QED BY <1>3 DEF Proper, Made, Heard, Finished

\* What stays of the plan then.
BackToDraft(p) ==
    /\ p \in PlanRecord /\ p.status = "draft" /\ p.rev = plan.rev /\ p.incident = plan.incident
    /\ p.checks = plan.checks /\ p.pre = plan.pre

LEMMA AddIs ==
    ASSUME PlanTypes, HasPlan, FreeIds(plan) # {}, added < MaxChanges, NEW p \in AddChange(plan)
    PROVE  BackToDraft(p)
<1>1. plan \in PlanRecord /\ plan.changes \in ChangeMaps /\ added \in Nat
  BY PlanIs DEF PlanTypes, PlanRecord
<1>2. FirstFree(plan) \in ChangeIds
  BY FirstFreeIs DEF FreeIds
<1>3. PICK changes \in ChangeMaps : changes = With(plan.changes, FirstFree(plan), added + 1)
  <2>1. PICK ids \in SUBSET ChangeIds : plan.changes \in [ids -> 1 .. MaxChanges]
    BY <1>1 DEF ChangeMaps
  <2>2. added + 1 \in 1 .. MaxChanges
    BY <1>1, PlanAssumption
  <2>3. With(plan.changes, FirstFree(plan), added + 1) \in [ids \cup {FirstFree(plan)} -> 1 .. MaxChanges]
    BY <2>1, <2>2 DEF With
  <2>4. ids \cup {FirstFree(plan)} \in SUBSET ChangeIds
    BY <1>2
  <2> QED BY <2>3, <2>4 DEF ChangeMaps
<1>4. p = [plan EXCEPT !.changes = changes, !.status = "draft"]
  BY <1>1, <1>3 DEF AddChange, PlanRecord
<1> QED BY <1>1, <1>4 DEF BackToDraft, PlanRecord, PlanStatuses

LEMMA RemoveIs ==
    ASSUME PlanTypes, HasPlan, NEW c, NEW p \in RemoveChange(plan, c)
    PROVE  BackToDraft(p)
<1>1. plan \in PlanRecord /\ plan.changes \in ChangeMaps /\ plan.ordered \in BOOLEAN
  BY PlanIs DEF PlanTypes, PlanRecord
<1> DEFINE rest == DOMAIN plan.changes \ {c}
<1>2. PICK changes \in ChangeMaps : changes = [d \in rest |-> plan.changes[d]]
  <2>1. PICK ids \in SUBSET ChangeIds : plan.changes \in [ids -> 1 .. MaxChanges]
    BY <1>1 DEF ChangeMaps
  <2>2. [d \in rest |-> plan.changes[d]] \in [rest -> 1 .. MaxChanges] /\ rest \in SUBSET ChangeIds
    BY <2>1
  <2> QED BY <2>2 DEF ChangeMaps
<1>3. PICK ok \in BOOLEAN : p = [plan EXCEPT !.changes = changes, !.ordered = ok, !.status = "draft"]
  <2>1. PICK ok \in IF rest = {} THEN {TRUE} ELSE {plan.ordered, FALSE} :
          p = [plan EXCEPT !.changes = changes, !.ordered = ok, !.status = "draft"]
    BY <1>2 DEF RemoveChange
  <2>2. ok \in BOOLEAN
    BY <1>1, <2>1
  <2> QED BY <2>1, <2>2
<1> QED BY <1>1, <1>3 DEF BackToDraft, PlanRecord, PlanStatuses

LEMMA AddIsProper ==
    ASSUME PlanInv, HasPlan, FreeIds(plan) # {}, added < MaxChanges, NEW p \in AddChange(plan), NEW tell
    PROVE  p \in PlanRecord /\ Proper(p, {}, tell)
<1>1. BackToDraft(p)
  BY AddIs DEF PlanInv
<1> QED BY <1>1, DraftIsProper DEF BackToDraft

LEMMA RemoveIsProper ==
    ASSUME PlanInv, HasPlan, NEW c, NEW p \in RemoveChange(plan, c), NEW tell
    PROVE  p \in PlanRecord /\ Proper(p, {}, tell)
<1>1. BackToDraft(p)
  BY RemoveIs DEF PlanInv
<1> QED BY <1>1, DraftIsProper DEF BackToDraft

LEMMA AnalysedIsProper ==
    ASSUME PlanInv, HasPlan, NEW tell
    PROVE  /\ AnalysePlan(plan) \in PlanRecord /\ {plan.changes} \in SUBSET ChangeMaps
           /\ Proper(AnalysePlan(plan), {plan.changes}, tell)
<1>1. PlanTypes /\ plan \in PlanRecord /\ {plan.changes} \in SUBSET ChangeMaps
  BY PlanIs DEF PlanInv, PlanTypes, PlanRecord
<1>2. PICK p : p = AnalysePlan(plan)
  OBVIOUS
<1>3. /\ p \in PlanRecord /\ SameContent(p, plan) /\ p.status = "analysed"
      /\ p.checks = plan.checks /\ p.pre = plan.pre
  BY <1>1, <1>2, WithStatus DEF AnalysePlan, PlanStatuses
<1>4. PICK m : m = Merged(p, {plan.changes})
  OBVIOUS
<1>5. m.status = "analysed" /\ m.changes = plan.changes /\ m.assessed = {plan.changes}
  BY <1>1, <1>3, <1>4, MergedIs DEF SameContent
<1>6. SanePlan(m) /\ SeenByApprover(p)
  BY <1>3, <1>5 DEF SanePlan, SeenByApprover, Approved
<1>7. Made(plan, p)
  BY <1>3 DEF Made, SameContent
<1> QED BY <1>1, <1>2, <1>3, <1>4, <1>6, <1>7 DEF Proper, Heard, Finished

---------------------------------------------------------------------------
(* ChangePlans: requests begin                                             *)

LEMMA ReviewKeepsInv ==
    ASSUME PlanInv, planCrossed' = 0, NEW u \in Planners, Review(u)
    PROVE  PlanInv'
<1>1. FormIsCurrent(u) /\ HasPlan /\ added' = added /\ added \in Nat
  BY DEF Review, FormIsCurrent, PlanInv, PlanTypes
<1>2. PICK p : /\ Reviewed(p, planner[u].page.changes)
               /\ Begins(u, "loading", p, {}, "none")
  BY DEF Review, Reviewed
<1>3. p \in PlanRecord /\ Proper(p, {}, "none")
  BY <1>1, <1>2, ReviewIsProper
<1>4. {} \in SUBSET ChangeMaps /\ "none" \in Tells
  BY DEF Tells
<1>5. /\ Made(plan, p) /\ SanePlan(Merged(p, {})) /\ (planDeaths = 0 => SeenByApprover(p))
      /\ planDeaths = 0 /\ Heard(p) => p.status \in told \cup {"none"}
  BY <1>3 DEF Proper
<1> QED BY <1>1, <1>2, <1>3, <1>4, <1>5, BeginKeepsInv

LEMMA ExecuteKeepsInv ==
    ASSUME PlanInv, planCrossed' = 0, NEW u \in Planners, Execute(u)
    PROVE  PlanInv'
<1>1. FormIsCurrent(u) /\ HasPlan /\ added' = added /\ added \in Nat
  BY DEF Execute, FormIsCurrent, PlanInv, PlanTypes
<1>2. PICK p, tell :
        /\ Executed(p, planner[u].page)
        /\ tell = IF plan.incident /\ p.status # plan.status THEN p.status ELSE "none"
        /\ Begins(u, "loading", p, {}, tell)
  BY DEF Execute, Executed
<1>3. p \in PlanRecord /\ Proper(p, {}, tell)
  <2>1. \A v \in Planners : planner[v].pc = "rest"
    BY <1>2, BeginsAlone DEF PlanInv
  <2> QED BY <1>1, <1>2, <2>1, ExecutedIsProper
<1>4. tell \in Tells
  BY <1>2, <1>3 DEF Tells, PlanRecord
<1>5. /\ Made(plan, p) /\ SanePlan(Merged(p, {})) /\ (planDeaths = 0 => SeenByApprover(p))
      /\ planDeaths = 0 /\ Heard(p) => p.status \in told \cup {tell}
  BY <1>3 DEF Proper
<1>6. {} \in SUBSET ChangeMaps
  OBVIOUS
<1> QED BY <1>1, <1>2, <1>3, <1>4, <1>5, <1>6, BeginKeepsInv

LEMMA EditKeepsInv ==
    ASSUME PlanInv, planCrossed' = 0, NEW u \in Planners, EditChanges(u)
    PROVE  PlanInv'
<1>1. HasPlan /\ added \in Nat /\ "none" \in Tells
  BY DEF EditChanges, PlanInv, PlanTypes, Tells
<1>2. PICK p, fresh :
        /\ p \in PlanRecord /\ fresh \in SUBSET ChangeMaps /\ Proper(p, fresh, "none")
        /\ Begins(u, "checking", p, fresh, "none")
        /\ added' \in {added, added + 1}
  <2>1. CASE /\ FreeIds(plan) # {} /\ added < MaxChanges
             /\ \E p \in AddChange(plan) : Begins(u, "checking", p, {}, "none")
             /\ added' = added + 1
    <3>1. PICK p \in AddChange(plan) : Begins(u, "checking", p, {}, "none")
      BY <2>1
    <3>2. p \in PlanRecord /\ Proper(p, {}, "none")
      BY <1>1, <2>1, AddIsProper
    <3>3. {} \in SUBSET ChangeMaps
      OBVIOUS
    <3> QED BY <2>1, <3>1, <3>2, <3>3
  <2>2. CASE /\ \E c \in DOMAIN planner[u].page.changes : \E p \in RemoveChange(plan, c) :
                  Begins(u, "checking", p, {}, "none")
             /\ UNCHANGED added
    <3>1. PICK c, p : p \in RemoveChange(plan, c) /\ Begins(u, "checking", p, {}, "none")
      BY <2>2
    <3>2. p \in PlanRecord /\ Proper(p, {}, "none")
      BY <1>1, <3>1, RemoveIsProper
    <3>3. {} \in SUBSET ChangeMaps
      OBVIOUS
    <3> QED BY <2>2, <3>1, <3>2, <3>3
  <2>3. CASE /\ plan.changes # <<>>
             /\ Begins(u, "checking", AnalysePlan(plan), {plan.changes}, "none")
             /\ UNCHANGED added
    BY <1>1, <2>3, AnalysedIsProper
  <2> QED BY <2>1, <2>2, <2>3 DEF EditChanges
<1>3. added' \in Nat
  BY <1>1, <1>2
<1>4. /\ Made(plan, p) /\ SanePlan(Merged(p, fresh)) /\ (planDeaths = 0 => SeenByApprover(p))
      /\ planDeaths = 0 /\ Heard(p) => p.status \in told \cup {"none"}
  BY <1>2 DEF Proper
<1> QED BY <1>1, <1>2, <1>3, <1>4, BeginKeepsInv

LEMMA ArchiveKeepsInv ==
    ASSUME PlanInv, planCrossed' = 0, NEW u \in Planners, Archive(u)
    PROVE  PlanInv'
<1>1. /\ HasPlan /\ plan \in PlanRecord /\ PlanTypes /\ added' \in Nat /\ "none" \in Tells
      /\ plan.assessed \in SUBSET ChangeMaps
  BY PlanIs DEF Archive, PlanInv, PlanTypes, PlanRecord, Tells
<1>2. Begins(u, "loading", plan, plan.assessed, "none")
  BY DEF Archive
<1>3. \A v \in Planners : planner[v].pc = "rest"
  BY <1>1, <1>2, BeginsAlone
<1>4. /\ SanePlan(plan) /\ (planDeaths = 0 => SeenByApprover(plan))
      /\ planDeaths = 0 /\ Heard(plan) => plan.status \in told \cup {"none"}
  BY <1>1, <1>3 DEF PlanInv, PlanFileInv
<1>5. PICK m : m = Merged(plan, plan.assessed)
  OBVIOUS
<1>6. /\ m.assessed = plan.assessed /\ m.status = plan.status /\ m.changes = plan.changes
      /\ m.pre = plan.pre /\ m.post = plan.post /\ m.log = plan.log
  BY <1>1, <1>5, MergedIs
<1>7. SanePlan(m)
  BY <1>4, <1>6 DEF SanePlan
<1>8. Made(plan, plan)
  BY <1>1 DEF Made
<1> QED BY <1>1, <1>2, <1>4, <1>5, <1>7, <1>8, BeginKeepsInv

LEMMA CreateKeepsInv ==
    ASSUME PlanInv, planCrossed' = 0, NEW u \in Planners, CreatePlan(u)
    PROVE  PlanInv'
<1>1. /\ ~HasPlan /\ PlanTypes /\ added' \in Nat /\ saves \in Nat
      /\ Begins(u, "loading", NewPlan, {}, "none")
  BY DEF CreatePlan, PlanInv, PlanTypes
<1>2. /\ \A v \in Planners : planner[v].pc = "rest"
      /\ UNCHANGED <<plan, told, saves, planDeaths>> /\ planCrossed' \in Nat
  BY <1>1, BeginsAlone DEF Begins
<1>3. PICK r \in PlannerRecord :
        /\ planner' = [planner EXCEPT ![u] = r]
        /\ r.page = planner[u].page
        /\ r.pc = "loading" /\ r.work = NewPlan /\ r.fresh = {} /\ r.tell = "none"
  <2>1. PICK old \in PlannerRecord : old = planner[u]
    BY <1>1 DEF PlanTypes
  <2>2. PICK r : r = [old EXCEPT !.pc = "loading", !.work = NewPlan, !.fresh = {}, !.tell = "none"]
    OBVIOUS
  <2>3. NewPlan \in PlanRecord /\ "none" \in Tells
    BY NewPlanIs DEF Tells
  <2>4. /\ r \in PlannerRecord /\ r.page = old.page
        /\ r.pc = "loading" /\ r.work = NewPlan /\ r.fresh = {} /\ r.tell = "none"
    BY <2>2, <2>3 DEF PlannerRecord
  <2>5. planner' = [planner EXCEPT ![u] = r]
    BY <1>1, <2>1, <2>2 DEF Begins, PlanTypes
  <2> QED BY <2>1, <2>4, <2>5
<1>4. PICK p : p = Merged(NewPlan, {})
  OBVIOUS
<1>5. {} \in SUBSET ChangeMaps
  OBVIOUS
<1>6. /\ p \in PlanRecord /\ p.rev = NewPlan.rev + 1 /\ p.status = NewPlan.status
      /\ p.pre = NewPlan.pre /\ p.checks = NewPlan.checks
  BY <1>1, <1>4, <1>5, NewPlanIs, MergedIs
<1>7. p.rev = 1 /\ p.status = "draft" /\ p.pre = "none" /\ p.checks = 0
  BY <1>6, NewPlanIs
<1>8. \A v \in Planners : PageBefore(planner[v].page, p)
  BY <1>1, <1>2, <1>7 DEF PlanInv, PagesOfPlan, PageBefore
<1>9. SanePlan(p) /\ SeenByApprover(p) /\ ~Heard(p) /\ p.checks <= saves + 1
  BY <1>1, <1>7 DEF SanePlan, SeenByApprover, Heard, Approved, Finished
<1>10. ToWrite(r) = p
  BY <1>3, <1>4 DEF ToWrite
<1>11. WorkInv(r)
  BY <1>1, <1>3, <1>7, <1>8, <1>9, <1>10, NewPlanIs DEF WorkInv
<1> QED BY <1>1, <1>2, <1>3, <1>11, PlannerStep

---------------------------------------------------------------------------
(* ChangePlans: the save                                                   *)

LEMMA CheckEditKeepsInv ==
    ASSUME PlanInv, NEW u \in Planners, CheckEdit(u)
    PROVE  PlanInv'
<1>1. PlanTypes /\ planner[u].pc = "checking"
  BY DEF PlanInv, CheckEdit
<1>2. PICK old \in PlannerRecord : old = planner[u]
  BY <1>1 DEF PlanTypes
<1>3. PICK pc \in {"loading", "rest"} : pc = IF HasPlan => FormIsCurrent(u) THEN "loading" ELSE "rest"
  OBVIOUS
<1>4. PICK r : r = [old EXCEPT !.pc = pc]
  OBVIOUS
<1>5. /\ r \in PlannerRecord /\ r.page = old.page /\ r.pc = pc /\ r.work = old.work
      /\ r.fresh = old.fresh /\ r.tell = old.tell
  BY <1>4 DEF PlannerRecord
<1>6. planner' = [planner EXCEPT ![u] = r]
  BY <1>1, <1>2, <1>3, <1>4 DEF CheckEdit, PlanTypes
<1>7. /\ UNCHANGED <<plan, told, saves, planDeaths>> /\ added' \in Nat /\ planCrossed' \in Nat
      /\ \A v \in Planners : v # u => planner[v].pc = "rest"
  BY <1>1, OthersRest DEF CheckEdit, PlanTypes
<1>8. WorkInv(old)
  BY <1>1, <1>2 DEF PlanInv, RequestsOfPlan, Saving
<1>9. ASSUME pc = "loading"
      PROVE  WorkInv(r)
  <2>1. ToWrite(r) = ToWrite(old)
    BY <1>1, <1>2, <1>5, <1>9 DEF ToWrite
  <2> QED BY <1>1, <1>2, <1>5, <1>8, <1>9, <2>1 DEF WorkInv
<1>10. r.pc \in Saving => WorkInv(r)
  BY <1>5, <1>9 DEF Saving
<1>11. r.pc # "linking" /\ planner[u].pc # "telling" /\ planner[u].pc # "writing"
  BY <1>1, <1>3, <1>5
<1> QED BY <1>2, <1>5, <1>6, <1>7, <1>10, <1>11, PlannerStep

LEMMA LoadKeepsInv ==
    ASSUME PlanInv, NEW u \in Planners, LoadEntries(u)
    PROVE  PlanInv'
<1>1. PlanTypes /\ planner[u].pc = "loading"
  BY DEF PlanInv, LoadEntries
<1>2. PICK old \in PlannerRecord : old = planner[u]
  BY <1>1 DEF PlanTypes
<1>3. WorkInv(old) /\ old.work \in PlanRecord /\ old.fresh \in SUBSET ChangeMaps
  BY <1>1, <1>2 DEF PlanInv, RequestsOfPlan, Saving, WorkInv, PlannerRecord
<1>4. PICK p \in PlanRecord : p = Merged(old.work, old.fresh)
  BY <1>1, <1>3, MergedIs
<1>5. PICK r : r = [old EXCEPT !.pc = "truncating", !.work = p]
  OBVIOUS
<1>6. /\ r \in PlannerRecord /\ r.page = old.page /\ r.pc = "truncating" /\ r.work = p
      /\ r.fresh = old.fresh /\ r.tell = old.tell
  BY <1>5 DEF PlannerRecord
<1>7. planner' = [planner EXCEPT ![u] = r]
  BY <1>1, <1>2, <1>4, <1>5 DEF LoadEntries, PlanTypes, Merged, PlannerRecord
<1>8. /\ UNCHANGED <<plan, told, saves, planDeaths>> /\ added' \in Nat /\ planCrossed' \in Nat
      /\ \A v \in Planners : v # u => planner[v].pc = "rest"
  BY <1>1, OthersRest DEF LoadEntries, PlanTypes
<1>9. ToWrite(r) = ToWrite(old)
  BY <1>1, <1>2, <1>4, <1>6 DEF ToWrite
<1>10. WorkInv(r)
  BY <1>1, <1>2, <1>3, <1>4, <1>6, <1>9 DEF WorkInv
<1> QED BY <1>1, <1>2, <1>6, <1>7, <1>8, <1>10, PlannerStep

LEMMA LinkKeepsInv ==
    ASSUME PlanInv, NEW u \in Planners, LinkPlan(u)
    PROVE  PlanInv'
<1>1. PlanTypes /\ planner[u].pc = "linking" /\ LinkInv(planner[u]) /\ saves \in Nat
  BY DEF PlanInv, RequestsOfPlan, LinkPlan, PlanTypes
<1>2. PICK old \in PlannerRecord : old = planner[u]
  BY <1>1 DEF PlanTypes
<1>3. PICK work \in PlanRecord \cup {NoPlan} : work = IF HasPlan THEN [plan EXCEPT !.incident = TRUE] ELSE NoPlan
  <2>1. HasPlan => [plan EXCEPT !.incident = TRUE] \in PlanRecord
    BY <1>1, PlanIs DEF PlanRecord
  <2> QED BY <2>1
<1>4. PICK r : r = [old EXCEPT !.pc = IF HasPlan THEN "loading" ELSE "rest", !.work = work,
                               !.tell = IF HasPlan THEN "linked" ELSE "none"]
  OBVIOUS
<1>5. /\ r \in PlannerRecord /\ r.page = old.page /\ r.work = work /\ r.fresh = old.fresh
      /\ r.pc = IF HasPlan THEN "loading" ELSE "rest"
  BY <1>4 DEF PlannerRecord, Tells
<1>6. planner' = [planner EXCEPT ![u] = r]
  BY <1>1, <1>2, <1>3, <1>4 DEF LinkPlan, PlanTypes
<1>7. /\ UNCHANGED <<plan, told, saves, planDeaths>> /\ added' \in Nat /\ planCrossed' \in Nat
      /\ \A v \in Planners : v # u => planner[v].pc = "rest"
  BY <1>1, OthersRest DEF LinkPlan, PlanTypes
<1>8. ASSUME HasPlan
      PROVE  WorkInv(r)
  <2>1. plan \in PlanRecord
    BY <1>1, <1>8, PlanIs
  <2>2. /\ work \in PlanRecord /\ work.rev = plan.rev /\ work.status = plan.status
        /\ work.changes = plan.changes /\ work.pre = plan.pre /\ work.post = plan.post
        /\ work.checks = plan.checks /\ work.log = plan.log /\ work.approval = plan.approval
    BY <1>3, <1>8, <2>1 DEF PlanRecord
  <2>3. r.fresh = {} /\ {} \in SUBSET ChangeMaps
    BY <1>1, <1>2, <1>5 DEF LinkInv
  <2>4. PICK p : p = Merged(work, {})
    OBVIOUS
  <2>5. /\ p \in PlanRecord /\ p.rev = plan.rev + 1 /\ p.assessed = plan.assessed
        /\ p.status = plan.status /\ p.changes = plan.changes /\ p.pre = plan.pre
        /\ p.post = plan.post /\ p.checks = plan.checks /\ p.log = plan.log
        /\ p.approval = plan.approval
    BY <1>1, <1>8, <2>2, <2>3, <2>4, MergedIs
  <2>6. /\ plan.rev >= 1 /\ plan.rev \in Nat /\ plan.checks <= saves /\ plan.checks \in Nat
        /\ SanePlan(plan) /\ (planDeaths = 0 => SeenByApprover(plan) /\ plan.status = "draft")
    BY <1>1, <1>8, <2>1 DEF PlanInv, PlanFileInv, PlanRecord, LinkInv
  <2>7. SanePlan(p) /\ (planDeaths = 0 => SeenByApprover(p) /\ ~Heard(p))
    BY <2>5, <2>6 DEF SanePlan, SeenByApprover, Heard, Finished
  <2>8. \A v \in Planners : PageBefore(planner[v].page, p)
    <3> SUFFICES ASSUME NEW v \in Planners PROVE PageBefore(planner[v].page, p)
      OBVIOUS
    <3>1. planner[v].page.rev \in Nat
      BY <1>1 DEF PlanTypes, PlannerRecord, PageRecord
    <3>2. PageOf(planner[v].page, plan)
      BY <1>8 DEF PlanInv, PlanFileInv
    <3> QED BY <2>5, <2>6, <3>1, <3>2 DEF PageOf, PageBefore
  <2>9. p.rev >= 1 /\ p.rev # 1 /\ p.checks <= saves + 1
    BY <1>1, <2>5, <2>6
  <2>10. ToWrite(r) = p /\ r.pc = "loading"
    BY <1>5, <1>8, <2>3, <2>4 DEF ToWrite
  <2> QED BY <1>5, <2>2, <2>5, <2>7, <2>8, <2>9, <2>10 DEF WorkInv
<1>9. r.pc \in Saving => WorkInv(r)
  BY <1>5, <1>8 DEF Saving
<1>10. r.pc # "linking" /\ planner[u].pc # "telling" /\ planner[u].pc # "writing"
  BY <1>1, <1>5
<1> QED BY <1>2, <1>5, <1>6, <1>7, <1>9, <1>10, PlannerStep

LEMMA TruncateKeepsInv ==
    ASSUME PlanInv, NEW u \in Planners, TruncatePlans(u)
    PROVE  PlanInv'
<1>1. /\ PlanTypes /\ planner[u].pc = "truncating" /\ plan' = TornPlan
      /\ UNCHANGED <<told, added, saves, planDeaths, planCrossed>>
      /\ \A v \in Planners : v # u => planner[v].pc = "rest"
  BY OthersRest DEF PlanInv, TruncatePlans
<1>2. PICK old \in PlannerRecord : old = planner[u]
  BY <1>1 DEF PlanTypes
<1>3. PICK r : r = [old EXCEPT !.pc = "writing"]
  OBVIOUS
<1>4. /\ r \in PlannerRecord /\ r.page = old.page /\ r.pc = "writing" /\ r.work = old.work
      /\ r.fresh = old.fresh /\ r.tell = old.tell
  BY <1>3 DEF PlannerRecord
<1>5. planner' = [planner EXCEPT ![u] = r]
  BY <1>1, <1>2, <1>3 DEF TruncatePlans, PlanTypes
<1>6. /\ \A v \in Planners : planner'[v] = IF v = u THEN r ELSE planner[v]
      /\ \A v \in Planners : planner'[v].page = planner[v].page
  BY <1>1, <1>2, <1>4, <1>5 DEF PlanTypes
<1>7. PlanTypes'
  BY <1>1, <1>4, <1>5 DEF PlanTypes
<1>8. OneRequest'
  BY <1>1, <1>6, OneRequestStays
<1>9. ~HasPlan'
  BY <1>1 DEF HasPlan
<1>10. PlanFileInv' /\ PagesOfPlan'
  BY <1>1, <1>4, <1>6, <1>9 DEF PlanInv, PlanFileInv, PagesOfPlan
<1>11. RequestsOfPlan'
  <2>1. WorkInv(old)
    BY <1>1, <1>2 DEF PlanInv, RequestsOfPlan, Saving
  <2>2. ToWrite(old) = old.work
    BY <1>1, <1>2 DEF ToWrite
  <2>3. planner'[u] = r /\ (ToWrite(planner[u]))' = old.work
    BY <1>4, <1>6 DEF ToWrite
  <2>4. WorkInv(planner[u])'
    BY <1>1, <1>4, <1>6, <2>1, <2>2, <2>3 DEF WorkInv, PageBefore
  <2> QED BY <1>4, <1>6, <1>1, <2>4 DEF RequestsOfPlan, Saving
<1> QED BY <1>7, <1>8, <1>10, <1>11 DEF PlanInv

LEMMA WriteKeepsInv ==
    ASSUME PlanInv, NEW u \in Planners, WritePlan(u)
    PROVE  PlanInv'
<1>1. /\ PlanTypes /\ planner[u].pc = "writing" /\ saves' = saves + 1 /\ saves \in Nat
      /\ UNCHANGED <<told, added, planDeaths, planCrossed>>
      /\ \A v \in Planners : v # u => planner[v].pc = "rest"
  BY OthersRest DEF PlanInv, PlanTypes, WritePlan
<1>2. PICK old \in PlannerRecord : old = planner[u]
  BY <1>1 DEF PlanTypes
<1>3. WorkInv(old) /\ ToWrite(old) = old.work
  BY <1>1, <1>2 DEF PlanInv, RequestsOfPlan, Saving, ToWrite
<1>4. PICK p \in PlanRecord : p = old.work
  BY <1>3 DEF WorkInv
<1>5. /\ plan = TornPlan /\ p.rev >= 1 /\ SanePlan(p) /\ p.checks <= saves + 1
      /\ p.rev = 1 => p.status = "draft"
      /\ \A v \in Planners : PageBefore(planner[v].page, p)
      /\ planDeaths = 0 => SeenByApprover(p) /\ (Heard(p) => p.status \in told \cup {old.tell})
  BY <1>1, <1>2, <1>3, <1>4 DEF WorkInv
<1>6. plan' = p
  BY <1>2, <1>4, <1>5 DEF WritePlan
<1>7. PICK pc \in {"linking", "telling", "rest"} :
        pc = IF p.rev = 1 THEN "linking" ELSE IF old.tell # "none" THEN "telling" ELSE "rest"
  OBVIOUS
<1>8. PICK r : r = [old EXCEPT !.pc = pc, !.work = NoPlan, !.fresh = {}]
  OBVIOUS
<1>9. /\ r \in PlannerRecord /\ r.page = old.page /\ r.pc = pc /\ r.fresh = {} /\ r.tell = old.tell
  BY <1>8 DEF PlannerRecord
<1>10. planner' = [planner EXCEPT ![u] = r]
  BY <1>1, <1>2, <1>4, <1>7, <1>8 DEF WritePlan, PlanTypes
<1>11. /\ \A v \in Planners : planner'[v] = IF v = u THEN r ELSE planner[v]
       /\ \A v \in Planners : planner'[v].page = planner[v].page
  BY <1>1, <1>2, <1>9, <1>10 DEF PlanTypes
<1>12. PlanTypes'
  BY <1>1, <1>6, <1>9, <1>10 DEF PlanTypes
<1>13. OneRequest'
  BY <1>1, <1>11, OneRequestStays
<1>14. HasPlan'
  BY <1>6, PlansAreThere DEF HasPlan
<1>15. PlanFileInv'
  <2>1. SanePlan(p)' /\ p.rev >= 1 /\ p.checks <= saves'
    BY <1>1, <1>5 DEF SanePlan
  <2>2. ASSUME NEW v \in Planners
        PROVE  PageOf(planner[v].page, p)'
    <3>1. PICK page \in PageRecord : page = planner[v].page
      BY <1>1 DEF PlanTypes, PlannerRecord
    <3>2. page.rev \in Nat /\ p.rev \in Nat
      BY <3>1 DEF PageRecord, PlanRecord
    <3>3. PageBefore(page, p) /\ planner'[v].page = page
      BY <1>5, <1>11, <3>1
    <3> QED BY <1>1, <3>2, <3>3 DEF PageOf, PageBefore
  <2>3. ASSUME planDeaths = 0, Heard(p)
        PROVE  \/ p.status \in told
               \/ planner'[u].pc = "telling" /\ planner'[u].tell = p.status
    <3>1. p.status # "draft" /\ p.status # "none"
      BY <2>3 DEF Heard, Finished
    <3>2. p.rev # 1
      BY <1>5, <3>1
    <3>3. p.status \in told \/ p.status = old.tell
      BY <1>5, <2>3
    <3>4. planner'[u] = r
      BY <1>11
    <3>5. CASE p.status = old.tell
      <4>1. old.tell # "none"
        BY <3>1, <3>5
      <4>2. r.pc = "telling"
        BY <1>7, <1>9, <3>2, <4>1
      <4> QED BY <1>9, <3>4, <3>5, <4>2
    <3> QED BY <3>3, <3>5
  <2>4. ASSUME planDeaths' = 0
        PROVE  /\ SeenByApprover(plan)'
               /\ Heard(plan)' =>
                    \/ plan'.status \in told'
                    \/ \E w \in Planners : planner'[w].pc = "telling" /\ planner'[w].tell = plan'.status
    <3>1. planDeaths = 0
      BY <1>1, <2>4
    <3>2. SeenByApprover(plan)'
      BY <1>5, <1>6, <3>1 DEF SeenByApprover
    <3>3. ASSUME Heard(p)
          PROVE  \/ p.status \in told
                 \/ \E w \in Planners : planner'[w].pc = "telling" /\ planner'[w].tell = p.status
      BY <2>3, <3>1, <3>3
    <3>4. Heard(plan)' => Heard(p)
      BY <1>6 DEF Heard
    <3> QED BY <1>1, <1>6, <3>2, <3>3, <3>4
  <2>5. \A v \in Planners : PageOf(planner[v].page, plan)'
    BY <1>6, <2>2 DEF PageOf
  <2>6. plan'.rev >= 1 /\ SanePlan(plan)' /\ plan'.checks <= saves'
    BY <1>6, <2>1 DEF SanePlan
  <2> QED BY <2>4, <2>5, <2>6 DEF PlanFileInv
<1>16. RequestsOfPlan'
  <2>1. pc = "linking" => LinkInv(planner[u])'
    BY <1>5, <1>6, <1>7, <1>9, <1>11 DEF LinkInv
  <2> QED BY <1>1, <1>9, <1>11, <2>1 DEF RequestsOfPlan, Saving
<1>17. PagesOfPlan'
  <2>1. ASSUME NEW v \in Planners
        PROVE  planner'[v].page.checks <= saves'
    <3>1. planner[v].page.checks \in Nat
      BY <1>1 DEF PlanTypes, PlannerRecord, PageRecord
    <3> QED BY <1>1, <1>11, <3>1 DEF PlanInv, PagesOfPlan
  <2> QED BY <1>14, <2>1 DEF PagesOfPlan
<1> QED BY <1>12, <1>13, <1>15, <1>16, <1>17 DEF PlanInv

LEMMA TellKeepsInv ==
    ASSUME PlanInv, NEW u \in Planners, TellCase(u)
    PROVE  PlanInv'
<1>1. /\ PlanTypes /\ planner[u].pc = "telling" /\ told' = told \cup {planner[u].tell}
      /\ UNCHANGED <<plan, added, saves, planDeaths, planCrossed>>
      /\ \A v \in Planners : v # u => planner[v].pc = "rest"
  BY OthersRest DEF PlanInv, TellCase
<1>2. PICK old \in PlannerRecord : old = planner[u]
  BY <1>1 DEF PlanTypes
<1>3. PICK r : r = [old EXCEPT !.pc = "rest", !.tell = "none"]
  OBVIOUS
<1>4. r \in PlannerRecord /\ r.page = old.page /\ r.pc = "rest"
  BY <1>3 DEF PlannerRecord, Tells
<1>5. planner' = [planner EXCEPT ![u] = r]
  BY <1>1, <1>2, <1>3 DEF TellCase, PlanTypes
<1>6. /\ \A v \in Planners : planner'[v] = IF v = u THEN r ELSE planner[v]
      /\ \A v \in Planners : planner'[v].page = planner[v].page
      /\ \A v \in Planners : planner'[v].pc = "rest"
  BY <1>1, <1>2, <1>4, <1>5 DEF PlanTypes
<1>7. PlanTypes'
  BY <1>1, <1>4, <1>5 DEF PlanTypes
<1>8. OneRequest'
  BY <1>6, OneRequestStays
<1>9. PlanFileInv'
  <2>1. HasPlan' <=> HasPlan
    BY <1>1 DEF HasPlan
  <2>2. HasPlan /\ planDeaths = 0 /\ Heard(plan) => plan.status \in told'
    BY <1>1 DEF PlanInv, PlanFileInv
  <2> QED BY <1>1, <1>6, <2>1, <2>2
       DEF PlanInv, PlanFileInv, SanePlan, PageOf, SeenByApprover, Heard
<1>10. RequestsOfPlan'
  BY <1>6 DEF RequestsOfPlan, Saving
<1>11. PagesOfPlan'
  BY <1>1, <1>6 DEF PlanInv, PagesOfPlan, HasPlan
<1> QED BY <1>7, <1>8, <1>9, <1>10, <1>11 DEF PlanInv

---------------------------------------------------------------------------
(* ChangePlans: pages and deaths                                           *)

LEMMA DisplayKeepsInv ==
    ASSUME PlanInv, NEW u \in Planners, DisplayPlan(u)
    PROVE  PlanInv'
<1>1. /\ PlanTypes /\ HasPlan /\ planner[u].pc = "rest" /\ plan \in PlanRecord /\ saves \in Nat
      /\ UNCHANGED <<plan, told, added, saves, planDeaths, planCrossed>>
  BY PlanIs DEF PlanInv, PlanTypes, DisplayPlan
<1>2. PICK old \in PlannerRecord : old = planner[u]
  BY <1>1 DEF PlanTypes
<1>3. PICK page \in PageRecord : page = Shown(plan) /\ page.rev = plan.rev /\ page.checks = plan.checks
  BY <1>1, ShownIs
<1>4. PICK r : r = [old EXCEPT !.page = page]
  OBVIOUS
<1>5. /\ r \in PlannerRecord /\ r.page = page /\ r.pc = old.pc /\ r.work = old.work
      /\ r.fresh = old.fresh /\ r.tell = old.tell
  BY <1>4 DEF PlannerRecord
<1>6. planner' = [planner EXCEPT ![u] = r]
  BY <1>1, <1>2, <1>3, <1>4 DEF DisplayPlan, PlanTypes
<1>7. /\ \A v \in Planners : planner'[v] = IF v = u THEN r ELSE planner[v]
      /\ \A v \in Planners : planner'[v].pc = planner[v].pc
      /\ \A v \in Planners : v # u => planner'[v].page = planner[v].page
      /\ planner'[u].page = page /\ planner'[u].pc = "rest"
  BY <1>1, <1>2, <1>5, <1>6 DEF PlanTypes
<1>8. PlanTypes'
  BY <1>1, <1>5, <1>6 DEF PlanTypes
<1>9. OneRequest'
  <2>1. InFlight' = InFlight
    BY <1>7 DEF InFlight
  <2> QED BY <2>1 DEF PlanInv, OneRequest
<1>10. plan.rev \in Nat /\ plan.checks \in Nat /\ plan.checks <= saves
  BY <1>1 DEF PlanInv, PlanFileInv, PlanRecord
<1>11. PlanFileInv'
  <2>1. PageOf(page, plan)'
    BY <1>1, <1>3, <1>10 DEF PageOf, Shown
  <2>2. \A v \in Planners : PageOf(planner[v].page, plan)'
    <3> SUFFICES ASSUME NEW v \in Planners PROVE PageOf(planner[v].page, plan)'
      OBVIOUS
    <3>1. CASE v = u
      BY <1>7, <2>1, <3>1 DEF PageOf
    <3>2. CASE v # u
      BY <1>1, <1>7, <3>2 DEF PlanInv, PlanFileInv, PageOf, Shown
    <3> QED BY <3>1, <3>2
  <2>3. /\ plan'.rev >= 1 /\ SanePlan(plan)' /\ plan'.checks <= saves'
        /\ planDeaths' = 0 => SeenByApprover(plan)'
    BY <1>1 DEF PlanInv, PlanFileInv, SanePlan, SeenByApprover
  <2>4. planDeaths = 0 /\ Heard(plan) =>
          \/ plan.status \in told
          \/ \E w \in Planners : planner[w].pc = "telling" /\ planner[w].tell = plan.status
    BY <1>1 DEF PlanInv, PlanFileInv
  <2>5. \A w \in Planners : planner[w].pc = "telling" => planner'[w] = planner[w]
    BY <1>1, <1>7
  <2>6. planDeaths' = 0 /\ Heard(plan)' =>
          \/ plan'.status \in told'
          \/ \E w \in Planners : planner'[w].pc = "telling" /\ planner'[w].tell = plan'.status
    BY <1>1, <2>4, <2>5 DEF Heard
  <2> QED BY <2>2, <2>3, <2>6 DEF PlanFileInv
<1>12. RequestsOfPlan'
  <2>1. ASSUME NEW v \in Planners, planner'[v].pc \in Saving
        PROVE  WorkInv(planner[v])'
    <3>1. v # u /\ planner'[v] = planner[v] /\ planner[v].pc \in Saving
      BY <1>7, <2>1 DEF Saving
    <3>2. PICK w \in PlannerRecord : w = planner[v]
      BY <1>1 DEF PlanTypes
    <3>3. WorkInv(w)
      BY <3>1, <3>2 DEF PlanInv, RequestsOfPlan
    <3>4. PICK p : p = ToWrite(w)
      OBVIOUS
    <3>5. ToWrite(planner[v])' = p
      BY <1>1, <3>1, <3>2, <3>4 DEF ToWrite, Merged, HasPlan
    <3>6. p.rev = plan.rev + 1
      BY <1>1, <3>3, <3>4 DEF WorkInv, HasPlan
    <3>7. PageBefore(page, p)
      BY <1>3, <1>10, <3>6 DEF PageBefore
    <3>8. \A x \in Planners : PageBefore(planner[x].page, p)'
      <4> SUFFICES ASSUME NEW x \in Planners PROVE PageBefore(planner[x].page, p)'
        OBVIOUS
      <4>1. PageBefore(planner[x].page, p)
        BY <3>3, <3>4 DEF WorkInv
      <4> QED BY <1>1, <1>7, <3>7, <4>1 DEF PageBefore
    <3>9. /\ w.work \in PlanRecord /\ p.rev >= 1 /\ SanePlan(p) /\ p.checks <= saves + 1
          /\ p.rev = 1 => p.status = "draft"
          /\ IF w.pc = "writing" THEN plan = TornPlan ELSE HasPlan => p.rev = plan.rev + 1
          /\ planDeaths = 0 => SeenByApprover(p) /\ (Heard(p) => p.status \in told \cup {w.tell})
      BY <3>3, <3>4 DEF WorkInv
    <3> QED
      BY <1>1, <3>1, <3>2, <3>5, <3>8, <3>9 DEF WorkInv, SanePlan, SeenByApprover, Heard, HasPlan
  <2>2. ASSUME NEW v \in Planners, planner'[v].pc = "linking"
        PROVE  LinkInv(planner[v])'
    <3>1. planner'[v] = planner[v] /\ planner[v].pc = "linking"
      BY <1>7, <2>2
    <3>2. LinkInv(planner[v])
      BY <3>1 DEF PlanInv, RequestsOfPlan
    <3> QED BY <1>1, <3>1, <3>2 DEF LinkInv, HasPlan
  <2> QED BY <2>1, <2>2 DEF RequestsOfPlan
<1>13. PagesOfPlan'
  <2>1. HasPlan'
    BY <1>1 DEF HasPlan
  <2>2. \A v \in Planners : planner'[v].page.checks <= saves'
    BY <1>1, <1>3, <1>7, <1>10 DEF PlanInv, PagesOfPlan
  <2> QED BY <2>1, <2>2 DEF PagesOfPlan
<1> QED BY <1>8, <1>9, <1>11, <1>12, <1>13 DEF PlanInv

LEMMA NothingShownIs ==
    NothingShown \in PageRecord /\ NothingShown.rev = 0 /\ NothingShown.checks = 0
<1>1. <<>> \in ChangeMaps
  BY NewPlanIs DEF NewPlan, PlanRecord
<1> QED BY <1>1 DEF NothingShown, PageRecord

LEMMA DiesKeepsInv ==
    ASSUME PlanInv, PlanServerDies
    PROVE  PlanInv'
<1>1. /\ PlanTypes /\ planDeaths' = planDeaths + 1 /\ planDeaths \in Nat
      /\ UNCHANGED <<plan, told, added, saves, planCrossed>>
  BY DEF PlanInv, PlanTypes, PlanServerDies
<1>2. \A v \in Planners :
        planner'[v] = [pc |-> "rest", page |-> planner[v].page, work |-> NoPlan, fresh |-> {}, tell |-> "none"]
  BY DEF PlanServerDies, RestingPlanner
<1>3. \A v \in Planners : /\ planner'[v] \in PlannerRecord /\ planner'[v].pc = "rest"
                          /\ planner'[v].page = planner[v].page
  <2> SUFFICES ASSUME NEW v \in Planners
               PROVE  /\ planner'[v] \in PlannerRecord /\ planner'[v].pc = "rest"
                      /\ planner'[v].page = planner[v].page
    OBVIOUS
  <2>1. PICK page \in PageRecord : page = planner[v].page
    BY <1>1 DEF PlanTypes, PlannerRecord
  <2>2. PICK r : r = [pc |-> "rest", page |-> page, work |-> NoPlan, fresh |-> {}, tell |-> "none"]
    OBVIOUS
  <2>3. r \in PlannerRecord /\ r.pc = "rest" /\ r.page = page
    BY <2>2 DEF PlannerRecord, Tells
  <2> QED BY <1>2, <2>1, <2>2, <2>3
<1>4. planDeaths' \in Nat /\ planDeaths' # 0
  BY <1>1
<1>5. PlanTypes'
  <2>1. planner' = [u \in Planners |-> [RestingPlanner EXCEPT !.page = planner[u].page]]
    BY DEF PlanServerDies
  <2>2. planner' \in [Planners -> PlannerRecord]
    BY <1>3, <2>1
  <2> QED BY <1>1, <1>4, <2>2 DEF PlanTypes
<1>6. OneRequest'
  BY <1>3 DEF InFlight, OneRequest
<1>7. PlanFileInv'
  BY <1>1, <1>3, <1>4 DEF PlanInv, PlanFileInv, PageOf, HasPlan, SanePlan, Shown
<1>8. RequestsOfPlan'
  BY <1>3 DEF RequestsOfPlan, Saving
<1>9. PagesOfPlan'
  BY <1>1, <1>3, <1>4 DEF PlanInv, PagesOfPlan
<1> QED BY <1>5, <1>6, <1>7, <1>8, <1>9 DEF PlanInv

---------------------------------------------------------------------------
(* ChangePlans: what a plan records of its own way                         *)

\* A plan whose status says nothing of an execution, or that keeps the changes
\* and the marks of the one in the file.
LEMMA OwnKept ==
    ASSUME NEW p, NEW q, OwnRecord(q),
           \/ p.status \notin Approved
           \/ p.status \in Approved \ {"completed"} /\ q.status \in Approved \ {"completed"}
                /\ p.approval = q.approval,
           p.status \in {"running", "failed", "rolled-back"}
             => \/ q.status \in {"running", "failed", "rolled-back"} /\ p.pre = q.pre
                \/ p.pre # "pending"
    PROVE  OwnRecord(p)
  BY DEF OwnRecord, Approved

LEMMA ReviewedRecorded ==
    ASSUME RecordInv, HasPlan, NEW seen \in ChangeMaps, NEW p, Reviewed(p, seen)
    PROVE  p \in PlanRecord /\ OwnRecord(p)
<1>1. plan \in PlanRecord /\ OwnRecord(plan) /\ saves \in Nat
  BY PlanIs DEF RecordInv, PlanTypes
<1>2. CASE p \in Arrange(plan)
  <2>1. p = [plan EXCEPT !.ordered = TRUE, !.status = "draft"]
    BY <1>2 DEF Arrange, When
  <2>2. p \in PlanRecord /\ p.status = "draft"
    BY <1>1, <2>1 DEF PlanRecord, PlanStatuses
  <2> QED BY <2>2 DEF OwnRecord, Approved
<1>3. CASE p \in UpdateReadiness(plan)
  <2>1. PICK there \in BOOLEAN :
          /\ plan.status \in {"draft", "analysed", "in-review"}
          /\ p = [plan EXCEPT !.ready = there, !.pre = IF there THEN "pending" ELSE "none",
                              !.post = IF there THEN "pending" ELSE "none", !.checks = saves + 1]
    BY <1>3 DEF UpdateReadiness, When
  <2>2. PICK n \in Nat : n = saves + 1
    BY <1>1
  <2>3. PICK r \in CheckResults : r = IF there THEN "pending" ELSE "none"
    BY DEF CheckResults
  <2>4. p = [plan EXCEPT !.ready = there, !.pre = r, !.post = r, !.checks = n]
    BY <2>1, <2>2, <2>3
  <2>5. p \in PlanRecord /\ p.status = plan.status
    BY <1>1, <2>2, <2>4 DEF PlanRecord
  <2> QED BY <2>1, <2>5 DEF OwnRecord, Approved
<1>4. CASE p \in SubmitForReview(plan)
  <2>1. p = [plan EXCEPT !.status = "in-review"]
    BY <1>4 DEF SubmitForReview, When
  <2>2. p \in PlanRecord /\ p.status = "in-review"
    BY <1>1, <2>1, WithStatus DEF PlanStatuses
  <2> QED BY <2>2 DEF OwnRecord, Approved
<1>5. CASE p \in Decide(plan, seen)
  <2>1. PICK decision \in {"approved", "draft", "rejected"} :
          p = [plan EXCEPT !.status = decision, !.approval = {seen}]
    BY <1>5 DEF Decide, DecideReview, DecidePlan, When
  <2>2. p \in PlanRecord /\ p.status = decision /\ p.approval = {seen}
    BY <1>1, <2>1 DEF PlanRecord, PlanStatuses
  <2> QED BY <2>2 DEF OwnRecord
<1>6. CASE p \in Schedule(plan)
  <2>1. p = [plan EXCEPT !.status = "scheduled"] /\ plan.status = "approved"
    BY <1>6 DEF Schedule, When
  <2>2. p \in PlanRecord /\ p.status = "scheduled" /\ p.approval = plan.approval
    BY <1>1, <2>1, WithStatus DEF PlanStatuses
  <2> QED BY <1>1, <2>1, <2>2, OwnKept DEF Approved
<1> QED BY <1>2, <1>3, <1>4, <1>5, <1>6 DEF Reviewed

LEMMA ExecutedRecorded ==
    ASSUME RecordInv, HasPlan, NEW page \in PageRecord, NEW p, Executed(p, page)
    PROVE  p \in PlanRecord /\ OwnRecord(p)
<1>1. /\ plan \in PlanRecord /\ OwnRecord(plan) /\ plan.pre \in CheckResults
      /\ plan.post \in CheckResults /\ plan.log \in Checkpoints
  BY PlanIs DEF RecordInv, PlanRecord
<1>2. CASE \E phase \in page.due : p \in RecordCheck(plan, phase, page.checks)
  <2>1. PICK phase \in {"pre", "post"}, r \in {"passed", "failed"} :
          plan.status \in {"scheduled", "running"} /\ p = [plan EXCEPT ![phase] = r]
    BY <1>2 DEF RecordCheck, When, PageRecord
  <2>2. CASE phase = "pre"
    <3>1. /\ p \in PlanRecord /\ p.status = plan.status /\ p.pre = r
          /\ p.approval = plan.approval
      BY <1>1, <2>1, <2>2 DEF PlanRecord, CheckResults
    <3> QED BY <1>1, <2>1, <3>1, OwnKept DEF Approved
  <2>3. CASE phase = "post"
    <3>1. /\ p \in PlanRecord /\ p.status = plan.status /\ p.pre = plan.pre
          /\ p.approval = plan.approval
      BY <1>1, <2>1, <2>3 DEF PlanRecord, CheckResults
    <3> QED BY <1>1, <2>1, <3>1, OwnKept DEF Approved
  <2> QED BY <2>2, <2>3
<1>3. CASE p \in StartExecution(plan)
  <2>1. p = [plan EXCEPT !.status = "running"] /\ plan.status = "scheduled" /\ plan.pre # "pending"
    BY <1>3 DEF StartExecution, When
  <2>2. /\ p \in PlanRecord /\ p.status = "running" /\ p.pre = plan.pre
        /\ p.approval = plan.approval
    BY <1>1, <2>1, WithStatus DEF PlanStatuses
  <2> QED BY <1>1, <2>1, <2>2, OwnKept DEF Approved
<1>4. CASE p \in Complete(plan)
  <2>1. /\ p = [plan EXCEPT !.status = "completed"] /\ plan.status = "running"
        /\ DOMAIN plan.changes \subseteq DOMAIN plan.log
        /\ \A c \in DOMAIN plan.log : plan.log[c] # "failed"
        /\ plan.post \notin {"pending", "failed"}
    BY <1>4 DEF Complete, When
  <2>2. /\ p \in PlanRecord /\ p.status = "completed" /\ p.pre = plan.pre /\ p.post = plan.post
        /\ p.approval = plan.approval /\ p.log = plan.log /\ p.changes = plan.changes
    <3>1. "completed" \in PlanStatuses
      BY DEF PlanStatuses, Finished
    <3> QED BY <1>1, <2>1, <3>1, WithStatus DEF SameContent
  <2>3. p.approval # {} /\ p.pre # "pending" /\ p.post \in {"none", "passed"}
    BY <1>1, <2>1, <2>2 DEF OwnRecord, Approved, CheckResults
  <2>4. \A c \in DOMAIN plan.log : plan.log[c] \in {"done", "failed"}
    BY <1>1 DEF Checkpoints
  <2>5. \A c \in DOMAIN p.changes : c \in DOMAIN p.log /\ p.log[c] = "done"
    BY <2>1, <2>2, <2>4
  <2> QED BY <2>2, <2>3, <2>5 DEF OwnRecord
<1>5. CASE p \in Fail(plan) \/ p \in Rollback(plan)
  <2>1. PICK s \in {"failed", "rolled-back"} :
          p = [plan EXCEPT !.status = s] /\ plan.status \in {"running", "failed"}
    BY <1>5 DEF Fail, Rollback, When
  <2>2. p \in PlanRecord /\ p.status = s /\ p.pre = plan.pre /\ p.approval = plan.approval
    BY <1>1, <2>1, WithStatus DEF PlanStatuses, Finished
  <2> QED BY <1>1, <2>1, <2>2, OwnKept DEF Approved
<1>6. CASE \E c \in page.open : p \in Checkpoint(plan, c)
  <2>1. PICK c \in ChangeIds, r \in {"done", "failed"} :
          plan.status = "running" /\ p = [plan EXCEPT !.log = With(@, c, r)]
    BY <1>6 DEF Checkpoint, When, PageRecord
  <2>2. PICK log \in Checkpoints : log = With(plan.log, c, r)
    <3>1. PICK ids \in SUBSET ChangeIds : plan.log \in [ids -> {"done", "failed"}]
      BY <1>1 DEF Checkpoints
    <3>2. With(plan.log, c, r) \in [ids \cup {c} -> {"done", "failed"}]
      BY <3>1 DEF With
    <3>3. ids \cup {c} \in SUBSET ChangeIds
      OBVIOUS
    <3> QED BY <3>2, <3>3 DEF Checkpoints
  <2>3. /\ p \in PlanRecord /\ p.status = "running" /\ p.pre = plan.pre
        /\ p.approval = plan.approval
    BY <1>1, <2>1, <2>2 DEF PlanRecord
  <2> QED BY <1>1, <2>1, <2>3, OwnKept DEF Approved
<1>7. CASE p \in Cancel(plan)
  <2>1. p = [plan EXCEPT !.status = "cancelled"]
    BY <1>7 DEF Cancel, When
  <2>2. p \in PlanRecord /\ p.status = "cancelled"
    BY <1>1, <2>1, WithStatus DEF PlanStatuses, Finished
  <2> QED BY <2>2 DEF OwnRecord, Approved
<1> QED BY <1>2, <1>3, <1>4, <1>5, <1>6, <1>7 DEF Executed

\* A step of one planner that writes no plan.
LEMMA StepRecorded ==
    ASSUME RecordInv, NEW u \in Planners, NEW r \in PlannerRecord,
           planner' = [planner EXCEPT ![u] = r], plan' \in {plan, TornPlan},
           saves' = saves, planDeaths' = planDeaths, added' \in Nat, planCrossed' \in Nat,
           r.pc \in Saving => r.work \in PlanRecord /\ OwnRecord(r.work)
    PROVE  RecordInv'
<1>1. PlanTypes'
  BY DEF RecordInv, PlanTypes
<1>2. HasPlan' => OwnRecord(plan)'
  BY DEF RecordInv, HasPlan, OwnRecord
<1>3. ASSUME NEW v \in Planners, planner'[v].pc \in Saving
      PROVE  planner'[v].work \in PlanRecord /\ OwnRecord(planner[v].work)'
  <2>1. planner'[v] = IF v = u THEN r ELSE planner[v]
    BY DEF RecordInv, PlanTypes
  <2> QED BY <1>3, <2>1 DEF RecordInv, OwnRecord
<1> QED BY <1>1, <1>2, <1>3 DEF RecordInv

LEMMA BeginRecorded ==
    ASSUME RecordInv, NEW u \in Planners, NEW pc \in {"checking", "loading"},
           NEW work \in PlanRecord, NEW fresh \in SUBSET ChangeMaps, NEW tell \in Tells,
           Begins(u, pc, work, fresh, tell), added' \in Nat, OwnRecord(work)
    PROVE  RecordInv'
<1>1. PICK old \in PlannerRecord : old = planner[u]
  BY DEF RecordInv, PlanTypes
<1>2. PICK r : r = [old EXCEPT !.pc = pc, !.work = work, !.fresh = fresh, !.tell = tell]
  OBVIOUS
<1>3. r \in PlannerRecord /\ r.work = work
  BY <1>2 DEF PlannerRecord
<1>4. planner' = [planner EXCEPT ![u] = r]
  BY <1>1, <1>2 DEF Begins, RecordInv, PlanTypes
<1>5. planCrossed' \in Nat /\ UNCHANGED <<plan, saves, planDeaths>>
  BY DEF Begins, RecordInv, PlanTypes
<1> QED BY <1>3, <1>4, <1>5, StepRecorded

LEMMA RequestRecorded ==
    ASSUME RecordInv, NEW u \in Planners,
           Review(u) \/ Execute(u) \/ EditChanges(u) \/ Archive(u) \/ CreatePlan(u)
    PROVE  RecordInv'
<1>1. /\ PlanTypes /\ added \in Nat /\ "none" \in Tells /\ {} \in SUBSET ChangeMaps
      /\ planner[u].page \in PageRecord
  BY DEF RecordInv, PlanTypes, Tells, PlannerRecord
<1>2. CASE Review(u)
  <2>1. PICK p : Reviewed(p, planner[u].page.changes) /\ Begins(u, "loading", p, {}, "none")
    BY <1>2 DEF Review, Reviewed
  <2>2. HasPlan /\ added' \in Nat /\ planner[u].page.changes \in ChangeMaps
    BY <1>1, <1>2 DEF Review, FormIsCurrent, PageRecord
  <2>3. p \in PlanRecord /\ OwnRecord(p)
    BY <2>1, <2>2, ReviewedRecorded
  <2> QED BY <1>1, <2>1, <2>2, <2>3, BeginRecorded
<1>3. CASE Execute(u)
  <2>1. PICK p, tell :
          /\ Executed(p, planner[u].page) /\ Begins(u, "loading", p, {}, tell)
          /\ tell = IF plan.incident /\ p.status # plan.status THEN p.status ELSE "none"
    BY <1>3 DEF Execute, Executed
  <2>2. HasPlan /\ added' \in Nat
    BY <1>1, <1>3 DEF Execute, FormIsCurrent
  <2>3. p \in PlanRecord /\ OwnRecord(p)
    BY <1>1, <2>1, <2>2, ExecutedRecorded
  <2>4. tell \in Tells
    BY <2>1, <2>3 DEF Tells, PlanRecord
  <2> QED BY <1>1, <2>1, <2>2, <2>3, <2>4, BeginRecorded
<1>4. CASE EditChanges(u)
  <2>1. HasPlan
    BY <1>4 DEF EditChanges
  <2>2. ASSUME NEW p, BackToDraft(p), Begins(u, "checking", p, {}, "none"), added' \in Nat
        PROVE  RecordInv'
    <3>1. p \in PlanRecord /\ OwnRecord(p)
      BY <2>2 DEF BackToDraft, OwnRecord, Approved
    <3> QED BY <1>1, <2>2, <3>1, BeginRecorded
  <2>3. CASE /\ FreeIds(plan) # {} /\ added < MaxChanges
             /\ \E p \in AddChange(plan) : Begins(u, "checking", p, {}, "none")
             /\ added' = added + 1
    BY <1>1, <2>1, <2>2, <2>3, AddIs
  <2>4. CASE /\ \E c \in DOMAIN planner[u].page.changes : \E p \in RemoveChange(plan, c) :
                  Begins(u, "checking", p, {}, "none")
             /\ UNCHANGED added
    BY <1>1, <2>1, <2>2, <2>4, RemoveIs
  <2>5. CASE /\ Begins(u, "checking", AnalysePlan(plan), {plan.changes}, "none")
             /\ UNCHANGED added
    <3>1. plan \in PlanRecord /\ {plan.changes} \in SUBSET ChangeMaps
      BY <1>1, <2>1, PlanIs DEF PlanRecord
    <3>2. AnalysePlan(plan) \in PlanRecord /\ AnalysePlan(plan).status = "analysed"
      BY <3>1, WithStatus DEF AnalysePlan, PlanStatuses
    <3>3. OwnRecord(AnalysePlan(plan))
      BY <3>2 DEF OwnRecord, Approved
    <3> QED BY <1>1, <2>5, <3>1, <3>2, <3>3, BeginRecorded
  <2> QED BY <1>4, <2>3, <2>4, <2>5 DEF EditChanges
<1>5. CASE Archive(u)
  <2>1. plan \in PlanRecord /\ OwnRecord(plan) /\ plan.assessed \in SUBSET ChangeMaps
    BY <1>1, <1>5, PlanIs DEF Archive, RecordInv, PlanRecord
  <2>2. Begins(u, "loading", plan, plan.assessed, "none") /\ added' \in Nat
    BY <1>1, <1>5 DEF Archive
  <2> QED BY <1>1, <2>1, <2>2, BeginRecorded
<1>6. CASE CreatePlan(u)
  <2>1. NewPlan \in PlanRecord /\ OwnRecord(NewPlan)
    BY NewPlanIs DEF OwnRecord, Approved
  <2>2. Begins(u, "loading", NewPlan, {}, "none") /\ added' \in Nat
    BY <1>1, <1>6 DEF CreatePlan
  <2> QED BY <1>1, <2>1, <2>2, BeginRecorded
<1> QED BY <1>2, <1>3, <1>4, <1>5, <1>6

LEMMA SaveRecorded ==
    ASSUME RecordInv, NEW u \in Planners,
           \/ DisplayPlan(u) \/ CheckEdit(u) \/ LinkPlan(u) \/ LoadEntries(u) \/ TruncatePlans(u)
           \/ TellCase(u)
    PROVE  RecordInv'
<1>1. PlanTypes /\ added \in Nat /\ planCrossed \in Nat
  BY DEF RecordInv, PlanTypes
<1>2. PICK old \in PlannerRecord : old = planner[u]
  BY <1>1 DEF PlanTypes
<1>3. old.pc \in Saving => old.work \in PlanRecord /\ OwnRecord(old.work)
  BY <1>2 DEF RecordInv
<1>4. CASE DisplayPlan(u)
  <2>1. PICK page \in PageRecord : page = Shown(plan)
    BY <1>1, <1>4, PlanIs, ShownIs DEF DisplayPlan
  <2>2. PICK r : r = [old EXCEPT !.page = page]
    OBVIOUS
  <2>3. r \in PlannerRecord /\ r.pc = old.pc /\ r.work = old.work
    BY <2>2 DEF PlannerRecord
  <2>4. planner' = [planner EXCEPT ![u] = r]
    BY <1>1, <1>2, <1>4, <2>1, <2>2 DEF DisplayPlan, PlanTypes
  <2> QED BY <1>1, <1>3, <1>4, <2>3, <2>4, StepRecorded DEF DisplayPlan
<1>5. CASE CheckEdit(u)
  <2>1. PICK pc \in {"loading", "rest"} : pc = IF HasPlan => FormIsCurrent(u) THEN "loading" ELSE "rest"
    OBVIOUS
  <2>2. PICK r : r = [old EXCEPT !.pc = pc]
    OBVIOUS
  <2>3. r \in PlannerRecord /\ r.work = old.work
    BY <2>2 DEF PlannerRecord
  <2>4. planner' = [planner EXCEPT ![u] = r] /\ old.pc \in Saving
    BY <1>1, <1>2, <1>5, <2>1, <2>2 DEF CheckEdit, PlanTypes, Saving
  <2> QED BY <1>1, <1>3, <1>5, <2>3, <2>4, StepRecorded DEF CheckEdit
<1>6. CASE LinkPlan(u)
  <2>1. PICK work \in PlanRecord \cup {NoPlan} :
          /\ work = IF HasPlan THEN [plan EXCEPT !.incident = TRUE] ELSE NoPlan
          /\ HasPlan => work \in PlanRecord /\ OwnRecord(work)
    <3>1. ASSUME HasPlan
          PROVE  /\ [plan EXCEPT !.incident = TRUE] \in PlanRecord
                 /\ OwnRecord([plan EXCEPT !.incident = TRUE])
      <4>1. plan \in PlanRecord /\ OwnRecord(plan)
        BY <1>1, <3>1, PlanIs DEF RecordInv
      <4>2. PICK work : work = [plan EXCEPT !.incident = TRUE]
        OBVIOUS
      <4>3. /\ work \in PlanRecord /\ work.status = plan.status /\ work.changes = plan.changes
            /\ work.approval = plan.approval /\ work.pre = plan.pre /\ work.post = plan.post
            /\ work.log = plan.log
        BY <4>1, <4>2 DEF PlanRecord
      <4> QED BY <4>1, <4>2, <4>3 DEF OwnRecord
    <3> QED BY <3>1
  <2>2. PICK r : r = [old EXCEPT !.pc = IF HasPlan THEN "loading" ELSE "rest", !.work = work,
                                 !.tell = IF HasPlan THEN "linked" ELSE "none"]
    OBVIOUS
  <2>3. /\ r \in PlannerRecord /\ r.work = work
        /\ r.pc = IF HasPlan THEN "loading" ELSE "rest"
    BY <2>2 DEF PlannerRecord, Tells
  <2>4. planner' = [planner EXCEPT ![u] = r]
    BY <1>1, <1>2, <1>6, <2>1, <2>2 DEF LinkPlan, PlanTypes
  <2>5. r.pc \in Saving => r.work \in PlanRecord /\ OwnRecord(r.work)
    BY <2>1, <2>3 DEF Saving
  <2> QED BY <1>1, <1>6, <2>3, <2>4, <2>5, StepRecorded DEF LinkPlan
<1>7. CASE LoadEntries(u)
  <2>1. old.pc = "loading" /\ old.work \in PlanRecord /\ OwnRecord(old.work)
    BY <1>2, <1>3, <1>7 DEF LoadEntries, Saving
  <2>2. old.fresh \in SUBSET ChangeMaps
    BY DEF PlannerRecord
  <2>3. PICK p \in PlanRecord : p = Merged(old.work, old.fresh)
    BY <1>1, <2>1, <2>2, MergedIs
  <2>4. PICK r : r = [old EXCEPT !.pc = "truncating", !.work = p]
    OBVIOUS
  <2>5. r \in PlannerRecord /\ r.work = p
    BY <2>4 DEF PlannerRecord
  <2>6. planner' = [planner EXCEPT ![u] = r]
    BY <1>1, <1>2, <1>7, <2>3, <2>4 DEF LoadEntries, PlanTypes, Merged, PlannerRecord
  <2>7. OwnRecord(p)
    <3>1. /\ p.status = old.work.status /\ p.changes = old.work.changes /\ p.pre = old.work.pre
          /\ p.post = old.work.post /\ p.log = old.work.log /\ p.approval = old.work.approval
      BY <1>1, <2>1, <2>2, <2>3, MergedIs
    <3> QED BY <2>1, <3>1 DEF OwnRecord
  <2> QED BY <1>1, <1>7, <2>5, <2>6, <2>7, StepRecorded DEF LoadEntries
<1>8. CASE TruncatePlans(u)
  <2>1. old.pc = "truncating" /\ old.work \in PlanRecord /\ OwnRecord(old.work)
    BY <1>2, <1>3, <1>8 DEF TruncatePlans, Saving
  <2>2. PICK r : r = [old EXCEPT !.pc = "writing"]
    OBVIOUS
  <2>3. r \in PlannerRecord /\ r.work = old.work
    BY <2>2 DEF PlannerRecord
  <2>4. planner' = [planner EXCEPT ![u] = r]
    BY <1>1, <1>2, <1>8, <2>2 DEF TruncatePlans, PlanTypes
  <2> QED BY <1>1, <1>8, <2>1, <2>3, <2>4, StepRecorded DEF TruncatePlans
<1>9. CASE TellCase(u)
  <2>1. PICK r : r = [old EXCEPT !.pc = "rest", !.tell = "none"]
    OBVIOUS
  <2>2. r \in PlannerRecord /\ r.pc = "rest"
    BY <2>1 DEF PlannerRecord, Tells
  <2>3. planner' = [planner EXCEPT ![u] = r]
    BY <1>1, <1>2, <1>9, <2>1 DEF TellCase, PlanTypes
  <2> QED BY <1>1, <1>9, <2>2, <2>3, StepRecorded DEF TellCase, Saving
<1> QED BY <1>4, <1>5, <1>6, <1>7, <1>8, <1>9

\* The plan of another request may be half overwritten, never mixed up.
LEMMA WriteRecorded ==
    ASSUME RecordInv, NEW u \in Planners, WritePlan(u)
    PROVE  RecordInv'
<1>1. /\ PlanTypes /\ planner[u].pc = "writing" /\ saves' \in Nat
      /\ UNCHANGED <<added, planDeaths, planCrossed>>
  BY DEF RecordInv, PlanTypes, WritePlan
<1>2. PICK old \in PlannerRecord : old = planner[u]
  BY <1>1 DEF PlanTypes
<1>3. old.work \in PlanRecord /\ OwnRecord(old.work)
  BY <1>1, <1>2 DEF RecordInv, Saving
<1>4. plan' \in {old.work, TornPlan}
  BY <1>2 DEF WritePlan
<1>5. PICK pc \in {"linking", "telling", "rest"} :
        pc = IF old.work.rev = 1 THEN "linking" ELSE IF old.tell # "none" THEN "telling" ELSE "rest"
  OBVIOUS
<1>6. PICK r : r = [old EXCEPT !.pc = pc, !.work = NoPlan, !.fresh = {}]
  OBVIOUS
<1>7. r \in PlannerRecord /\ r.pc \notin Saving
  BY <1>5, <1>6 DEF PlannerRecord, Saving
<1>8. planner' = [planner EXCEPT ![u] = r]
  BY <1>1, <1>2, <1>5, <1>6 DEF WritePlan, PlanTypes
<1>9. PlanTypes'
  BY <1>1, <1>3, <1>4, <1>7, <1>8 DEF PlanTypes
<1>10. HasPlan' => OwnRecord(plan)'
  BY <1>3, <1>4 DEF HasPlan, OwnRecord
<1>11. ASSUME NEW v \in Planners, planner'[v].pc \in Saving
       PROVE  planner'[v].work \in PlanRecord /\ OwnRecord(planner[v].work)'
  <2>1. planner'[v] = IF v = u THEN r ELSE planner[v]
    BY <1>1, <1>8 DEF PlanTypes
  <2> QED BY <1>7, <1>11, <2>1 DEF RecordInv, OwnRecord
<1> QED BY <1>9, <1>10, <1>11 DEF RecordInv

LEMMA DeathRecorded ==
    ASSUME RecordInv, PlanServerDies
    PROVE  RecordInv'
<1>1. /\ PlanTypes /\ planDeaths' \in Nat
      /\ UNCHANGED <<plan, told, added, saves, planCrossed>>
      /\ planner' = [u \in Planners |-> [RestingPlanner EXCEPT !.page = planner[u].page]]
  BY DEF RecordInv, PlanTypes, PlanServerDies
<1>2. ASSUME NEW v \in Planners
      PROVE  planner'[v] \in PlannerRecord /\ planner'[v].pc = "rest"
  <2>1. PICK page \in PageRecord : page = planner[v].page
    BY <1>1 DEF PlanTypes, PlannerRecord
  <2>2. PICK r : r = [pc |-> "rest", page |-> page, work |-> NoPlan, fresh |-> {}, tell |-> "none"]
    OBVIOUS
  <2>3. r \in PlannerRecord /\ r.pc = "rest"
    BY <2>2 DEF PlannerRecord, Tells
  <2>4. planner'[v] = r
    BY <1>1, <2>1, <2>2 DEF RestingPlanner
  <2> QED BY <2>3, <2>4
<1>3. PlanTypes'
  BY <1>1, <1>2 DEF PlanTypes
<1> QED BY <1>1, <1>2, <1>3 DEF RecordInv, HasPlan, OwnRecord, Saving

LEMMA RecordStepInv ==
    ASSUME RecordInv, [PlanNext]_planVars
    PROVE  RecordInv'
<1>1. CASE PlanServerDies
  BY <1>1, DeathRecorded
<1>2. ASSUME NEW u \in Planners,
             \/ DisplayPlan(u) \/ Review(u) \/ Execute(u) \/ EditChanges(u)
             \/ CheckEdit(u) \/ Archive(u) \/ CreatePlan(u) \/ LinkPlan(u)
             \/ LoadEntries(u) \/ TruncatePlans(u) \/ WritePlan(u) \/ TellCase(u)
      PROVE  RecordInv'
  BY <1>2, RequestRecorded, SaveRecorded, WriteRecorded
<1>3. CASE UNCHANGED planVars
  BY <1>3 DEF planVars, RecordInv, PlanTypes, HasPlan, OwnRecord
<1> QED BY <1>1, <1>2, <1>3 DEF PlanNext

---------------------------------------------------------------------------
(* ChangePlans: the theorem                                                *)

LEMMA PlanInitInv ==
    ASSUME PlanInit
    PROVE  PlanInv
<1>1. /\ plan \in {NoPlan, TornPlan} \/ SavedBefore(plan)
      /\ told = {} /\ saves = 0 /\ planDeaths = 0 /\ planCrossed = 0
      /\ planner = [u \in Planners |-> RestingPlanner]
  BY PlanAssumption DEF PlanInit
<1>2. HasPlan => SavedBefore(plan) /\ plan \in PlanRecord
  BY <1>1 DEF HasPlan, SavedBefore
<1>3. /\ RestingPlanner \in PlannerRecord /\ RestingPlanner.pc = "rest"
      /\ RestingPlanner.page = NothingShown
  BY NothingShownIs DEF RestingPlanner, PlannerRecord, Tells
<1>4. \A u \in Planners : planner[u].pc = "rest" /\ planner[u].page = NothingShown
  BY <1>1, <1>3
<1>5. added \in Nat
  <2>1. ASSUME HasPlan
        PROVE  Cardinality(DOMAIN plan.changes) \in Nat
    <3>1. plan.changes \in ChangeMaps
      BY <1>2, <2>1 DEF PlanRecord
    <3>2. DOMAIN plan.changes \subseteq ChangeIds
      BY <3>1 DEF ChangeMaps
    <3>3. IsFiniteSet(DOMAIN plan.changes)
      BY <3>2, PlanAssumption, FS_Subset
    <3> QED BY <3>3, FS_CardinalityType
  <2> QED BY <2>1 DEF PlanInit
<1>6. PlanTypes
  BY <1>1, <1>2, <1>3, <1>5 DEF PlanTypes, SavedBefore
<1>7. OneRequest
  BY <1>4 DEF InFlight, OneRequest
<1>8. PlanFileInv
  <2> SUFFICES ASSUME HasPlan PROVE PlanFileInv
    BY DEF PlanFileInv
  <2>1. /\ plan \in PlanRecord /\ plan.rev >= 1 /\ plan.checks = 0 /\ plan.rev \in Nat
        /\ plan.status \notin Finished \cup {"failed"}
        /\ plan.status = "running" => ~plan.incident /\ Recorded(plan.pre)
        /\ plan.status \in {"analysed", "in-review"} \cup Approved => plan.assessed = {plan.changes}
        /\ plan.status \in Approved => plan.approval = {plan.changes}
    BY <1>2 DEF SavedBefore, PlanRecord, Recorded
  <2>2. SanePlan(plan) /\ SeenByApprover(plan) /\ ~Heard(plan) /\ plan.checks <= saves
    BY <1>1, <2>1 DEF SanePlan, SeenByApprover, Heard, Finished
  <2>3. \A v \in Planners : PageOf(planner[v].page, plan)
    BY <1>4, <2>1, NothingShownIs DEF PageOf
  <2> QED BY <2>1, <2>2, <2>3 DEF PlanFileInv
<1>9. RequestsOfPlan /\ PagesOfPlan
  BY <1>1, <1>4, NothingShownIs DEF RequestsOfPlan, PagesOfPlan, Saving
<1> QED BY <1>6, <1>7, <1>8, <1>9 DEF PlanInv

LEMMA InitRecorded ==
    ASSUME PlanInit
    PROVE  RecordInv
<1>1. PlanTypes
  BY PlanInitInv DEF PlanInv
<1>2. \A u \in Planners : planner[u].pc = "rest"
  BY DEF PlanInit, RestingPlanner
<1>3. HasPlan => SavedBefore(plan)
  BY PlanAssumption DEF PlanInit, HasPlan
<1>4. HasPlan => OwnRecord(plan)
  BY <1>3 DEF SavedBefore, OwnRecord, Finished
<1> QED BY <1>1, <1>2, <1>4 DEF RecordInv, Saving

LEMMA PlanStepInv ==
    ASSUME PlanInv, planCrossed' = 0, [PlanNext]_planVars
    PROVE  PlanInv'
<1>1. CASE PlanServerDies
  BY <1>1, DiesKeepsInv
<1>2. ASSUME NEW u \in Planners,
             \/ DisplayPlan(u) \/ Review(u) \/ Execute(u) \/ EditChanges(u)
             \/ CheckEdit(u) \/ Archive(u) \/ CreatePlan(u) \/ LinkPlan(u)
             \/ LoadEntries(u) \/ TruncatePlans(u) \/ WritePlan(u) \/ TellCase(u)
      PROVE  PlanInv'
  BY <1>2, DisplayKeepsInv, ReviewKeepsInv, ExecuteKeepsInv, EditKeepsInv, CheckEditKeepsInv,
     ArchiveKeepsInv, CreateKeepsInv, LinkKeepsInv, LoadKeepsInv, TruncateKeepsInv, WriteKeepsInv,
     TellKeepsInv
<1>3. CASE UNCHANGED planVars
  <2>1. UNCHANGED <<plan, planner, told, added, saves, planDeaths, planCrossed>>
    BY <1>3 DEF planVars
  <2>2. PlanTypes' /\ OneRequest' /\ PlanFileInv' /\ PagesOfPlan'
    BY <2>1 DEF PlanInv, PlanTypes, OneRequest, InFlight, PlanFileInv, PagesOfPlan, HasPlan, SanePlan,
         PageOf, Shown, SeenByApprover, Heard
  <2>3. \A u \in Planners : ToWrite(planner[u])' = ToWrite(planner[u])
    BY <2>1 DEF ToWrite, Merged, HasPlan
  <2>4. RequestsOfPlan'
    BY <2>1, <2>3 DEF PlanInv, RequestsOfPlan, WorkInv, LinkInv, PageBefore, HasPlan
  <2> QED BY <2>2, <2>4 DEF PlanInv
<1> QED BY <1>1, <1>2, <1>3 DEF PlanNext

LEMMA RecordInvSound ==
    ASSUME RecordInv
    PROVE  PlanTypeOK /\ PlanExecutionRecorded
<1>1. PlanTypes
  BY DEF RecordInv
<1>2. PlanTypeOK
  <2>1. plan.status \in PlanStatuses \cup {"absent", "torn"}
    BY <1>1 DEF PlanTypes, PlanRecord, NoPlan, TornPlan
  <2>2. ASSUME HasPlan
        PROVE  DOMAIN plan.changes \subseteq ChangeIds /\ plan.rev \in Nat
    <3>1. plan.changes \in ChangeMaps /\ plan.rev \in Nat
      BY <1>1, <2>2, PlanIs DEF PlanRecord
    <3> QED BY <3>1 DEF ChangeMaps
  <2>3. ASSUME NEW u \in Planners, planner[u].pc \in Saving
        PROVE  planner[u].work.status \in PlanStatuses
    BY <2>3 DEF RecordInv, PlanRecord
  <2> QED BY <2>1, <2>2, <2>3 DEF PlanTypeOK, Saving
<1>3. plan.status \in Approved \cup Finished => HasPlan
  BY DEF HasPlan, NoPlan, TornPlan, Approved, Finished
<1>4. PlanExecutionRecorded
  BY <1>3 DEF RecordInv, OwnRecord, PlanExecutionRecorded, Approved, Finished
<1> QED BY <1>2, <1>4

LEMMA PlanInvSound ==
    ASSUME PlanInv
    PROVE  PlanApprovalSeen /\ PlanApprovalAssessed /\ PlanChecksPassed /\ PlanCaseTold
<1>1. plan.status \in Approved \cup Finished => HasPlan
  BY DEF HasPlan, NoPlan, TornPlan, Approved, Finished
<1>2. PlanApprovalSeen
  BY <1>1 DEF PlanInv, PlanFileInv, SeenByApprover, PlanApprovalSeen
<1>3. PlanApprovalAssessed
  BY <1>1 DEF PlanInv, PlanFileInv, SanePlan, PlanApprovalAssessed
<1>4. PlanChecksPassed
  BY <1>1 DEF Approved, PlanInv, PlanFileInv, SanePlan, Recorded, PlanChecksPassed
<1>5. PlanCaseTold
  <2>1. InFlight = {} => \A u \in Planners : planner[u].pc # "telling"
    BY DEF InFlight
  <2> QED BY <2>1 DEF PlanInv, PlanFileInv, Heard, PlanCaseTold
<1> QED BY <1>2, <1>3, <1>4, <1>5

\* Both: the second while no request has crossed another.
PlansInv == RecordInv /\ (planCrossed = 0 => PlanInv)

\* No step takes back that requests crossed.
LEMMA CrossedStays ==
    ASSUME PlanTypes, [PlanNext]_planVars
    PROVE  planCrossed' = 0 => planCrossed = 0
<1>1. ASSUME NEW u, NEW pc, NEW work, NEW fresh, NEW tell, Begins(u, pc, work, fresh, tell)
      PROVE  planCrossed' \in {planCrossed, planCrossed + 1}
  BY <1>1 DEF Begins
<1>2. ASSUME NEW u \in Planners, Review(u) \/ Execute(u) \/ Archive(u) \/ CreatePlan(u)
      PROVE  planCrossed' \in {planCrossed, planCrossed + 1}
  BY <1>1, <1>2 DEF Review, Execute, Archive, CreatePlan
<1>3. ASSUME NEW u \in Planners, EditChanges(u)
      PROVE  planCrossed' \in {planCrossed, planCrossed + 1}
  BY <1>1, <1>3 DEF EditChanges
<1>4. ASSUME NEW u \in Planners,
             \/ DisplayPlan(u) \/ CheckEdit(u) \/ LinkPlan(u) \/ LoadEntries(u)
             \/ TruncatePlans(u) \/ WritePlan(u) \/ TellCase(u)
      PROVE  planCrossed' = planCrossed
  BY <1>4 DEF DisplayPlan, CheckEdit, LinkPlan, LoadEntries, TruncatePlans, WritePlan, TellCase
<1>5. PlanServerDies \/ UNCHANGED planVars => planCrossed' = planCrossed
  BY DEF PlanServerDies, planVars
<1>6. planCrossed' \in {planCrossed, planCrossed + 1}
  BY <1>2, <1>3, <1>4, <1>5 DEF PlanNext
<1> QED BY <1>6 DEF PlanTypes

\* Whatever the number of planners, changes, saves, deaths of the server, and
\* requests that overlap in the plans file, which has no lock: an approved plan
\* has an approval, one that runs or ran has no pre-check left open, and a
\* completed one has every change and check recorded.  As long as requests
\* followed one another, however stale their pages: an approved plan has an
\* assessment of exactly its changes, and if the file was never lost they are
\* the ones on its approver's page; none starts with a failed pre-check; and
\* the incident case hears of what the plan executed to.
THEOREM SpecPlansSound == PlanSpec => []PlansSound
<1>1. PlanInit => PlansInv
  BY PlanInitInv, InitRecorded DEF PlansInv
<1>2. PlansInv /\ [PlanNext]_planVars => PlansInv'
  BY RecordStepInv, CrossedStays, PlanStepInv DEF PlansInv, RecordInv
<1>3. PlansInv => PlansSound
  BY RecordInvSound, PlanInvSound DEF PlansInv, PlansSound
<1> QED BY <1>1, <1>2, <1>3, PTL DEF PlanSpec

=============================================================================
