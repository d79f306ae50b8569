---------------------------- MODULE InboxProofs ----------------------------
(***************************************************************************)
(* Proofs about what operators are told and what they correct.            *)
(*                                                                         *)
(* Inbox: for any conditions, profiles, collectors, operators and size of  *)
(* the file, a dedupe key has one item, a revision tells every change, and *)
(* what is observed has an open item unless an answer about it came late.  *)
(*                                                                         *)
(* Curation: the trail of corrections accounts for the catalog it may not  *)
(* have been written with, and an undo takes back its subject's last one.  *)
(***************************************************************************)
EXTENDS Inbox, Curation, FiniteSetTheorems, SequenceTheorems, WellFoundedInduction, TLAPS

---------------------------------------------------------------------------
(* Sets of numbers                                                         *)

\* A set of numbers that is not empty has a least one.
LEMMA LeastOf ==
    ASSUME NEW free \in SUBSET Nat, free # {}
    PROVE  \E i \in free : \A j \in free : i <= j
<1> DEFINE smaller == OpToRel(<, Nat)
<1>1. IsWellFoundedOn(smaller, Nat)
  BY NatLessThanWellFounded, Zenon
<1>2. \A x, y \in Nat : <<x, y>> \in smaller <=> x < y
  BY DEF OpToRel
<1> HIDE DEF smaller
<1>3. PICK n \in free : \A m \in free : ~(<<m, n>> \in smaller)
  BY <1>1, WFMin
<1>4. n \in Nat /\ \A m \in free : m \in Nat /\ ~(m < n)
  BY <1>2, <1>3
<1>5. \A m \in free : n <= m
  BY <1>4
<1> QED BY <1>5

\* One that is bounded has a greatest one, too.
LEMMA GreatestOf ==
    ASSUME NEW n \in Nat, NEW found \in SUBSET (1 .. n), found # {}
    PROVE  \E i \in found : \A j \in found : j <= i
<1> DEFINE left == {k \in Nat : \E i \in found : k = n - i}
<1>1. left \in SUBSET Nat /\ left # {}
  <2>1. PICK i \in found : TRUE
    OBVIOUS
  <2>2. n - i \in Nat
    OBVIOUS
  <2> QED BY <2>1, <2>2
<1>2. (\A k \in left : \E i \in found : k = n - i) /\ (\A i \in found : n - i \in left)
  OBVIOUS
<1> HIDE DEF left
<1>3. PICK k \in left : \A m \in left : k <= m
  BY <1>1, LeastOf
<1>4. PICK i \in found : k = n - i
  BY <1>2, <1>3
<1>5. \A j \in found : j <= i
  <2> SUFFICES ASSUME NEW j \in found PROVE j <= i
    OBVIOUS
  <2>1. k <= n - j
    BY <1>2, <1>3
  <2> QED BY <1>4, <2>1
<1> QED BY <1>5

---------------------------------------------------------------------------
(* Inbox                                                                   *)

InboxItem ==
    [id : Int, key : [about : Subjects, poll : Nat \cup {-1}], status : DOMAIN Transition,
     rev : Nat, recurrences : Nat, asleep : BOOLEAN]

CollectionRun ==
    [pc : {"rest", "notify"}, poll : Nat, told : SUBSET Conditions, todo : SUBSET Conditions,
     complete : BOOLEAN, stale : BOOLEAN]

LastStanding == Max({MaxPolls, 1})

InboxTypes ==
    /\ inbox \in Seq(InboxItem)
    /\ polls \in Seq(SUBSET Conditions)
    /\ collection \in [Collectors -> CollectionRun]
    /\ form \in [Operators -> InboxItem \cup {NoForm}]
    /\ writes \in Nat
    /\ standing \in [Subjects -> 0 .. LastStanding]

\* Items that are about one subject have different keys, and one without a key is
\* the only one of its subject.
ItemsApart(items) ==
    \A i, j \in DOMAIN items : i # j =>
      /\ items[i].id # items[j].id
      /\ items[i].key.about = items[j].key.about =>
           items[i].key.poll # items[j].key.poll /\ items[i].key.poll # -1

\* An item after that many writes.
ItemSane(item, count) ==
    /\ item.id <= count /\ item.rev <= count
    /\ item.recurrences <= item.rev
    /\ item.key.about \in Profiles => item.key.poll = 0

\* What an operator looks at is an earlier revision of the item, or the item.
SameItem(item, seen) ==
    /\ item.id = seen.id /\ item.key = seen.key /\ item.status = seen.status
    /\ item.rev = seen.rev /\ item.recurrences = seen.recurrences
SeenBefore(item, seen) ==
    item.id = seen.id => seen.rev <= item.rev /\ (seen.rev = item.rev => SameItem(item, seen))

InboxFormsInv ==
    \A o \in Operators : form[o] # NoForm =>
      form[o].id <= writes /\ \A i \in DOMAIN inbox : SeenBefore(inbox[i], form[o])

CollectionsInv ==
    /\ Len(polls) <= MaxPolls
    /\ \A c \in Collectors : collection[c].pc = "notify" => collection[c].poll \in 1 .. Len(polls)

InboxInv ==
    /\ InboxTypes
    /\ Len(inbox) <= MaxItems
    /\ ItemsApart(inbox)
    /\ \A i \in DOMAIN inbox : ItemSane(inbox[i], writes)
    /\ InboxFormsInv
    /\ CollectionsInv

---------------------------------------------------------------------------

\* The items of a subject are in the order of their polls.
InPollOrder(items, s) ==
    \A i, j \in DOMAIN items :
      i < j /\ items[i].key.about = s /\ items[j].key.about = s => items[i].key.poll < items[j].key.poll

\* The newest item of a subject is open, and the evidence is what it reports.
StandsIn(items, s, poll) ==
    \E i \in DOMAIN items :
      /\ Open(items[i]) /\ items[i].key.about = s
      /\ s \in Conditions => items[i].key.poll = poll
      /\ \A j \in DOMAIN items : items[j].key.about = s => items[j].key.poll <= items[i].key.poll

\* The items agree with the evidence of a subject, and none is newer than `last'.
Faithful(items, s, poll, last) ==
    /\ InPollOrder(items, s)
    /\ \A i \in DOMAIN items : items[i].key.about = s => items[i].key.poll <= last
    /\ poll # 0 => StandsIn(items, s, poll)

\* The file agrees with what was heard of a subject, and nothing older stands than
\* what a collection in progress has notified.
Observed(s) ==
    /\ Faithful(inbox, s, standing[s], heard[s])
    /\ \A c \in Collectors :
         collection[c].pc = "notify" /\ s \in collection[c].told \ collection[c].todo =>
           /\ collection[c].poll <= heard[s]
           /\ standing[s] = 0 \/ collection[c].poll <= standing[s]

ObservedInv ==
    /\ heard \in [Subjects -> Nat]
    /\ \A s \in Subjects \ overtaken : Observed(s)

---------------------------------------------------------------------------
(* Inbox: the file                                                         *)

LEMMA LargerOf ==
    ASSUME NEW a \in Int, NEW b \in Int
    PROVE  Max({a, b}) \in {a, b} /\ Max({a, b}) >= a /\ Max({a, b}) >= b
<1>1. \E x \in {a, b} : \A y \in {a, b} : x >= y
  OBVIOUS
<1>2. Max({a, b}) \in {a, b} /\ \A y \in {a, b} : Max({a, b}) >= y
  BY <1>1 DEF Max
<1> QED BY <1>2

LEMMA LargestOf ==
    ASSUME NEW a \in Int, NEW b \in Int, NEW c \in Int
    PROVE  /\ Max({a, b, c}) \in {a, b, c}
           /\ Max({a, b, c}) >= a /\ Max({a, b, c}) >= b /\ Max({a, b, c}) >= c
<1>1. \E x \in {a, b, c} : \A y \in {a, b, c} : x >= y
  <2>1. CASE a >= b /\ a >= c
    BY <2>1
  <2>2. CASE b >= a /\ b >= c
    BY <2>2
  <2>3. CASE c >= a /\ c >= b
    BY <2>3
  <2> QED BY <2>1, <2>2, <2>3
<1>2. Max({a, b, c}) \in {a, b, c} /\ \A y \in {a, b, c} : Max({a, b, c}) >= y
  BY <1>1 DEF Max
<1> QED BY <1>2

LEMMA StandingsAreNumbers == LastStanding \in Nat /\ LastStanding >= 1 /\ LastStanding >= MaxPolls
<1>1. MaxPolls \in Nat
  BY InboxAssumption
<1>2. /\ Max({MaxPolls, 1}) \in {MaxPolls, 1}
      /\ Max({MaxPolls, 1}) >= MaxPolls /\ Max({MaxPolls, 1}) >= 1
  BY <1>1, LargerOf
<1> QED BY <1>1, <1>2 DEF LastStanding

\* The first item that a notification matches, or none.
LEMMA FirstMatch ==
    ASSUME NEW items \in Seq(InboxItem), NEW key
    PROVE  LET at == SelectInSeq(items, LAMBDA item : Matches(item, key))
           IN  \/ at = 0 /\ \A i \in 1 .. Len(items) : ~Matches(items[i], key)
               \/ at \in 1 .. Len(items) /\ Matches(items[at], key)
<1> DEFINE found == {i \in 1 .. Len(items) : Matches(items[i], key)}
           at == SelectInSeq(items, LAMBDA item : Matches(item, key))
<1>1. at = IF found # {} THEN Min(found) ELSE 0
  BY DEF SelectInSeq
<1>2. ASSUME found # {}
      PROVE  Min(found) \in found
  <2>1. found \in SUBSET Nat
    OBVIOUS
  <2> HIDE DEF found
  <2>2. \E x \in found : \A y \in found : x =< y
    BY <1>2, <2>1, LeastOf
  <2> QED BY <2>2 DEF Min
<1>3. CASE found = {}
  BY <1>1, <1>3
<1>4. CASE found # {}
  <2>1. at \in found
    BY <1>1, <1>2, <1>4
  <2> QED BY <2>1
<1> QED BY <1>3, <1>4

\* What _write does: it leaves out the oldest items, keeps the rest in order, and
\* a subject whose evidence stands on keeps its open items or has none left out.
LEMMA WriteIs ==
    ASSUME NEW items \in Seq(InboxItem), NEW evidence, Write(items, evidence)
    PROVE  /\ writes < MaxWrites /\ writes' = writes + 1
           /\ \E cut \in 0 .. Len(items) :
                /\ inbox' \in Seq(InboxItem)
                /\ Len(inbox') = Len(items) - cut /\ Len(inbox') <= MaxItems
                /\ \A k \in 1 .. Len(inbox') : inbox'[k] = items[cut + k]
                /\ standing' = [s \in Subjects |->
                     IF /\ \E i \in 1 .. cut : Open(items[i]) /\ items[i].key.about = s
                        /\ ~ \E k \in 1 .. Len(inbox') : Open(inbox'[k]) /\ inbox'[k].key.about = s
                     THEN 0 ELSE evidence[s]]
<1> DEFINE cut == Excess(items)
           kept == SubSeq(items, cut + 1, Len(items))
<1>1. Len(items) \in Nat /\ MaxItems \in Nat \ {0}
  BY InboxAssumption
<1>2. cut \in 0 .. Len(items) /\ Len(items) - cut <= MaxItems
  <2>1. PICK over \in Int : over = Len(items) - MaxItems
    <3>1. Len(items) - MaxItems \in Int
      BY <1>1
    <3> QED BY <3>1
  <2>2. Max({over, 0}) \in {over, 0} /\ Max({over, 0}) >= over /\ Max({over, 0}) >= 0
    <3>1. 0 \in Int
      OBVIOUS
    <3> QED BY <3>1, LargerOf
  <2>3. cut = Max({over, 0})
    BY <2>1 DEF Excess
  <2> HIDE DEF cut
  <2> QED BY <1>1, <2>1, <2>2, <2>3
<1> HIDE DEF cut
<1>3. /\ kept \in Seq(InboxItem) /\ Len(kept) = Len(items) - cut
      /\ \A k \in 1 .. Len(items) - cut : kept[k] = items[cut + k]
  BY <1>1, <1>2
<1>4. DOMAIN kept = 1 .. Len(kept)
  BY <1>3
<1>5. /\ writes < MaxWrites /\ writes' = writes + 1 /\ inbox' = kept
      /\ standing' = [s \in Subjects |->
           IF /\ \E i \in 1 .. cut : Open(items[i]) /\ items[i].key.about = s
              /\ ~ \E i \in DOMAIN kept : Open(kept[i]) /\ kept[i].key.about = s
           THEN 0 ELSE evidence[s]]
  BY DEF Write, cut
<1> HIDE DEF kept
<1> QED BY <1>2, <1>3, <1>4, <1>5

\* A collection's keys and an operator's status only touch items: an item that is
\* touched has the next revision.
Touched(new, old) ==
    \/ new = old
    \/ /\ new.id = old.id /\ new.rev = old.rev + 1
       /\ new.recurrences \in {old.recurrences, old.recurrences + 1}

LEMMA TouchedStaysSane ==
    ASSUME NEW new \in InboxItem, NEW old \in InboxItem, Touched(new, old), NEW count \in Nat,
           ItemSane(old, count),
           new.key.about \in Profiles => new.key.poll = 0
    PROVE  /\ ItemSane(new, count + 1)
           /\ \A seen \in InboxItem : SeenBefore(old, seen) => SeenBefore(new, seen)
  BY DEF ItemSane, SeenBefore, SameItem, InboxItem, Touched

LEMMA Statuses ==
    /\ DOMAIN Transition = {"unread", "read", "acknowledged", "in_progress", "snoozed",
                            "done", "resolved", "suppressed"}
    /\ ActiveStatuses = {"unread", "read", "acknowledged", "in_progress", "snoozed"}
    /\ Moves \subseteq DOMAIN Transition
<1>1. DOMAIN Transition = {"unread", "read", "acknowledged", "in_progress", "snoozed",
                           "done", "resolved", "suppressed"}
  BY DEF Transition
<1>2. ActiveStatuses = {"unread", "read", "acknowledged", "in_progress", "snoozed"}
  BY <1>1 DEF ActiveStatuses, TerminalStatuses
<1> QED BY <1>1, <1>2, InboxAssumption

\* A write of sane items, whose subjects are apart, that the forms have seen.
LEMMA WriteKeepsInv ==
    ASSUME InboxInv,
           NEW items \in Seq(InboxItem), NEW evidence \in [Subjects -> 0 .. LastStanding],
           Write(items, evidence),
           ItemsApart(items),
           \A i \in 1 .. Len(items) : ItemSane(items[i], writes + 1),
           \A o \in Operators : form[o] # NoForm =>
             \A i \in 1 .. Len(items) : SeenBefore(items[i], form[o]),
           form' \in [Operators -> InboxItem \cup {NoForm}],
           \A o \in Operators : form'[o] \in {form[o], NoForm},
           collection' \in [Collectors -> CollectionRun],
           \A c \in Collectors : collection'[c].pc = "notify" =>
             collection[c].pc = "notify" /\ collection'[c].poll = collection[c].poll,
           polls' = polls
    PROVE  InboxInv'
<1>1. writes' = writes + 1 /\ writes \in Nat
  BY WriteIs DEF InboxInv, InboxTypes
<1>2. PICK cut \in 0 .. Len(items) :
        /\ inbox' \in Seq(InboxItem)
        /\ Len(inbox') = Len(items) - cut /\ Len(inbox') <= MaxItems
        /\ \A k \in 1 .. Len(inbox') : inbox'[k] = items[cut + k]
        /\ standing' = [s \in Subjects |->
             IF /\ \E i \in 1 .. cut : Open(items[i]) /\ items[i].key.about = s
                /\ ~ \E k \in 1 .. Len(inbox') : Open(inbox'[k]) /\ inbox'[k].key.about = s
             THEN 0 ELSE evidence[s]]
  BY WriteIs
<1>3. /\ Len(items) \in Nat /\ DOMAIN items = 1 .. Len(items)
      /\ DOMAIN inbox' = 1 .. Len(inbox')
      /\ \A k \in 1 .. Len(inbox') : cut + k \in 1 .. Len(items)
  BY <1>2
<1>4. standing' \in [Subjects -> 0 .. LastStanding]
  <2>1. 0 \in 0 .. LastStanding
    BY StandingsAreNumbers
  <2> QED BY <1>2, <2>1
<1>5. InboxTypes'
  BY <1>1, <1>2, <1>4 DEF InboxInv, InboxTypes
<1>6. ItemsApart(inbox')
  <2> SUFFICES ASSUME NEW j \in 1 .. Len(inbox'), NEW k \in 1 .. Len(inbox'), j # k
               PROVE  /\ inbox'[j].id # inbox'[k].id
                      /\ inbox'[j].key.about = inbox'[k].key.about =>
                           inbox'[j].key.poll # inbox'[k].key.poll /\ inbox'[j].key.poll # -1
    BY <1>3 DEF ItemsApart
  <2>1. cut + j \in DOMAIN items /\ cut + k \in DOMAIN items /\ cut + j # cut + k
    BY <1>2, <1>3
  <2>2. inbox'[j] = items[cut + j] /\ inbox'[k] = items[cut + k]
    BY <1>2
  <2> QED BY <2>1, <2>2 DEF ItemsApart
<1>7. \A k \in DOMAIN inbox' : ItemSane(inbox'[k], writes')
  BY <1>1, <1>2, <1>3
<1>8. InboxFormsInv'
  <2> SUFFICES ASSUME NEW o \in Operators, form'[o] # NoForm
               PROVE  form'[o].id <= writes' /\ \A k \in DOMAIN inbox' : SeenBefore(inbox'[k], form'[o])
    BY DEF InboxFormsInv, SeenBefore, SameItem
  <2>1. form'[o] = form[o] /\ form[o] # NoForm /\ form[o] \in InboxItem
    BY DEF InboxInv, InboxTypes
  <2>2. form[o].id <= writes /\ form[o].id \in Int
    BY <2>1 DEF InboxInv, InboxFormsInv, InboxItem
  <2>3. form'[o].id <= writes'
    BY <1>1, <2>1, <2>2
  <2>4. ASSUME NEW k \in DOMAIN inbox'
        PROVE  SeenBefore(inbox'[k], form'[o])
    <3>1. SeenBefore(items[cut + k], form[o])
      BY <1>3, <2>1
    <3> QED BY <1>2, <1>3, <2>1, <3>1
  <2> QED BY <2>3, <2>4
<1>9. CollectionsInv'
  BY DEF InboxInv, CollectionsInv
<1>10. ItemsApart(inbox)'
  BY <1>6 DEF ItemsApart
<1>11. \A k \in DOMAIN inbox' : ItemSane(inbox[k], writes)'
  BY <1>7 DEF ItemSane
<1> QED BY <1>2, <1>5, <1>8, <1>9, <1>10, <1>11 DEF InboxInv

---------------------------------------------------------------------------
(* Inbox: notifications                                                    *)

\* What notify makes of the items: the one that matches is touched, or there is
\* a new one.
Notified(items, key, count) ==
    LET at == SelectInSeq(items, LAMBDA item : Matches(item, key))
    IN  IF at # 0 THEN [items EXCEPT ![at] = Reported(@, key)]
        ELSE Append(items, NewItem(count + 1, key))

LEMMA ReportedIs ==
    ASSUME NEW item \in InboxItem, NEW key \in [about : Subjects, poll : Nat \cup {-1}]
    PROVE  /\ Reported(item, key) \in InboxItem /\ Reported(item, key).key = key
           /\ Touched(Reported(item, key), item)
           /\ Open(Reported(item, key))
<1>1. "unread" \in DOMAIN Transition /\ "unread" \in ActiveStatuses
  BY Statuses
<1>2. PICK rev \in Nat : rev = item.rev + 1
  <2>1. item.rev + 1 \in Nat
    BY DEF InboxItem
  <2> QED BY <2>1
<1>3. PICK recurrences \in Nat : recurrences = item.recurrences + 1
  <2>1. item.recurrences + 1 \in Nat
    BY DEF InboxItem
  <2> QED BY <2>1
<1>4. CASE Open(item)
  <2> DEFINE now == [item EXCEPT !.key = key, !.rev = rev]
  <2>1. Reported(item, key) = now
    BY <1>4, <1>2 DEF Reported
  <2>2. /\ now \in InboxItem
        /\ now.key = key /\ now.rev = item.rev + 1 /\ now.id = item.id
        /\ now.status = item.status /\ now.recurrences = item.recurrences
    BY <1>2 DEF InboxItem
  <2> HIDE DEF now
  <2>3. Touched(now, item) /\ Open(now)
    BY <1>4, <2>2 DEF Touched, Open
  <2> QED BY <2>1, <2>2, <2>3 DEF now
<1>5. CASE ~Open(item)
  <2> DEFINE now == [item EXCEPT !.key = key, !.rev = rev, !.status = "unread",
                                 !.recurrences = recurrences, !.asleep = FALSE]
  <2>1. Reported(item, key) = now
    BY <1>5, <1>2, <1>3 DEF Reported
  <2>2. /\ now \in InboxItem
        /\ now.key = key /\ now.rev = item.rev + 1 /\ now.id = item.id
        /\ now.status = "unread" /\ now.recurrences = item.recurrences + 1
    BY <1>1, <1>2, <1>3 DEF InboxItem
  <2> HIDE DEF now
  <2>3. Touched(now, item) /\ Open(now)
    BY <1>1, <2>2 DEF Touched, Open
  <2> QED BY <2>1, <2>2, <2>3 DEF now
<1> QED BY <1>4, <1>5

LEMMA NewItemIs ==
    ASSUME NEW count \in Nat, NEW key \in [about : Subjects, poll : Nat \cup {-1}]
    PROVE  /\ NewItem(count + 1, key) \in InboxItem
           /\ NewItem(count + 1, key).id = count + 1 /\ NewItem(count + 1, key).rev = 0
           /\ NewItem(count + 1, key).recurrences = 0
           /\ NewItem(count + 1, key).key = key
           /\ Open(NewItem(count + 1, key))
BY Statuses DEF NewItem, InboxItem, Open

\* The key of a condition is of a poll; the one of a profile is not.
NotifiedKey(key) ==
    /\ key \in [about : Subjects, poll : Nat]
    /\ key.about \in Profiles => key.poll = 0

LEMMA NotifiedIs ==
    ASSUME InboxInv, NEW key, NotifiedKey(key)
    PROVE  LET items == Notified(inbox, key, writes)
           IN  /\ items \in Seq(InboxItem)
               /\ Len(items) \in {Len(inbox), Len(inbox) + 1}
               /\ \E at \in 1 .. Len(items) :
                    /\ Open(items[at]) /\ items[at].key = key
                    /\ \A i \in 1 .. Len(items) : i # at => i <= Len(inbox) /\ items[i] = inbox[i]
                    /\ \/ /\ Len(items) = Len(inbox)
                          /\ inbox[at].key.about = key.about
                          /\ inbox[at].key.poll \in {key.poll, -1}
                          /\ Touched(items[at], inbox[at])
                       \/ /\ at = Len(inbox) + 1 /\ Len(items) = at
                          /\ items[at].id = writes + 1 /\ items[at].rev = 0
                          /\ items[at].recurrences = 0
                          /\ \A i \in 1 .. Len(inbox) : ~Matches(inbox[i], key)
<1> DEFINE items == Notified(inbox, key, writes)
           first == SelectInSeq(inbox, LAMBDA item : Matches(item, key))
<1>1. /\ inbox \in Seq(InboxItem) /\ Len(inbox) \in Nat /\ DOMAIN inbox = 1 .. Len(inbox)
      /\ writes \in Nat
      /\ key \in [about : Subjects, poll : Nat \cup {-1}]
  BY DEF InboxInv, InboxTypes, NotifiedKey
<1>2. items = IF first # 0 THEN [inbox EXCEPT ![first] = Reported(@, key)]
              ELSE Append(inbox, NewItem(writes + 1, key))
  BY DEF Notified
<1>3. \/ first = 0 /\ \A i \in 1 .. Len(inbox) : ~Matches(inbox[i], key)
      \/ first \in 1 .. Len(inbox) /\ Matches(inbox[first], key)
  BY <1>1, FirstMatch
<1> HIDE DEF first, items
<1>4. CASE first = 0 /\ \A i \in 1 .. Len(inbox) : ~Matches(inbox[i], key)
  <2>1. PICK new \in InboxItem :
          /\ new = NewItem(writes + 1, key)
          /\ new.id = writes + 1 /\ new.rev = 0 /\ new.recurrences = 0 /\ new.key = key /\ Open(new)
    BY <1>1, NewItemIs
  <2>2. items = Append(inbox, new)
    BY <1>2, <1>4, <2>1
  <2>3. /\ items \in Seq(InboxItem) /\ Len(items) = Len(inbox) + 1
        /\ items[Len(inbox) + 1] = new
        /\ \A i \in 1 .. Len(inbox) : items[i] = inbox[i]
    BY <1>1, <2>2
  <2>4. \A i \in 1 .. Len(inbox) + 1 : i # Len(inbox) + 1 => i \in 1 .. Len(inbox)
    BY <1>1
  <2>5. Len(inbox) + 1 \in 1 .. Len(items)
    BY <1>1, <2>3
  <2>6. \A i \in 1 .. Len(items) : i # Len(inbox) + 1 => i <= Len(inbox) /\ items[i] = inbox[i]
    BY <1>1, <2>3, <2>4
  <2>7. /\ Open(items[Len(inbox) + 1]) /\ items[Len(inbox) + 1].key = key
        /\ items[Len(inbox) + 1].id = writes + 1 /\ items[Len(inbox) + 1].rev = 0
        /\ items[Len(inbox) + 1].recurrences = 0
    BY <2>1, <2>3
  <2> QED BY <1>4, <2>3, <2>5, <2>6, <2>7 DEF items
<1>5. CASE first \in 1 .. Len(inbox) /\ Matches(inbox[first], key)
  <2>1. inbox[first] \in InboxItem
    BY <1>1, <1>5
  <2>2. PICK new \in InboxItem :
          new = Reported(inbox[first], key) /\ new.key = key /\ Touched(new, inbox[first]) /\ Open(new)
    BY <1>1, <2>1, ReportedIs
  <2>3. items = [inbox EXCEPT ![first] = new]
    <3>1. first # 0
      BY <1>1, <1>5
    <3> QED BY <1>2, <2>2, <3>1
  <2>4. /\ items \in Seq(InboxItem) /\ Len(items) = Len(inbox)
        /\ items[first] = new
        /\ \A i \in 1 .. Len(inbox) : i # first => items[i] = inbox[i]
    BY <1>1, <1>5, <2>3
  <2>5. inbox[first].key.about = key.about /\ inbox[first].key.poll \in {key.poll, -1}
    BY <1>5, <2>1 DEF Matches, NoKey, Key, InboxItem
  <2>6. \A i \in 1 .. Len(items) : i # first => i <= Len(inbox) /\ items[i] = inbox[i]
    BY <1>1, <2>4
  <2>7. /\ Open(items[first]) /\ items[first].key = key /\ Touched(items[first], inbox[first])
        /\ first \in 1 .. Len(items)
    BY <1>5, <2>2, <2>4
  <2> QED BY <2>4, <2>5, <2>6, <2>7 DEF items
<1> QED BY <1>3, <1>4, <1>5

\* The file after a notification, before the oldest items are left out.
LEMMA NotifiedStaysSane ==
    ASSUME InboxInv, NEW key, NotifiedKey(key), NEW items, items = Notified(inbox, key, writes)
    PROVE  /\ ItemsApart(items)
           /\ \A i \in 1 .. Len(items) : ItemSane(items[i], writes + 1)
           /\ \A o \in Operators : form[o] # NoForm =>
                \A i \in 1 .. Len(items) : SeenBefore(items[i], form[o])
<1>1. /\ inbox \in Seq(InboxItem) /\ Len(inbox) \in Nat /\ DOMAIN inbox = 1 .. Len(inbox)
      /\ \A i \in 1 .. Len(inbox) : inbox[i] \in InboxItem
      /\ writes \in Nat
  BY DEF InboxInv, InboxTypes
<1>2. items \in Seq(InboxItem) /\ Len(items) \in {Len(inbox), Len(inbox) + 1}
  BY NotifiedIs
<1>3. PICK at \in 1 .. Len(items) :
        /\ items[at].key = key
        /\ \A i \in 1 .. Len(items) : i # at => i <= Len(inbox) /\ items[i] = inbox[i]
        /\ \/ /\ Len(items) = Len(inbox)
              /\ inbox[at].key.about = key.about
              /\ inbox[at].key.poll \in {key.poll, -1}
              /\ Touched(items[at], inbox[at])
           \/ /\ at = Len(inbox) + 1 /\ Len(items) = at
              /\ items[at].id = writes + 1 /\ items[at].rev = 0
              /\ items[at].recurrences = 0
              /\ \A i \in 1 .. Len(inbox) : ~Matches(inbox[i], key)
  BY NotifiedIs
<1>4. /\ \A i \in 1 .. Len(items) : items[i] \in InboxItem
      /\ \A i \in 1 .. Len(items) : i # at => i \in 1 .. Len(inbox)
  BY <1>1, <1>2, <1>3
<1>5. /\ \A i \in 1 .. Len(inbox) : ItemSane(inbox[i], writes)
      /\ \A i, j \in 1 .. Len(inbox) : i # j =>
           /\ inbox[i].id # inbox[j].id
           /\ inbox[i].key.about = inbox[j].key.about =>
                inbox[i].key.poll # inbox[j].key.poll /\ inbox[i].key.poll # -1
  BY <1>1 DEF InboxInv, ItemsApart
<1>6. key.about \in Subjects /\ key.poll \in Nat /\ (key.about \in Profiles => key.poll = 0)
  BY DEF NotifiedKey
<1>7. CASE Len(items) = Len(inbox) /\ Touched(items[at], inbox[at])
           /\ inbox[at].key.about = key.about /\ inbox[at].key.poll \in {key.poll, -1}
  <2>1. at \in 1 .. Len(inbox) /\ inbox[at] \in InboxItem /\ items[at] \in InboxItem
    BY <1>1, <1>4, <1>7
  <2>2. items[at].id = inbox[at].id
    BY <1>7 DEF Touched
  <2>3. /\ ItemSane(items[at], writes + 1)
        /\ \A seen \in InboxItem : SeenBefore(inbox[at], seen) => SeenBefore(items[at], seen)
    BY <1>1, <1>3, <1>5, <1>6, <1>7, <2>1, TouchedStaysSane
  <2>4. \A i \in 1 .. Len(items) : i # at /\ inbox[i].key.about = key.about =>
          inbox[i].key.poll # key.poll /\ inbox[i].key.poll # -1
    <3> SUFFICES ASSUME NEW i \in 1 .. Len(items), i # at, inbox[i].key.about = key.about
                 PROVE  inbox[i].key.poll # key.poll /\ inbox[i].key.poll # -1
      OBVIOUS
    <3>1. i \in 1 .. Len(inbox)
      BY <1>7
    <3>2. inbox[i].key.poll # -1 /\ inbox[at].key.poll # -1 /\ inbox[i].key.poll # inbox[at].key.poll
      BY <1>5, <1>7, <2>1, <3>1
    <3> QED BY <1>7, <3>2
  <2>5. ItemsApart(items)
    <3>1. DOMAIN items = 1 .. Len(items)
      BY <1>2
    <3> SUFFICES ASSUME NEW i \in 1 .. Len(items), NEW j \in 1 .. Len(items), i # j
                 PROVE  /\ items[i].id # items[j].id
                        /\ items[i].key.about = items[j].key.about =>
                             items[i].key.poll # items[j].key.poll /\ items[i].key.poll # -1
      BY <3>1 DEF ItemsApart
    <3>2. CASE i = at
      BY <1>3, <1>5, <1>6, <1>7, <2>2, <2>4, <3>2
    <3>3. CASE j = at
      BY <1>3, <1>5, <1>6, <1>7, <2>2, <2>4, <3>3
    <3>4. CASE i # at /\ j # at
      BY <1>3, <1>5, <1>7, <3>4
    <3> QED BY <3>2, <3>3, <3>4
  <2>6. ASSUME NEW i \in 1 .. Len(items), i # at
        PROVE  items[i] = inbox[i] /\ i \in 1 .. Len(inbox) /\ ItemSane(items[i], writes + 1)
    <3>1. items[i] = inbox[i] /\ i \in 1 .. Len(inbox) /\ inbox[i] \in InboxItem
      BY <1>1, <1>3, <1>4, <2>6
    <3>2. ItemSane(inbox[i], writes) /\ inbox[i].id \in Int /\ inbox[i].rev \in Nat
      BY <1>5, <3>1 DEF InboxItem
    <3>3. ItemSane(inbox[i], writes + 1)
      BY <1>1, <3>2 DEF ItemSane
    <3> QED BY <3>1, <3>3
  <2>7. \A o \in Operators : form[o] # NoForm =>
          \A i \in 1 .. Len(items) : SeenBefore(items[i], form[o])
    <3>1. \A o \in Operators : form[o] # NoForm =>
            form[o] \in InboxItem /\ \A i \in 1 .. Len(inbox) : SeenBefore(inbox[i], form[o])
      BY <1>1 DEF InboxInv, InboxTypes, InboxFormsInv
    <3> QED BY <1>7, <2>1, <2>3, <2>6, <3>1
  <2> QED BY <2>3, <2>5, <2>6, <2>7
<1>8. CASE /\ at = Len(inbox) + 1 /\ Len(items) = at
           /\ items[at].id = writes + 1 /\ items[at].rev = 0
           /\ items[at].recurrences = 0
           /\ \A i \in 1 .. Len(inbox) : ~Matches(inbox[i], key)
  <2>1. ASSUME NEW i \in 1 .. Len(items), i # at
        PROVE  /\ items[i] = inbox[i] /\ i \in 1 .. Len(inbox)
               /\ ItemSane(items[i], writes + 1)
               /\ items[i].id # items[at].id
               /\ items[i].key.about = key.about =>
                    items[i].key.poll # key.poll /\ items[i].key.poll # -1
    <3>1. items[i] = inbox[i] /\ i \in 1 .. Len(inbox) /\ inbox[i] \in InboxItem
      BY <1>1, <1>3, <1>4, <2>1
    <3>2. ItemSane(items[i], writes + 1) /\ items[i].id # items[at].id
      BY <1>1, <1>5, <1>8, <3>1 DEF ItemSane, InboxItem
    <3>3. ASSUME inbox[i].key.about = key.about
          PROVE  inbox[i].key.poll # key.poll /\ inbox[i].key.poll # -1
      <4>1. inbox[i].key \in [about : Subjects, poll : Nat \cup {-1}]
            /\ key \in [about : Subjects, poll : Nat]
        BY <3>1 DEF InboxItem, NotifiedKey
      <4>2. inbox[i].key # key /\ ~(inbox[i].key = NoKey(key.about) /\ key.about \in Conditions)
        BY <1>8, <3>1 DEF Matches
      <4>3. inbox[i].key.poll # key.poll
        BY <3>3, <4>1, <4>2
      <4>4. key.about \in Profiles => inbox[i].key.poll = 0
        BY <1>5, <3>1, <3>3 DEF ItemSane
      <4>5. key.about \in Conditions => inbox[i].key.poll # -1
        BY <3>3, <4>1, <4>2 DEF NoKey, Key
      <4> QED BY <1>6, <4>3, <4>4, <4>5 DEF Subjects
    <3> QED BY <3>1, <3>2, <3>3
  <2>2. ItemSane(items[at], writes + 1)
    <3>1. /\ items[at].id = writes + 1 /\ items[at].rev = 0 /\ items[at].recurrences = 0
          /\ items[at].key.about \in Profiles => items[at].key.poll = 0
      BY <1>3, <1>6, <1>8
    <3> QED BY <1>1, <3>1 DEF ItemSane
  <2>3. ItemsApart(items)
    <3>1. DOMAIN items = 1 .. Len(items)
      BY <1>2
    <3> SUFFICES ASSUME NEW i \in 1 .. Len(items), NEW j \in 1 .. Len(items), i # j
                 PROVE  /\ items[i].id # items[j].id
                        /\ items[i].key.about = items[j].key.about =>
                             items[i].key.poll # items[j].key.poll /\ items[i].key.poll # -1
      BY <3>1 DEF ItemsApart
    <3>2. CASE i = at
      BY <1>3, <1>6, <2>1, <3>2
    <3>3. CASE j = at
      BY <1>3, <1>6, <2>1, <3>3
    <3>4. CASE i # at /\ j # at
      BY <1>5, <2>1, <3>4
    <3> QED BY <3>2, <3>3, <3>4
  <2>4. \A o \in Operators : form[o] # NoForm =>
          \A i \in 1 .. Len(items) : SeenBefore(items[i], form[o])
    <3> SUFFICES ASSUME NEW o \in Operators, form[o] # NoForm, NEW i \in 1 .. Len(items)
                 PROVE  SeenBefore(items[i], form[o])
      OBVIOUS
    <3>1. /\ form[o] \in InboxItem /\ form[o].id <= writes
          /\ \A k \in 1 .. Len(inbox) : SeenBefore(inbox[k], form[o])
      BY <1>1 DEF InboxInv, InboxTypes, InboxFormsInv
    <3>2. CASE i = at
      BY <1>1, <1>8, <3>1, <3>2 DEF SeenBefore, InboxItem
    <3>3. CASE i # at
      BY <2>1, <3>1, <3>3
    <3> QED BY <3>2, <3>3
  <2> QED BY <2>1, <2>2, <2>3, <2>4
<1> QED BY <1>3, <1>7, <1>8

LEMMA NotifyKeepsInv ==
    ASSUME InboxInv, NEW key, NotifiedKey(key), key.poll <= MaxPolls, Notify(key),
           form' = form, polls' = polls,
           collection' \in [Collectors -> CollectionRun],
           \A c \in Collectors : collection'[c].pc = "notify" =>
             collection[c].pc = "notify" /\ collection'[c].poll = collection[c].poll
    PROVE  InboxInv'
<1> DEFINE stamp == Max({standing[key.about], key.poll, 1})
           evidence == [standing EXCEPT ![key.about] = stamp]
<1>1. key.about \in Subjects /\ key.poll \in Nat /\ standing[key.about] \in 0 .. LastStanding
  BY DEF NotifiedKey, InboxInv, InboxTypes
<1>2. stamp \in 0 .. LastStanding
  <2>1. stamp \in {standing[key.about], key.poll, 1}
    <3>1. standing[key.about] \in Int /\ key.poll \in Int /\ 1 \in Int
      BY <1>1
    <3> QED BY <3>1, LargestOf
  <2> HIDE DEF stamp
  <2> QED BY <1>1, <2>1, StandingsAreNumbers, InboxAssumption
<1> HIDE DEF stamp
<1>3. evidence \in [Subjects -> 0 .. LastStanding]
  BY <1>2 DEF InboxInv, InboxTypes
<1>4. PICK items : items = Notified(inbox, key, writes)
  OBVIOUS
<1>5. items \in Seq(InboxItem)
  BY <1>4, NotifiedIs
<1>6. Write(items, evidence)
  BY <1>4 DEF Notify, Notified, stamp
<1>7. /\ ItemsApart(items)
      /\ \A i \in 1 .. Len(items) : ItemSane(items[i], writes + 1)
      /\ \A o \in Operators : form[o] # NoForm =>
           \A i \in 1 .. Len(items) : SeenBefore(items[i], form[o])
  BY <1>4, NotifiedStaysSane
<1>8. /\ form' \in [Operators -> InboxItem \cup {NoForm}]
      /\ \A o \in Operators : form'[o] \in {form[o], NoForm}
  BY DEF InboxInv, InboxTypes
<1> HIDE DEF evidence
<1> QED BY <1>3, <1>5, <1>6, <1>7, <1>8, WriteKeepsInv

LEMMA SignalKeys ==
    /\ \A s \in Conditions, poll \in Nat : NotifiedKey(Key(s, poll))
    /\ \A p \in Profiles : NotifiedKey(Key(p, 0))
    /\ \A s, poll : Key(s, poll).about = s /\ Key(s, poll).poll = poll
  BY InboxAssumption DEF NotifiedKey, Key, Subjects

LEMMA NotifySignalKeepsInv ==
    ASSUME InboxInv, NEW c \in Collectors, NEW s \in Conditions, NotifySignal(c, s)
    PROVE  InboxInv'
<1> DEFINE run == collection[c]
           key == Key(s, run.poll)
<1>1. /\ run \in CollectionRun /\ run.pc = "notify" /\ s \in run.todo
      /\ Notify(key) /\ form' = form /\ polls' = polls
      /\ collection' = [collection EXCEPT ![c].todo = @ \ {s}]
  BY DEF NotifySignal, InboxInv, InboxTypes
<1>2. run.poll \in 1 .. Len(polls) /\ Len(polls) <= MaxPolls /\ Len(polls) \in Nat /\ MaxPolls \in Nat
  BY <1>1, InboxAssumption DEF InboxInv, InboxTypes, CollectionsInv
<1>3. NotifiedKey(key) /\ key.poll <= MaxPolls
  BY <1>2, SignalKeys
<1>4. PICK now \in CollectionRun :
        now = [run EXCEPT !.todo = @ \ {s}] /\ now.pc = run.pc /\ now.poll = run.poll
  <2>1. PICK rest \in SUBSET Conditions : rest = run.todo \ {s}
    <3>1. run.todo \ {s} \in SUBSET Conditions
      BY <1>1 DEF CollectionRun
    <3> QED BY <3>1
  <2> DEFINE now == [run EXCEPT !.todo = rest]
  <2>2. now \in CollectionRun /\ now.pc = run.pc /\ now.poll = run.poll
    BY <1>1 DEF CollectionRun
  <2>3. now = [run EXCEPT !.todo = @ \ {s}]
    BY <2>1
  <2> QED BY <2>2, <2>3
<1>5. collection' = [collection EXCEPT ![c] = now]
  BY <1>1, <1>4
<1>6. /\ collection' \in [Collectors -> CollectionRun]
      /\ \A d \in Collectors : collection'[d].pc = "notify" =>
           collection[d].pc = "notify" /\ collection'[d].poll = collection[d].poll
  BY <1>1, <1>4, <1>5 DEF InboxInv, InboxTypes
<1> HIDE DEF key
<1> QED BY <1>1, <1>3, <1>6, NotifyKeepsInv

LEMMA ReportFailureKeepsInv ==
    ASSUME InboxInv, NEW p \in Profiles, ReportFailure(p)
    PROVE  InboxInv'
<1> DEFINE key == Key(p, 0)
<1>1. Notify(key) /\ form' = form /\ polls' = polls /\ collection' = collection
  BY DEF ReportFailure
<1>2. NotifiedKey(key) /\ key.poll <= MaxPolls
  BY SignalKeys, InboxAssumption
<1>3. collection' \in [Collectors -> CollectionRun]
  BY <1>1 DEF InboxInv, InboxTypes
<1> HIDE DEF key
<1> QED BY <1>1, <1>2, <1>3, NotifyKeepsInv

---------------------------------------------------------------------------
(* Inbox: the end of a collection, and operators                           *)

\* Items that are touched and keep their keys.
LEMMA TouchedWriteKeepsInv ==
    ASSUME InboxInv,
           NEW items \in Seq(InboxItem), NEW evidence \in [Subjects -> 0 .. LastStanding],
           Write(items, evidence),
           Len(items) = Len(inbox),
           \A i \in 1 .. Len(inbox) : Touched(items[i], inbox[i]) /\ items[i].key = inbox[i].key,
           form' \in [Operators -> InboxItem \cup {NoForm}],
           \A o \in Operators : form'[o] \in {form[o], NoForm},
           collection' \in [Collectors -> CollectionRun],
           \A c \in Collectors : collection'[c].pc = "notify" =>
             collection[c].pc = "notify" /\ collection'[c].poll = collection[c].poll,
           polls' = polls
    PROVE  InboxInv'
<1>1. /\ inbox \in Seq(InboxItem) /\ Len(inbox) \in Nat /\ DOMAIN inbox = 1 .. Len(inbox)
      /\ \A i \in 1 .. Len(inbox) : inbox[i] \in InboxItem /\ items[i] \in InboxItem
      /\ DOMAIN items = 1 .. Len(inbox)
      /\ writes \in Nat
  BY DEF InboxInv, InboxTypes
<1>2. ASSUME NEW i \in 1 .. Len(inbox)
      PROVE  /\ items[i].id = inbox[i].id
             /\ ItemSane(items[i], writes + 1)
             /\ \A seen \in InboxItem : SeenBefore(inbox[i], seen) => SeenBefore(items[i], seen)
  <2>1. ItemSane(inbox[i], writes)
    BY <1>1 DEF InboxInv
  <2>2. items[i].key.about \in Profiles => items[i].key.poll = 0
    BY <2>1 DEF ItemSane
  <2>3. items[i].id = inbox[i].id
    BY DEF Touched
  <2> QED BY <1>1, <2>1, <2>2, <2>3, TouchedStaysSane
<1>3. ItemsApart(items)
  BY <1>1, <1>2 DEF InboxInv, ItemsApart
<1>4. \A o \in Operators : form[o] # NoForm =>
        \A i \in 1 .. Len(items) : SeenBefore(items[i], form[o])
  <2>1. \A o \in Operators : form[o] # NoForm =>
          form[o] \in InboxItem /\ \A i \in 1 .. Len(inbox) : SeenBefore(inbox[i], form[o])
    BY <1>1 DEF InboxInv, InboxTypes, InboxFormsInv
  <2> QED BY <1>2, <2>1
<1> QED BY <1>2, <1>3, <1>4, WriteKeepsInv

LEMMA ClosedIs ==
    ASSUME NEW item \in InboxItem
    PROVE  /\ Closed(item) \in InboxItem /\ Closed(item).key = item.key
           /\ Touched(Closed(item), item)
<1>1. PICK rev \in Nat : rev = item.rev + 1
  <2>1. item.rev + 1 \in Nat
    BY DEF InboxItem
  <2> QED BY <2>1
<1> DEFINE now == [item EXCEPT !.status = "resolved", !.rev = rev]
<1>2. /\ now \in InboxItem /\ now.key = item.key /\ now.id = item.id
      /\ now.rev = item.rev + 1 /\ now.recurrences = item.recurrences
  BY <1>1, Statuses DEF InboxItem
<1>3. Closed(item) = now
  BY <1>1 DEF Closed
<1> HIDE DEF now
<1>4. Touched(now, item)
  BY <1>2 DEF Touched
<1> QED BY <1>2, <1>3, <1>4

LEMMA RestingIs == Resting \in CollectionRun /\ Resting.pc = "rest"
  BY DEF Resting, CollectionRun

\* What a collection that proves recovery closes, and the evidence it leaves.
Gone(run) == {i \in DOMAIN inbox : Absent(inbox[i], {Key(s, run.poll) : s \in run.told})}
AfterRecovery(run) ==
    [i \in DOMAIN inbox |-> IF i \in Gone(run) THEN Closed(inbox[i]) ELSE inbox[i]]
RecoveredEvidence(run) ==
    [s \in Subjects |->
       IF run.complete /\ s \in Conditions \ run.told /\ standing[s] <= run.poll
       THEN 0 ELSE standing[s]]

LEMMA AfterRecoveryIs ==
    ASSUME InboxInv, NEW run
    PROVE  LET items == AfterRecovery(run)
           IN  /\ items \in Seq(InboxItem) /\ Len(items) = Len(inbox)
               /\ \A i \in 1 .. Len(inbox) :
                    /\ Touched(items[i], inbox[i]) /\ items[i].key = inbox[i].key
                    /\ i \notin Gone(run) => items[i] = inbox[i]
               /\ RecoveredEvidence(run) \in [Subjects -> 0 .. LastStanding]
<1> DEFINE items == AfterRecovery(run)
<1>1. /\ inbox \in Seq(InboxItem) /\ Len(inbox) \in Nat /\ DOMAIN inbox = 1 .. Len(inbox)
      /\ \A i \in 1 .. Len(inbox) : inbox[i] \in InboxItem
  BY DEF InboxInv, InboxTypes
<1>2. items = [i \in 1 .. Len(inbox) |-> IF i \in Gone(run) THEN Closed(inbox[i]) ELSE inbox[i]]
  BY <1>1 DEF AfterRecovery
<1> HIDE DEF items
<1>3. ASSUME NEW i \in 1 .. Len(inbox)
      PROVE  /\ items[i] \in InboxItem
             /\ Touched(items[i], inbox[i]) /\ items[i].key = inbox[i].key
             /\ i \notin Gone(run) => items[i] = inbox[i]
  <2>1. CASE i \in Gone(run)
    BY <1>1, <1>2, <2>1, ClosedIs
  <2>2. CASE i \notin Gone(run)
    BY <1>1, <1>2, <2>2 DEF Touched
  <2> QED BY <2>1, <2>2
<1>4. items \in Seq(InboxItem) /\ Len(items) = Len(inbox)
  <2>1. items \in [1 .. Len(inbox) -> InboxItem]
    BY <1>2, <1>3
  <2> QED BY <1>1, <2>1
<1>5. RecoveredEvidence(run) \in [Subjects -> 0 .. LastStanding]
  BY StandingsAreNumbers DEF RecoveredEvidence, InboxInv, InboxTypes
<1> QED BY <1>3, <1>4, <1>5 DEF items

LEMMA ReconcileWrites ==
    ASSUME NEW c \in Collectors, Reconcile(c)
    PROVE  /\ collection[c].pc = "notify" /\ collection[c].todo = {}
           /\ collection' = [collection EXCEPT ![c] = Resting]
           /\ form' = form /\ polls' = polls
           /\ \/ UNCHANGED <<inbox, writes, standing>>
              \/ /\ ProvesRecovery(collection[c])
                 /\ Write(AfterRecovery(collection[c]), RecoveredEvidence(collection[c]))
  BY DEF Reconcile, AfterRecovery, RecoveredEvidence, Gone

LEMMA ReconcileOvertakes ==
    ASSUME NEW c \in Collectors, Reconcile(c)
    PROVE  /\ heard' = heard
           /\ \/ UNCHANGED <<inbox, standing, overtaken>>
              \/ /\ ProvesRecovery(collection[c])
                 /\ Write(AfterRecovery(collection[c]), RecoveredEvidence(collection[c]))
                 /\ overtaken \subseteq overtaken'
                 /\ \A i \in Gone(collection[c]) :
                      inbox[i].key.poll > collection[c].poll => inbox[i].key.about \in overtaken'
  BY DEF Reconcile, AfterRecovery, RecoveredEvidence, Gone

\* A collection goes to rest; nothing is written.
LEMMA RestKeepsInv ==
    ASSUME InboxInv, NEW c \in Collectors,
           collection' = [collection EXCEPT ![c] = Resting],
           UNCHANGED <<inbox, polls, form, writes, standing>>
    PROVE  InboxInv'
<1>1. /\ collection' \in [Collectors -> CollectionRun]
      /\ \A d \in Collectors : collection'[d].pc = "notify" => collection'[d] = collection[d]
  BY RestingIs DEF InboxInv, InboxTypes
<1>2. CollectionsInv'
  BY <1>1 DEF InboxInv, CollectionsInv
<1>3. InboxTypes' /\ InboxFormsInv'
  BY <1>1 DEF InboxInv, InboxTypes, InboxFormsInv, SeenBefore, SameItem
<1> QED BY <1>2, <1>3 DEF InboxInv, ItemsApart, ItemSane

LEMMA ReconcileKeepsInv ==
    ASSUME InboxInv, NEW c \in Collectors, Reconcile(c)
    PROVE  InboxInv'
<1>1. /\ collection' = [collection EXCEPT ![c] = Resting]
      /\ form' = form /\ polls' = polls
  BY ReconcileWrites
<1>2. CASE UNCHANGED <<inbox, writes, standing>>
  BY <1>1, <1>2, RestKeepsInv
<1>3. CASE Write(AfterRecovery(collection[c]), RecoveredEvidence(collection[c]))
  <2>1. PICK items : items = AfterRecovery(collection[c])
    OBVIOUS
  <2>2. PICK evidence : evidence = RecoveredEvidence(collection[c])
    OBVIOUS
  <2>3. /\ items \in Seq(InboxItem) /\ Len(items) = Len(inbox)
        /\ \A i \in 1 .. Len(inbox) : Touched(items[i], inbox[i]) /\ items[i].key = inbox[i].key
        /\ evidence \in [Subjects -> 0 .. LastStanding]
    BY <2>1, <2>2, AfterRecoveryIs
  <2>4. /\ collection' \in [Collectors -> CollectionRun]
        /\ \A d \in Collectors : collection'[d].pc = "notify" =>
             collection[d].pc = "notify" /\ collection'[d].poll = collection[d].poll
    BY <1>1, RestingIs DEF InboxInv, InboxTypes
  <2>5. form' \in [Operators -> InboxItem \cup {NoForm}]
    BY <1>1 DEF InboxInv, InboxTypes
  <2>6. Write(items, evidence)
    BY <1>3, <2>1, <2>2
  <2> QED BY <1>1, <2>3, <2>4, <2>5, <2>6, TouchedWriteKeepsInv
<1> QED BY <1>2, <1>3, ReconcileWrites

LEMMA MovedIs ==
    ASSUME NEW item \in InboxItem, NEW status \in DOMAIN Transition
    PROVE  /\ Moved(item, status) \in InboxItem /\ Moved(item, status).key = item.key
           /\ Moved(item, status).status = status
           /\ Touched(Moved(item, status), item)
<1>1. PICK rev \in Nat : rev = item.rev + 1
  <2>1. item.rev + 1 \in Nat
    BY DEF InboxItem
  <2> QED BY <2>1
<1>2. PICK asleep \in BOOLEAN :
        asleep = IF status = "snoozed" THEN TRUE
                 ELSE IF item.status = "snoozed" THEN FALSE ELSE item.asleep
  <2>1. item.asleep \in BOOLEAN
    BY DEF InboxItem
  <2>2. CASE status = "snoozed"
    BY <2>2
  <2>3. CASE status # "snoozed" /\ item.status = "snoozed"
    BY <2>3
  <2>4. CASE status # "snoozed" /\ item.status # "snoozed"
    BY <2>1, <2>4
  <2> QED BY <2>2, <2>3, <2>4
<1> DEFINE now == [item EXCEPT !.status = status, !.rev = rev, !.asleep = asleep]
<1>3. /\ now \in InboxItem /\ now.key = item.key /\ now.id = item.id /\ now.status = status
      /\ now.rev = item.rev + 1 /\ now.recurrences = item.recurrences
  BY <1>1 DEF InboxItem
<1>4. Moved(item, status) = now
  BY <1>1, <1>2 DEF Moved
<1> HIDE DEF now
<1>5. Touched(now, item)
  BY <1>3 DEF Touched
<1> QED BY <1>3, <1>4, <1>5

\* What an accepted form leaves, and the evidence that stands then.
AfterMove(i, status) == [inbox EXCEPT ![i] = Moved(@, status)]
MovedEvidence(i, status) ==
    IF status \in TerminalStatuses THEN [standing EXCEPT ![inbox[i].key.about] = 0] ELSE standing

LEMMA AfterMoveIs ==
    ASSUME InboxInv, NEW i \in DOMAIN inbox, NEW status \in Moves
    PROVE  LET items == AfterMove(i, status)
           IN  /\ items \in Seq(InboxItem) /\ Len(items) = Len(inbox)
               /\ items[i].status = status
               /\ \A k \in 1 .. Len(inbox) :
                    /\ Touched(items[k], inbox[k]) /\ items[k].key = inbox[k].key
                    /\ k # i => items[k] = inbox[k]
               /\ MovedEvidence(i, status) \in [Subjects -> 0 .. LastStanding]
<1>1. /\ inbox \in Seq(InboxItem) /\ Len(inbox) \in Nat /\ DOMAIN inbox = 1 .. Len(inbox)
      /\ inbox[i] \in InboxItem
  BY DEF InboxInv, InboxTypes
<1>2. PICK new \in InboxItem :
        /\ new = Moved(inbox[i], status) /\ new.key = inbox[i].key /\ new.status = status
        /\ Touched(new, inbox[i])
  <2>1. status \in DOMAIN Transition
    BY Statuses
  <2> QED BY <1>1, <2>1, MovedIs
<1>3. AfterMove(i, status) = [inbox EXCEPT ![i] = new]
  BY <1>2 DEF AfterMove
<1>4. 0 \in 0 .. LastStanding
  BY StandingsAreNumbers
<1>5. MovedEvidence(i, status) \in [Subjects -> 0 .. LastStanding]
  BY <1>4 DEF MovedEvidence, InboxInv, InboxTypes
<1> QED BY <1>1, <1>2, <1>3, <1>5 DEF Touched

LEMMA SubmitWrites ==
    ASSUME NEW o \in Operators, NEW i \in DOMAIN inbox, NEW status \in Moves, Submit(o, i, status)
    PROVE  /\ Write(AfterMove(i, status), MovedEvidence(i, status))
           /\ form' = [form EXCEPT ![o] = NoForm]
           /\ polls' = polls /\ collection' = collection
  BY DEF Submit, AfterMove, MovedEvidence

LEMMA SubmitKeepsInv ==
    ASSUME InboxInv, NEW o \in Operators, NEW i \in DOMAIN inbox, NEW status \in Moves,
           Submit(o, i, status)
    PROVE  InboxInv'
<1>1. PICK items : items = AfterMove(i, status)
  OBVIOUS
<1>2. PICK evidence : evidence = MovedEvidence(i, status)
  OBVIOUS
<1>3. /\ items \in Seq(InboxItem) /\ Len(items) = Len(inbox)
      /\ \A k \in 1 .. Len(inbox) : Touched(items[k], inbox[k]) /\ items[k].key = inbox[k].key
      /\ evidence \in [Subjects -> 0 .. LastStanding]
  BY <1>1, <1>2, AfterMoveIs
<1>4. /\ Write(items, evidence)
      /\ form' = [form EXCEPT ![o] = NoForm]
      /\ polls' = polls /\ collection' = collection
  BY <1>1, <1>2, SubmitWrites
<1>5. /\ form' \in [Operators -> InboxItem \cup {NoForm}]
      /\ \A q \in Operators : form'[q] \in {form[q], NoForm}
      /\ collection' \in [Collectors -> CollectionRun]
  BY <1>4 DEF InboxInv, InboxTypes
<1> QED BY <1>3, <1>4, <1>5, TouchedWriteKeepsInv

\* Time wakes an item: its revision stays.
LEMMA WakeIs ==
    ASSUME InboxInv, NEW i \in DOMAIN inbox, Wake(i)
    PROVE  /\ UNCHANGED <<polls, collection, form, writes, standing>>
           /\ inbox' \in Seq(InboxItem) /\ Len(inbox') = Len(inbox)
           /\ DOMAIN inbox' = 1 .. Len(inbox) /\ DOMAIN inbox = 1 .. Len(inbox)
           /\ \A k \in 1 .. Len(inbox) :
                /\ inbox'[k].id = inbox[k].id /\ inbox'[k].key = inbox[k].key
                /\ inbox'[k].status = inbox[k].status /\ inbox'[k].rev = inbox[k].rev
                /\ inbox'[k].recurrences = inbox[k].recurrences
<1>1. /\ inbox \in Seq(InboxItem) /\ Len(inbox) \in Nat /\ DOMAIN inbox = 1 .. Len(inbox)
      /\ inbox[i] \in InboxItem
  BY DEF InboxInv, InboxTypes
<1> DEFINE now == [inbox[i] EXCEPT !.asleep = FALSE]
<1>2. /\ now \in InboxItem
      /\ now.id = inbox[i].id /\ now.key = inbox[i].key /\ now.status = inbox[i].status
      /\ now.rev = inbox[i].rev /\ now.recurrences = inbox[i].recurrences
  BY <1>1 DEF InboxItem
<1>3. inbox' = [inbox EXCEPT ![i] = now] /\ UNCHANGED <<polls, collection, form, writes, standing>>
  BY DEF Wake
<1> HIDE DEF now
<1> QED BY <1>1, <1>2, <1>3

LEMMA WakeKeepsInv ==
    ASSUME InboxInv, NEW i \in DOMAIN inbox, Wake(i)
    PROVE  InboxInv'
<1>1. /\ UNCHANGED <<polls, collection, form, writes, standing>>
      /\ inbox' \in Seq(InboxItem) /\ Len(inbox') = Len(inbox)
      /\ DOMAIN inbox' = 1 .. Len(inbox) /\ DOMAIN inbox = 1 .. Len(inbox)
      /\ \A k \in 1 .. Len(inbox) :
           /\ inbox'[k].id = inbox[k].id /\ inbox'[k].key = inbox[k].key
           /\ inbox'[k].status = inbox[k].status /\ inbox'[k].rev = inbox[k].rev
           /\ inbox'[k].recurrences = inbox[k].recurrences
  BY WakeIs
<1>2. InboxTypes' /\ CollectionsInv'
  BY <1>1 DEF InboxInv, InboxTypes, CollectionsInv
<1>3. ItemsApart(inbox)' /\ Len(inbox') <= MaxItems
  BY <1>1 DEF InboxInv, ItemsApart
<1>4. \A k \in DOMAIN inbox' : ItemSane(inbox[k], writes)'
  BY <1>1 DEF InboxInv, ItemSane
<1>5. InboxFormsInv'
  BY <1>1 DEF InboxInv, InboxFormsInv, SeenBefore, SameItem
<1> QED BY <1>2, <1>3, <1>4, <1>5 DEF InboxInv

\* A form shows the item as it is.
LEMMA OpenFormKeepsInv ==
    ASSUME InboxInv, NEW o \in Operators, NEW i \in DOMAIN inbox, OpenForm(o, i)
    PROVE  InboxInv'
<1>1. /\ UNCHANGED <<inbox, polls, collection, writes, standing>>
      /\ form' = [form EXCEPT ![o] = inbox[i]]
  BY DEF OpenForm
<1>2. /\ inbox \in Seq(InboxItem) /\ inbox[i] \in InboxItem
      /\ \A k \in DOMAIN inbox : inbox[k] \in InboxItem
  BY DEF InboxInv, InboxTypes
<1>3. InboxTypes' /\ CollectionsInv'
  BY <1>1, <1>2 DEF InboxInv, InboxTypes, CollectionsInv
<1>4. form'[o] = inbox[i] /\ \A q \in Operators : q # o => form'[q] = form[q]
  BY <1>1 DEF InboxInv, InboxTypes
<1>5. inbox[i].id <= writes /\ \A k \in DOMAIN inbox : SeenBefore(inbox[k], inbox[i])
  <2>1. ASSUME NEW k \in DOMAIN inbox, inbox[k].id = inbox[i].id
        PROVE  k = i
    BY <2>1 DEF InboxInv, ItemsApart
  <2>2. inbox[i].rev \in Nat
    BY <1>2 DEF InboxItem
  <2> QED BY <2>1, <2>2 DEF InboxInv, ItemSane, SeenBefore, SameItem
<1>6. InboxFormsInv'
  <2> SUFFICES ASSUME NEW q \in Operators, form'[q] # NoForm
               PROVE  form'[q].id <= writes /\ \A k \in DOMAIN inbox : SeenBefore(inbox[k], form'[q])
    BY <1>1 DEF InboxFormsInv, SeenBefore, SameItem
  <2>1. CASE q = o
    BY <1>4, <1>5, <2>1
  <2>2. CASE q # o
    BY <1>4, <2>2 DEF InboxInv, InboxFormsInv
  <2> QED BY <2>1, <2>2
<1> QED BY <1>1, <1>3, <1>6 DEF InboxInv, ItemsApart, ItemSane

LEMMA RefuseKeepsInv ==
    ASSUME InboxInv, NEW o \in Operators, NEW status, Refuse(o, status)
    PROVE  InboxInv'
<1>1. /\ UNCHANGED <<inbox, polls, collection, writes, standing>>
      /\ form' = [form EXCEPT ![o] = NoForm]
  BY DEF Refuse
<1>2. InboxTypes' /\ CollectionsInv'
  BY <1>1 DEF InboxInv, InboxTypes, CollectionsInv
<1>3. \A q \in Operators : form'[q] # NoForm => form'[q] = form[q]
  BY <1>1 DEF InboxInv, InboxTypes
<1>4. InboxFormsInv'
  BY <1>1, <1>3 DEF InboxInv, InboxFormsInv, SeenBefore, SameItem
<1> QED BY <1>1, <1>2, <1>4 DEF InboxInv, ItemsApart, ItemSane

LEMMA PollKeepsInv ==
    ASSUME InboxInv, NEW found \in SUBSET Conditions, Poll(found)
    PROVE  InboxInv'
<1>1. /\ UNCHANGED <<inbox, collection, form, writes, standing>>
      /\ polls' = Append(polls, found) /\ Len(polls) < MaxPolls
  BY DEF Poll
<1>2. /\ polls' \in Seq(SUBSET Conditions) /\ Len(polls') = Len(polls) + 1
      /\ Len(polls) \in Nat /\ MaxPolls \in Nat
  BY <1>1, InboxAssumption DEF InboxInv, InboxTypes
<1>3. CollectionsInv'
  BY <1>1, <1>2 DEF InboxInv, InboxTypes, CollectionsInv
<1>4. InboxTypes' /\ InboxFormsInv'
  BY <1>1, <1>2 DEF InboxInv, InboxTypes, InboxFormsInv, SeenBefore, SameItem
<1> QED BY <1>1, <1>3, <1>4 DEF InboxInv, ItemsApart, ItemSane

\* The polls that a collection may be about.
LEMMA CollectedPolls ==
    ASSUME InboxInv, NEW poll \in Max({1, Len(polls) - MaxLag}) .. Len(polls)
    PROVE  /\ poll \in 1 .. Len(polls) /\ poll >= Len(polls) - MaxLag
           /\ polls[poll] \subseteq Conditions
<1>1. PICK oldest \in Int : oldest = Len(polls) - MaxLag
  <2>1. Len(polls) - MaxLag \in Int
    BY InboxAssumption DEF InboxInv, InboxTypes
  <2> QED BY <2>1
<1>2. Max({1, oldest}) \in {1, oldest} /\ Max({1, oldest}) >= 1 /\ Max({1, oldest}) >= oldest
  <2>1. 1 \in Int
    OBVIOUS
  <2> QED BY <2>1, LargerOf
<1>3. poll \in 1 .. Len(polls) /\ poll >= oldest
  <2>1. Len(polls) \in Nat /\ poll \in Max({1, oldest}) .. Len(polls)
    BY <1>1 DEF InboxInv, InboxTypes
  <2> QED BY <1>2, <2>1
<1> QED BY <1>1, <1>3 DEF InboxInv, InboxTypes

LEMMA CollectKeepsInv ==
    ASSUME InboxInv, NEW c \in Collectors, NEW poll \in 1 .. Len(polls),
           NEW told \in SUBSET Conditions, NEW complete \in BOOLEAN, NEW stale \in BOOLEAN,
           Collect(c, poll, told, complete, stale)
    PROVE  InboxInv'
<1>1. PICK old \in BOOLEAN : old = (stale /\ told # {})
  OBVIOUS
<1> DEFINE now == [pc |-> "notify", poll |-> poll, told |-> told, todo |-> told,
                   complete |-> complete, stale |-> old]
<1>2. now \in CollectionRun /\ now.pc = "notify" /\ now.poll = poll
  <2>1. poll \in Nat
    OBVIOUS
  <2> QED BY <2>1 DEF CollectionRun
<1>3. /\ UNCHANGED <<inbox, polls, form, writes, standing>>
      /\ collection' = [collection EXCEPT ![c] = now]
  BY <1>1 DEF Collect
<1> HIDE DEF now
<1>4. InboxTypes' /\ CollectionsInv'
  BY <1>2, <1>3 DEF InboxInv, InboxTypes, CollectionsInv
<1>5. InboxFormsInv'
  BY <1>3 DEF InboxInv, InboxFormsInv, SeenBefore, SameItem
<1> QED BY <1>3, <1>4, <1>5 DEF InboxInv, ItemsApart, ItemSane

---------------------------------------------------------------------------
(* Inbox: every behaviour                                                  *)

\* The file at first: items of different conditions, without keys.
LEMMA InboxInitIs ==
    ASSUME InboxInit
    PROVE  /\ Len(inbox) \in Nat /\ DOMAIN inbox = 1 .. Len(inbox) /\ Len(inbox) <= MaxItems
           /\ \A i \in 1 .. Len(inbox) :
                inbox[i].key.about \in Conditions /\ inbox[i] = NewItem(-i, NoKey(inbox[i].key.about))
           /\ \A i, j \in 1 .. Len(inbox) : inbox[i].key.about = inbox[j].key.about => i = j
<1> DEFINE n == Cardinality(Legacy)
           names == SetToSeq(Legacy)
<1>1. IsFiniteSet(Legacy) /\ Legacy \subseteq Conditions /\ n <= MaxItems
  BY InboxAssumption
<1>2. n \in Nat
  BY <1>1, FS_CardinalityType
<1>3. names \in [1 .. n -> Legacy] /\ IsInjective(names)
  <2>1. PICK f : f \in Bijection(1 .. n, Legacy)
    BY <1>1, FS_CardinalityType DEF ExistsBijection
  <2>2. f \in [1 .. n -> Legacy] /\ IsInjective(f)
    BY <2>1 DEF Bijection, Injection
  <2> HIDE DEF n
  <2>3. \E g \in [1 .. n -> Legacy] : IsInjective(g)
    BY <2>2
  <2> QED BY <2>3 DEF SetToSeq, n
<1> HIDE DEF n, names
<1>4. inbox = [i \in 1 .. n |-> NewItem(-i, NoKey(names[i]))]
  BY DEF InboxInit, n, names
<1>5. /\ DOMAIN inbox = 1 .. n /\ Len(inbox) = n
      /\ \A i \in 1 .. n : inbox[i] = NewItem(-i, NoKey(names[i])) /\ inbox[i].key.about = names[i]
  BY <1>2, <1>4 DEF NewItem, NoKey, Key
<1>6. \A i, j \in 1 .. n : names[i] = names[j] => i = j
  BY <1>3 DEF IsInjective
<1> QED BY <1>1, <1>2, <1>3, <1>5, <1>6

LEMMA InboxInitInv == InboxInit => InboxInv
<1> SUFFICES ASSUME InboxInit PROVE InboxInv
  OBVIOUS
<1>1. /\ Len(inbox) \in Nat /\ DOMAIN inbox = 1 .. Len(inbox) /\ Len(inbox) <= MaxItems
      /\ \A i \in 1 .. Len(inbox) :
           inbox[i].key.about \in Conditions /\ inbox[i] = NewItem(-i, NoKey(inbox[i].key.about))
      /\ \A i, j \in 1 .. Len(inbox) : inbox[i].key.about = inbox[j].key.about => i = j
  BY InboxInitIs
<1>2. /\ polls = <<>> /\ collection = [c \in Collectors |-> Resting]
      /\ form = [o \in Operators |-> NoForm] /\ writes = 0
      /\ standing = [s \in Subjects |-> 0]
  BY DEF InboxInit
<1>3. ASSUME NEW i \in 1 .. Len(inbox)
      PROVE  /\ inbox[i] \in InboxItem
             /\ inbox[i].id = -i /\ inbox[i].rev = 0 /\ inbox[i].recurrences = 0
             /\ inbox[i].key.about \in Conditions
             /\ ItemSane(inbox[i], writes)
  <2>1. inbox[i].key.about \in Conditions /\ inbox[i] = NewItem(-i, NoKey(inbox[i].key.about))
    BY <1>1
  <2>2. PICK s \in Conditions : s = inbox[i].key.about
    BY <2>1
  <2>3. NoKey(s) \in [about : Subjects, poll : Nat \cup {-1}]
    BY DEF NoKey, Key, Subjects
  <2>4. inbox[i] \in InboxItem
    <3>1. PICK key \in [about : Subjects, poll : Nat \cup {-1}] : key = NoKey(s)
      BY <2>3
    <3>2. PICK id \in Int : id = -i
      <4>1. -i \in Int
        BY <1>1
      <4> QED BY <4>1
    <3>3. NewItem(id, key) \in InboxItem
      BY Statuses DEF NewItem, InboxItem
    <3> QED BY <2>1, <2>2, <3>1, <3>2, <3>3
  <2>5. inbox[i].id = -i /\ inbox[i].rev = 0 /\ inbox[i].recurrences = 0
    BY <2>1, <2>2 DEF NewItem
  <2>6. ItemSane(inbox[i], writes)
    BY <1>1, <1>2, <2>2, <2>5, InboxAssumption DEF ItemSane
  <2> QED BY <2>1, <2>4, <2>5, <2>6
<1>4. inbox \in Seq(InboxItem)
  <2>1. PICK n \in Nat : inbox = [i \in 1 .. n |-> NewItem(-i, NoKey(SetToSeq(Legacy)[i]))]
    BY InboxAssumption, FS_CardinalityType DEF InboxInit
  <2>2. Len(inbox) = n
    BY <2>1
  <2>3. \A i \in 1 .. n : inbox[i] \in InboxItem
    BY <1>3, <2>2
  <2>4. inbox \in [1 .. n -> InboxItem]
    BY <2>1, <2>3
  <2> QED BY <2>4
<1>5. InboxTypes
  <2>1. 0 \in 0 .. LastStanding
    BY StandingsAreNumbers
  <2> QED BY <1>2, <1>4, <2>1, RestingIs DEF InboxTypes
<1>6. ItemsApart(inbox)
  BY <1>1, <1>3 DEF ItemsApart
<1>7. InboxFormsInv
  BY <1>2 DEF InboxFormsInv
<1>8. CollectionsInv
  BY <1>2, RestingIs, InboxAssumption DEF CollectionsInv
<1> QED BY <1>1, <1>3, <1>5, <1>6, <1>7, <1>8 DEF InboxInv

LEMMA InboxNextInv == InboxInv /\ [InboxNext]_inboxVars => InboxInv'
<1> SUFFICES ASSUME InboxInv, [InboxNext]_inboxVars PROVE InboxInv'
  OBVIOUS
<1>1. ASSUME NEW found \in SUBSET Conditions, Poll(found)
      PROVE  InboxInv'
  BY <1>1, PollKeepsInv
<1>2. ASSUME NEW c \in Collectors, NEW poll \in Max({1, Len(polls) - MaxLag}) .. Len(polls),
             NEW complete \in BOOLEAN, NEW stale \in BOOLEAN, NEW told \in SUBSET polls[poll],
             Collect(c, poll, told, complete, stale)
      PROVE  InboxInv'
  <2>1. poll \in 1 .. Len(polls) /\ polls[poll] \subseteq Conditions
    BY CollectedPolls
  <2>2. told \in SUBSET Conditions
    BY <2>1
  <2> QED BY <1>2, <2>1, <2>2, CollectKeepsInv
<1>3. ASSUME NEW c \in Collectors,
             (\E s \in Conditions : NotifySignal(c, s)) \/ CollectFails(c) \/ Reconcile(c)
      PROVE  InboxInv'
  <2>1. ASSUME CollectFails(c)
        PROVE  InboxInv'
    BY <2>1, RestKeepsInv DEF CollectFails
  <2> QED BY <1>3, <2>1, NotifySignalKeepsInv, ReconcileKeepsInv
<1>4. ASSUME NEW p \in Profiles, ReportFailure(p)
      PROVE  InboxInv'
  BY <1>4, ReportFailureKeepsInv
<1>5. ASSUME NEW o \in Operators, NEW i \in DOMAIN inbox, OpenForm(o, i)
      PROVE  InboxInv'
  BY <1>5, OpenFormKeepsInv
<1>6. ASSUME NEW o \in Operators, NEW status \in Moves,
             (\E i \in DOMAIN inbox : Submit(o, i, status)) \/ Refuse(o, status)
      PROVE  InboxInv'
  BY <1>6, SubmitKeepsInv, RefuseKeepsInv
<1>7. ASSUME NEW i \in DOMAIN inbox, Wake(i)
      PROVE  InboxInv'
  BY <1>7, WakeKeepsInv
<1>8. CASE UNCHANGED inboxVars
  <2>1. InboxTypes' /\ InboxFormsInv' /\ CollectionsInv'
    BY <1>8 DEF inboxVars, InboxInv, InboxTypes, InboxFormsInv, SeenBefore, SameItem, CollectionsInv
  <2> QED BY <1>8, <2>1 DEF inboxVars, InboxInv, ItemsApart, ItemSane
<1> QED BY <1>1, <1>2, <1>3, <1>4, <1>5, <1>6, <1>7, <1>8 DEF InboxNext

LEMMA InboxInvSound == InboxInv => InboxSound
<1> SUFFICES ASSUME InboxInv PROVE InboxSound
  OBVIOUS
<1>1. /\ inbox \in Seq(InboxItem) /\ writes \in Nat
      /\ \A i \in DOMAIN inbox : inbox[i] \in InboxItem /\ ItemSane(inbox[i], writes)
  BY DEF InboxInv, InboxTypes
<1>2. InboxTypeOK
  <2>1. \A i, j \in DOMAIN inbox : inbox[i].id = inbox[j].id => i = j
    BY DEF InboxInv, ItemsApart
  <2>2. \A i \in DOMAIN inbox :
          /\ inbox[i].status \in DOMAIN Transition
          /\ inbox[i].rev \in 0 .. writes
          /\ inbox[i].recurrences \in 0 .. inbox[i].rev
    BY <1>1 DEF ItemSane, InboxItem
  <2> QED BY <2>1, <2>2 DEF InboxTypeOK, InboxInv, InboxTypes, LastStanding
<1>3. InboxOneItemPerKey
  <2> SUFFICES ASSUME NEW i \in DOMAIN inbox, NEW j \in DOMAIN inbox, inbox[i].key = inbox[j].key
               PROVE  i = j
    BY DEF InboxOneItemPerKey
  <2> QED BY DEF InboxInv, ItemsApart
<1>4. InboxRevisionIdentifies
  <2> SUFFICES ASSUME NEW o \in Operators, NEW i \in DOMAIN inbox, form[o] # NoForm, CurrentForm(o, i)
               PROVE  [inbox[i] EXCEPT !.asleep = FALSE] = [form[o] EXCEPT !.asleep = FALSE]
    BY DEF InboxRevisionIdentifies
  <2>1. form[o] \in InboxItem
    BY DEF InboxInv, InboxTypes
  <2>2. SameItem(inbox[i], form[o])
    BY DEF CurrentForm, InboxInv, InboxFormsInv, SeenBefore
  <2>3. inbox[i] \in InboxItem
    BY <1>1
  <2> QED BY <2>1, <2>2, <2>3 DEF SameItem, InboxItem
<1> QED BY <1>2, <1>3, <1>4 DEF InboxSound

\* However collections, failed discoveries and operators write at once, and
\* whatever the file must leave out: a dedupe key has one item, and at an equal
\* revision an operator's form shows the item as it is.
THEOREM SpecInboxSound == InboxSpec => []InboxSound
<1>1. InboxInit => InboxInv
  BY InboxInitInv
<1>2. InboxInv /\ [InboxNext]_inboxVars => InboxInv'
  BY InboxNextInv
<1>3. InboxInv => InboxSound
  BY InboxInvSound
<1> QED BY <1>1, <1>2, <1>3, PTL DEF InboxSpec

---------------------------------------------------------------------------
(* Inbox: an item while its condition is observed, unless an answer about  *)
(* it was overtaken                                                        *)

LEMMA PollsOfItems == \A item \in InboxItem : item.key.poll \in Int /\ item.key.about \in Subjects
  BY DEF InboxItem

\* A write of items that are faithful about a subject: if it loses its newest item
\* to the bound of the file, then all of them.
LEMMA WriteKeepsFaith ==
    ASSUME NEW items \in Seq(InboxItem), NEW evidence, Write(items, evidence),
           NEW s \in Subjects, NEW last \in Nat, Faithful(items, s, evidence[s], last)
    PROVE  standing'[s] \in {0, evidence[s]} /\ Faithful(inbox', s, standing'[s], last)
<1>1. PICK cut \in 0 .. Len(items) :
        /\ inbox' \in Seq(InboxItem)
        /\ Len(inbox') = Len(items) - cut
        /\ \A k \in 1 .. Len(inbox') : inbox'[k] = items[cut + k]
        /\ standing' = [t \in Subjects |->
             IF /\ \E i \in 1 .. cut : Open(items[i]) /\ items[i].key.about = t
                /\ ~ \E k \in 1 .. Len(inbox') : Open(inbox'[k]) /\ inbox'[k].key.about = t
             THEN 0 ELSE evidence[t]]
  BY WriteIs
<1>2. /\ Len(items) \in Nat /\ DOMAIN items = 1 .. Len(items)
      /\ DOMAIN inbox' = 1 .. Len(inbox')
      /\ \A k \in 1 .. Len(inbox') : cut + k \in 1 .. Len(items)
      /\ \A i \in 1 .. Len(items) : i > cut => i - cut \in 1 .. Len(inbox') /\ cut + (i - cut) = i
      /\ \A i \in 1 .. Len(items) : items[i].key.poll \in Int
  <2>1. \A i \in 1 .. Len(items) : items[i] \in InboxItem
    OBVIOUS
  <2>2. \A i \in 1 .. Len(items) : items[i].key.poll \in Int
    BY <2>1, PollsOfItems
  <2>3. /\ Len(inbox') \in Nat /\ Len(inbox') = Len(items) - cut
        /\ DOMAIN inbox' = 1 .. Len(inbox') /\ DOMAIN items = 1 .. Len(items)
    BY <1>1
  <2>4. Len(items) \in Nat /\ cut \in 0 .. Len(items)
    OBVIOUS
  <2> QED BY <2>2, <2>3, <2>4
<1>3. InPollOrder(inbox', s)
  <2> SUFFICES ASSUME NEW j \in 1 .. Len(inbox'), NEW k \in 1 .. Len(inbox'), j < k,
                      inbox'[j].key.about = s, inbox'[k].key.about = s
               PROVE  inbox'[j].key.poll < inbox'[k].key.poll
    BY <1>2 DEF InPollOrder
  <2>1. cut + j \in DOMAIN items /\ cut + k \in DOMAIN items /\ cut + j < cut + k
    BY <1>1, <1>2
  <2>2. inbox'[j] = items[cut + j] /\ inbox'[k] = items[cut + k]
    BY <1>1
  <2> QED BY <2>1, <2>2 DEF Faithful, InPollOrder
<1>4. ASSUME standing'[s] # 0
      PROVE  StandsIn(inbox', s, standing'[s])
  <2>1. standing'[s] = evidence[s] /\ evidence[s] # 0
    BY <1>1, <1>4
  <2>2. PICK i \in 1 .. Len(items) :
          /\ Open(items[i]) /\ items[i].key.about = s
          /\ s \in Conditions => items[i].key.poll = evidence[s]
          /\ \A j \in 1 .. Len(items) : items[j].key.about = s => items[j].key.poll <= items[i].key.poll
    BY <1>2, <2>1 DEF Faithful, StandsIn
  <2>3. i > cut
    <3> SUFFICES ASSUME i \in 1 .. cut PROVE FALSE
      BY <1>2
    <3>1. PICK k \in 1 .. Len(inbox') : inbox'[k].key.about = s
      BY <1>1, <1>4, <2>2
    <3>2. cut + k \in 1 .. Len(items) /\ i < cut + k /\ items[cut + k].key.about = s
      BY <1>1, <1>2, <3>1
    <3>3. items[i].key.poll < items[cut + k].key.poll
      BY <1>2, <2>2, <3>2 DEF Faithful, InPollOrder
    <3> QED BY <1>2, <2>2, <3>2, <3>3
  <2>4. PICK k \in 1 .. Len(inbox') : inbox'[k] = items[i]
    BY <1>1, <1>2, <2>3
  <2>5. \A j \in 1 .. Len(inbox') : inbox'[j].key.about = s => inbox'[j].key.poll <= inbox'[k].key.poll
    BY <1>1, <1>2, <2>2, <2>4
  <2> QED BY <1>2, <2>1, <2>2, <2>4, <2>5 DEF StandsIn
<1>5. \A j \in DOMAIN inbox' : inbox'[j].key.about = s => inbox'[j].key.poll <= last
  BY <1>1, <1>2 DEF Faithful
<1>6. standing'[s] \in {0, evidence[s]}
  BY <1>1
<1> QED BY <1>3, <1>4, <1>5, <1>6 DEF Faithful

\* What is notified is the newest of its subject.
LEMMA NotifiedStands ==
    ASSUME InboxInv, NEW key, NotifiedKey(key), InPollOrder(inbox, key.about),
           \A i \in DOMAIN inbox : inbox[i].key.about = key.about => inbox[i].key.poll <= key.poll,
           NEW items, items = Notified(inbox, key, writes),
           NEW stamp, key.about \in Conditions => stamp = key.poll
    PROVE  Faithful(items, key.about, stamp, key.poll)
<1>1. /\ inbox \in Seq(InboxItem) /\ Len(inbox) \in Nat /\ DOMAIN inbox = 1 .. Len(inbox)
      /\ \A i \in 1 .. Len(inbox) : inbox[i] \in InboxItem /\ inbox[i].key.poll \in Int
      /\ key.poll \in Nat
  <2>1. inbox \in Seq(InboxItem) /\ key.poll \in Nat
    BY DEF InboxInv, InboxTypes, NotifiedKey
  <2> QED BY <2>1, PollsOfItems
<1>2. items \in Seq(InboxItem) /\ Len(items) \in {Len(inbox), Len(inbox) + 1} /\ DOMAIN items = 1 .. Len(items)
  BY NotifiedIs
<1>3. PICK at \in 1 .. Len(items) :
        /\ Open(items[at]) /\ items[at].key = key
        /\ \A i \in 1 .. Len(items) : i # at => i <= Len(inbox) /\ items[i] = inbox[i]
        /\ \/ /\ Len(items) = Len(inbox)
              /\ inbox[at].key.about = key.about
              /\ inbox[at].key.poll \in {key.poll, -1}
           \/ at = Len(inbox) + 1 /\ Len(items) = at
  BY NotifiedIs
<1>4. ASSUME NEW i \in 1 .. Len(items), i # at
      PROVE  i \in 1 .. Len(inbox) /\ items[i] = inbox[i]
  <2>1. i <= Len(inbox) /\ items[i] = inbox[i]
    BY <1>3, <1>4
  <2> QED BY <1>1, <2>1
<1>5. ItemsApart(items)
  BY NotifiedStaysSane
<1>6. InPollOrder(items, key.about)
  <2> SUFFICES ASSUME NEW i \in 1 .. Len(items), NEW j \in 1 .. Len(items), i < j,
                      items[i].key.about = key.about, items[j].key.about = key.about
               PROVE  items[i].key.poll < items[j].key.poll
    BY <1>2 DEF InPollOrder
  <2>1. CASE i # at /\ j # at
    BY <1>1, <1>4, <2>1 DEF InPollOrder
  <2>2. CASE j = at
    <3>1. i # at /\ i \in 1 .. Len(inbox) /\ items[i] = inbox[i] /\ inbox[i].key.poll \in Int
      BY <1>1, <1>4, <2>2
    <3>2. inbox[i].key.poll <= key.poll
      BY <1>1, <1>3, <2>2, <3>1
    <3>3. items[i].key.poll # items[j].key.poll
      <4>1. i \in DOMAIN items /\ j \in DOMAIN items /\ i # j
        BY <1>2, <2>2, <3>1
      <4>2. items[i].key.about = items[j].key.about
        OBVIOUS
      <4> QED BY <1>5, <4>1, <4>2 DEF ItemsApart
    <3> QED BY <1>1, <1>3, <2>2, <3>1, <3>2, <3>3
  <2>3. CASE i = at
    <3>1. j # at /\ j \in 1 .. Len(inbox) /\ items[j] = inbox[j]
      BY <1>4, <2>3
    <3>2. i \in 1 .. Len(inbox) /\ inbox[i].key.about = key.about /\ inbox[i].key.poll \in {key.poll, -1}
      <4>1. at # Len(inbox) + 1
        BY <1>1, <2>3, <3>1
      <4>2. /\ Len(items) = Len(inbox)
            /\ inbox[at].key.about = key.about
            /\ inbox[at].key.poll \in {key.poll, -1}
        BY <1>3, <4>1
      <4> QED BY <2>3, <4>2
    <3>3. inbox[j].key.about = key.about /\ inbox[j].key.poll <= key.poll
      BY <1>1, <1>3, <2>3, <3>1
    <3>4. inbox[i].key.poll < inbox[j].key.poll
      BY <1>1, <3>1, <3>2, <3>3 DEF InPollOrder
    <3>5. inbox[i].key.poll # -1
      <4>1. i # j /\ i \in DOMAIN inbox /\ j \in DOMAIN inbox
        BY <1>1, <2>3, <3>1, <3>2
      <4> QED BY <3>2, <3>3, <4>1 DEF InboxInv, ItemsApart
    <3>6. inbox[i].key.poll = key.poll
      BY <3>2, <3>5
    <3> QED BY <1>1, <3>1, <3>3, <3>4, <3>6
  <2> QED BY <2>1, <2>2, <2>3
<1>7. \A j \in 1 .. Len(items) : items[j].key.about = key.about => items[j].key.poll <= key.poll
  BY <1>1, <1>3, <1>4
<1>8. StandsIn(items, key.about, stamp)
  BY <1>2, <1>3, <1>7 DEF StandsIn
<1> QED BY <1>2, <1>6, <1>7, <1>8 DEF Faithful

\* The items of other subjects are the ones that they were.
LEMMA OthersStand ==
    ASSUME InboxInv, NEW key, NotifiedKey(key), NEW items, items = Notified(inbox, key, writes),
           NEW s \in Subjects, s # key.about, NEW stamp, NEW last, Faithful(inbox, s, stamp, last)
    PROVE  Faithful(items, s, stamp, last)
<1>1. /\ inbox \in Seq(InboxItem) /\ Len(inbox) \in Nat /\ DOMAIN inbox = 1 .. Len(inbox)
  BY DEF InboxInv, InboxTypes
<1>2. items \in Seq(InboxItem) /\ Len(items) \in {Len(inbox), Len(inbox) + 1} /\ DOMAIN items = 1 .. Len(items)
  BY NotifiedIs
<1>3. PICK at \in 1 .. Len(items) :
        /\ items[at].key = key
        /\ \A i \in 1 .. Len(items) : i # at => i <= Len(inbox) /\ items[i] = inbox[i]
        /\ \/ Len(items) = Len(inbox) /\ inbox[at].key.about = key.about
           \/ at = Len(inbox) + 1 /\ Len(items) = at
  BY NotifiedIs
<1>4. ASSUME NEW i \in 1 .. Len(items), items[i].key.about = s
      PROVE  i \in 1 .. Len(inbox) /\ items[i] = inbox[i]
  <2>1. i # at
    BY <1>3, <1>4
  <2>2. i <= Len(inbox) /\ items[i] = inbox[i]
    BY <1>3, <2>1
  <2> QED BY <1>1, <2>2
<1>5. ASSUME NEW i \in 1 .. Len(inbox), inbox[i].key.about = s
      PROVE  i \in 1 .. Len(items) /\ items[i] = inbox[i]
  <2>1. i \in 1 .. Len(items)
    <3>1. CASE Len(items) = Len(inbox)
      BY <3>1
    <3>2. CASE Len(items) = Len(inbox) + 1
      BY <1>1, <3>2
    <3> QED BY <1>2, <3>1, <3>2
  <2>2. i # at
    <3>1. CASE Len(items) = Len(inbox) /\ inbox[at].key.about = key.about
      BY <1>5, <3>1
    <3>2. CASE at = Len(inbox) + 1
      BY <1>1, <3>2
    <3> QED BY <1>3, <3>1, <3>2
  <2> QED BY <1>3, <2>1, <2>2
<1>6. InPollOrder(items, s)
  <2> SUFFICES ASSUME NEW i \in 1 .. Len(items), NEW j \in 1 .. Len(items), i < j,
                      items[i].key.about = s, items[j].key.about = s
               PROVE  items[i].key.poll < items[j].key.poll
    BY <1>2 DEF InPollOrder
  <2>1. i \in DOMAIN inbox /\ j \in DOMAIN inbox /\ items[i] = inbox[i] /\ items[j] = inbox[j]
    BY <1>1, <1>4
  <2> QED BY <2>1 DEF Faithful, InPollOrder
<1>7. \A i \in DOMAIN items : items[i].key.about = s => items[i].key.poll <= last
  BY <1>1, <1>2, <1>4 DEF Faithful
<1>8. ASSUME stamp # 0
      PROVE  StandsIn(items, s, stamp)
  <2>1. PICK i \in 1 .. Len(inbox) :
          /\ Open(inbox[i]) /\ inbox[i].key.about = s
          /\ s \in Conditions => inbox[i].key.poll = stamp
          /\ \A j \in 1 .. Len(inbox) : inbox[j].key.about = s => inbox[j].key.poll <= inbox[i].key.poll
    BY <1>1, <1>8 DEF Faithful, StandsIn
  <2>2. i \in 1 .. Len(items) /\ items[i] = inbox[i]
    BY <1>5, <2>1
  <2>3. \A j \in 1 .. Len(items) : items[j].key.about = s => items[j].key.poll <= items[i].key.poll
    BY <1>4, <2>1, <2>2
  <2>4. i \in DOMAIN items /\ Open(items[i]) /\ items[i].key.about = s
    BY <1>2, <2>1, <2>2
  <2>5. s \in Conditions => items[i].key.poll = stamp
    BY <2>1, <2>2
  <2>6. \A j \in DOMAIN items : items[j].key.about = s => items[j].key.poll <= items[i].key.poll
    BY <1>2, <2>3
  <2> QED BY <2>4, <2>5, <2>6 DEF StandsIn
<1> QED BY <1>6, <1>7, <1>8 DEF Faithful

LEMMA NotifyKeepsObserved ==
    ASSUME InboxInv, ObservedInv, NEW key, NotifiedKey(key), Notify(key), key.poll <= MaxPolls,
           key.about \in Conditions => key.poll >= 1,
           \A c \in Collectors : collection'[c].pc = "notify" =>
             /\ collection[c].pc = "notify"
             /\ collection'[c].poll = collection[c].poll
             /\ collection'[c].told = collection[c].told
             /\ collection[c].todo \ {key.about} \subseteq collection'[c].todo
             /\ key.about \in collection[c].todo \ collection'[c].todo => collection[c].poll = key.poll
    PROVE  ObservedInv'
<1> DEFINE stamp == Max({standing[key.about], key.poll, 1})
           evidence == [standing EXCEPT ![key.about] = stamp]
           newest == Max({heard[key.about], key.poll})
<1>1. /\ key.about \in Subjects /\ key.poll \in Nat /\ standing[key.about] \in 0 .. LastStanding
      /\ LastStanding \in Nat /\ heard[key.about] \in Nat
  BY StandingsAreNumbers DEF NotifiedKey, InboxInv, InboxTypes, ObservedInv
<1>2. /\ stamp \in {standing[key.about], key.poll, 1}
      /\ stamp >= standing[key.about] /\ stamp >= key.poll /\ stamp >= 1
  <2>1. standing[key.about] \in Int /\ key.poll \in Int /\ 1 \in Int
    BY <1>1
  <2> QED BY <2>1, LargestOf
<1>3. newest \in {heard[key.about], key.poll} /\ newest >= heard[key.about] /\ newest >= key.poll
  <2>1. heard[key.about] \in Int /\ key.poll \in Int
    BY <1>1
  <2> QED BY <2>1, LargerOf
<1>4. PICK items : items = Notified(inbox, key, writes)
  OBVIOUS
<1>5. Write(items, evidence)
  BY <1>4 DEF Notify, Notified
<1>6. /\ heard' = [heard EXCEPT ![key.about] = newest]
      /\ overtaken \subseteq overtaken'
      /\ key.poll < heard[key.about] => key.about \in overtaken'
  BY DEF Notify
<1> HIDE DEF stamp, newest
<1>7. /\ evidence \in [Subjects -> 0 .. LastStanding]
      /\ evidence[key.about] = stamp
      /\ \A s \in Subjects : s # key.about => evidence[s] = standing[s]
  <2>1. stamp \in 0 .. LastStanding
    BY <1>1, <1>2, StandingsAreNumbers, InboxAssumption
  <2> QED BY <1>1, <2>1 DEF InboxInv, InboxTypes
<1>8. items \in Seq(InboxItem)
  BY <1>4, NotifiedIs
<1> HIDE DEF evidence
<1>9. /\ heard' \in [Subjects -> Nat] /\ heard'[key.about] = newest
      /\ \A s \in Subjects : s # key.about => heard'[s] = heard[s]
  BY <1>1, <1>3, <1>6 DEF ObservedInv
<1>10. ASSUME NEW s \in Subjects \ overtaken'
       PROVE  Observed(s)'
  <2>1. s \in Subjects \ overtaken /\ Observed(s)
    BY <1>6, <1>10 DEF ObservedInv
  <2>2. CASE s = key.about
    <3>1. heard[s] <= key.poll /\ newest = key.poll
      BY <1>1, <1>3, <1>6, <1>10, <2>2
    <3>2. \A i \in DOMAIN inbox : inbox[i].key.about = s => inbox[i].key.poll <= key.poll
      <4>1. \A i \in DOMAIN inbox : inbox[i].key.poll \in Int
        <5>1. \A i \in DOMAIN inbox : inbox[i] \in InboxItem
          BY DEF InboxInv, InboxTypes
        <5> QED BY <5>1, PollsOfItems
      <4> QED BY <1>1, <2>1, <2>2, <3>1, <4>1 DEF Observed, Faithful
    <3>3. s \in Conditions => stamp = key.poll
      <4> SUFFICES ASSUME s \in Conditions PROVE stamp = key.poll
        OBVIOUS
      <4>1. ASSUME standing[s] # 0 PROVE standing[s] <= key.poll
        <5>1. PICK i \in DOMAIN inbox : inbox[i].key.about = s /\ inbox[i].key.poll = standing[s]
          BY <2>1, <4>1 DEF Observed, Faithful, StandsIn
        <5> QED BY <3>2, <5>1
      <4> QED BY <1>1, <1>2, <2>2, <4>1
    <3>4. Faithful(items, s, stamp, key.poll)
      BY <1>4, <2>1, <2>2, <3>2, <3>3, NotifiedStands DEF Observed, Faithful
    <3>5. standing'[s] \in {0, stamp} /\ Faithful(inbox', s, standing'[s], key.poll)
      BY <1>1, <1>5, <1>7, <1>8, <2>2, <3>4, WriteKeepsFaith
    <3>6. ASSUME NEW c \in Collectors, collection'[c].pc = "notify",
                 s \in collection'[c].told \ collection'[c].todo
          PROVE  /\ collection'[c].poll <= heard'[s]
                 /\ standing'[s] = 0 \/ collection'[c].poll <= standing'[s]
      <4>1. /\ collection[c].pc = "notify" /\ collection'[c].poll = collection[c].poll
            /\ s \in collection[c].told /\ collection[c].poll \in Nat /\ s \in Conditions
            /\ s \in collection[c].todo => collection[c].poll = key.poll
        BY <2>2, <3>6 DEF InboxInv, InboxTypes, CollectionRun
      <4>2. collection[c].poll <= key.poll
        <5>1. CASE s \in collection[c].todo
          BY <1>1, <4>1, <5>1
        <5>2. CASE s \notin collection[c].todo
          <6>1. collection[c].poll <= heard[s]
            BY <2>1, <4>1, <5>2 DEF Observed
          <6> QED BY <1>1, <2>2, <3>1, <4>1, <6>1
        <5> QED BY <5>1, <5>2
      <4> QED BY <1>9, <2>2, <3>1, <3>3, <3>5, <4>1, <4>2
    <3>7. heard'[s] = key.poll
      BY <1>9, <2>2, <3>1
    <3> QED BY <3>5, <3>6, <3>7 DEF Observed, Faithful, InPollOrder, StandsIn, Open
  <2>3. CASE s # key.about
    <3>1. Faithful(items, s, evidence[s], heard[s])
      BY <1>4, <1>7, <2>1, <2>3, OthersStand DEF Observed
    <3>2. standing'[s] \in {0, standing[s]} /\ Faithful(inbox', s, standing'[s], heard[s])
      <4>1. heard[s] \in Nat
        BY DEF ObservedInv
      <4> QED BY <1>5, <1>7, <1>8, <2>3, <3>1, <4>1, WriteKeepsFaith
    <3>3. ASSUME NEW c \in Collectors, collection'[c].pc = "notify",
                 s \in collection'[c].told \ collection'[c].todo
          PROVE  /\ collection'[c].poll <= heard[s]
                 /\ standing'[s] = 0 \/ collection'[c].poll <= standing'[s]
      <4>1. /\ collection[c].pc = "notify" /\ collection'[c].poll = collection[c].poll
            /\ s \in collection[c].told \ collection[c].todo
        BY <2>3, <3>3
      <4> QED BY <2>1, <3>2, <4>1 DEF Observed
    <3>4. heard'[s] = heard[s]
      BY <1>9, <2>3
    <3> QED BY <3>2, <3>3, <3>4 DEF Observed, Faithful, InPollOrder, StandsIn, Open
  <2> QED BY <2>2, <2>3
<1> QED BY <1>9, <1>10 DEF ObservedInv

LEMMA NotifySignalKeepsObserved ==
    ASSUME InboxInv, ObservedInv, NEW c \in Collectors, NEW s \in Conditions, NotifySignal(c, s)
    PROVE  ObservedInv'
<1> DEFINE run == collection[c]
           key == Key(s, run.poll)
<1>1. /\ run \in CollectionRun /\ run.pc = "notify" /\ s \in run.todo
      /\ Notify(key)
      /\ collection' = [collection EXCEPT ![c].todo = @ \ {s}]
  BY DEF NotifySignal, InboxInv, InboxTypes
<1>2. run.poll \in 1 .. Len(polls) /\ Len(polls) <= MaxPolls /\ Len(polls) \in Nat /\ MaxPolls \in Nat
  BY <1>1, InboxAssumption DEF InboxInv, InboxTypes, CollectionsInv
<1>3. NotifiedKey(key) /\ key.poll <= MaxPolls /\ key.poll >= 1 /\ key.about = s /\ key.poll = run.poll
  BY <1>2, SignalKeys
<1>4. ASSUME NEW d \in Collectors, collection'[d].pc = "notify"
      PROVE  /\ collection[d].pc = "notify"
             /\ collection'[d].poll = collection[d].poll
             /\ collection'[d].told = collection[d].told
             /\ collection[d].todo \ {s} \subseteq collection'[d].todo
             /\ s \in collection[d].todo \ collection'[d].todo => collection[d].poll = key.poll
  <2>1. collection[d] \in CollectionRun
    BY DEF InboxInv, InboxTypes
  <2>2. /\ collection'[d].pc = collection[d].pc
        /\ collection'[d].poll = collection[d].poll
        /\ collection'[d].told = collection[d].told
        /\ collection[d].todo \ {s} \subseteq collection'[d].todo
        /\ d # c => collection'[d].todo = collection[d].todo
    BY <1>1, <2>1 DEF InboxInv, InboxTypes, CollectionRun
  <2> QED BY <1>3, <1>4, <2>2
<1> HIDE DEF key
<1> QED BY <1>1, <1>3, <1>4, NotifyKeepsObserved

LEMMA ReportFailureKeepsObserved ==
    ASSUME InboxInv, ObservedInv, NEW p \in Profiles, ReportFailure(p)
    PROVE  ObservedInv'
<1> DEFINE key == Key(p, 0)
<1>1. Notify(key) /\ collection' = collection
  BY DEF ReportFailure
<1>2. NotifiedKey(key) /\ key.poll <= MaxPolls /\ key.about = p /\ key.poll = 0 /\ p \notin Conditions
  BY SignalKeys, InboxAssumption
<1>3. \A c \in Collectors : collection'[c].pc = "notify" =>
        /\ collection[c].pc = "notify"
        /\ collection'[c].poll = collection[c].poll
        /\ collection'[c].told = collection[c].told
        /\ collection[c].todo \ {p} \subseteq collection'[c].todo
        /\ p \in collection[c].todo \ collection'[c].todo => collection[c].poll = key.poll
  BY <1>1
<1> HIDE DEF key
<1> QED BY <1>1, <1>2, <1>3, NotifyKeepsObserved

\* Items keep their keys, and the newest item of a subject whose evidence stands
\* on stays open.
LEMMA KeptWriteKeepsObserved ==
    ASSUME InboxInv, ObservedInv,
           NEW items \in Seq(InboxItem), NEW evidence,
           Write(items, evidence), heard' = heard, overtaken \subseteq overtaken',
           Len(items) = Len(inbox),
           \A i \in 1 .. Len(inbox) : items[i].key = inbox[i].key,
           \A s \in Subjects : evidence[s] \in {0, standing[s]},
           \A s \in Subjects \ overtaken', i \in 1 .. Len(inbox) :
             /\ evidence[s] # 0 /\ Open(inbox[i]) /\ inbox[i].key.about = s
             /\ s \in Conditions => inbox[i].key.poll = evidence[s]
             => Open(items[i]),
           \A c \in Collectors : collection'[c].pc = "notify" => collection'[c] = collection[c]
    PROVE  ObservedInv'
<1>1. inbox \in Seq(InboxItem) /\ DOMAIN inbox = 1 .. Len(inbox) /\ DOMAIN items = 1 .. Len(inbox)
  BY DEF InboxInv, InboxTypes
<1>2. ASSUME NEW s \in Subjects \ overtaken'
      PROVE  Observed(s)'
  <2>1. Observed(s) /\ heard[s] \in Nat
    BY <1>2 DEF ObservedInv
  <2>2. InPollOrder(items, s)
    BY <1>1, <2>1 DEF Observed, Faithful, InPollOrder
  <2>3. ASSUME evidence[s] # 0
        PROVE  StandsIn(items, s, evidence[s])
    <3>1. StandsIn(inbox, s, evidence[s])
      BY <2>1, <2>3 DEF Observed, Faithful
    <3>2. PICK i \in DOMAIN inbox :
            /\ Open(inbox[i]) /\ inbox[i].key.about = s
            /\ s \in Conditions => inbox[i].key.poll = evidence[s]
            /\ \A j \in DOMAIN inbox : inbox[j].key.about = s => inbox[j].key.poll <= inbox[i].key.poll
      BY <3>1 DEF StandsIn
    <3>3. Open(items[i])
      BY <1>1, <2>3, <3>2
    <3> QED BY <1>1, <3>2, <3>3 DEF StandsIn
  <2>4. Faithful(items, s, evidence[s], heard[s])
    BY <1>1, <2>1, <2>2, <2>3 DEF Observed, Faithful
  <2>5. standing'[s] \in {0, standing[s]} /\ Faithful(inbox', s, standing'[s], heard[s])
    BY <2>1, <2>4, WriteKeepsFaith
  <2>6. ASSUME NEW c \in Collectors, collection'[c].pc = "notify",
               s \in collection'[c].told \ collection'[c].todo
        PROVE  /\ collection'[c].poll <= heard[s]
               /\ standing'[s] = 0 \/ collection'[c].poll <= standing'[s]
    BY <2>1, <2>5, <2>6 DEF Observed
  <2> QED BY <2>5, <2>6 DEF Observed, Faithful, InPollOrder, StandsIn, Open
<1> QED BY <1>2 DEF ObservedInv

\* Nothing is written, and no collection gets further.
LEMMA QuietKeepsObserved ==
    ASSUME InboxInv, ObservedInv,
           UNCHANGED <<inbox, standing, heard, overtaken>>,
           \A c \in Collectors : collection'[c].pc = "notify" =>
             \/ collection'[c] = collection[c]
             \/ collection'[c].told \ collection'[c].todo = {}
    PROVE  ObservedInv'
<1>1. ASSUME NEW s \in Subjects \ overtaken
      PROVE  Observed(s)'
  <2>1. Observed(s)
    BY <1>1 DEF ObservedInv
  <2>2. ASSUME NEW c \in Collectors, collection'[c].pc = "notify",
               s \in collection'[c].told \ collection'[c].todo
        PROVE  /\ collection'[c].poll <= heard[s]
               /\ standing[s] = 0 \/ collection'[c].poll <= standing[s]
    BY <2>1, <2>2 DEF Observed
  <2> QED BY <2>1, <2>2 DEF Observed, Faithful, InPollOrder, StandsIn, Open
<1> QED BY <1>1 DEF ObservedInv

\* A reconcile closes an item of a newer poll only where it is overtaken; at its
\* own poll, the items that it keeps are the ones it reported.
LEMMA ReconcileKeepsObserved ==
    ASSUME InboxInv, ObservedInv, NEW c \in Collectors, Reconcile(c)
    PROVE  ObservedInv'
<1>1. PICK run \in CollectionRun : run = collection[c]
  BY DEF InboxInv, InboxTypes
<1>2. /\ run.pc = "notify" /\ run.todo = {} /\ heard' = heard
      /\ collection' = [collection EXCEPT ![c] = Resting]
      /\ \/ UNCHANGED <<inbox, standing, overtaken>>
         \/ /\ ProvesRecovery(run) /\ Write(AfterRecovery(run), RecoveredEvidence(run))
            /\ overtaken \subseteq overtaken'
            /\ \A i \in Gone(run) : inbox[i].key.poll > run.poll => inbox[i].key.about \in overtaken'
  BY <1>1, ReconcileWrites, ReconcileOvertakes
<1>3. \A d \in Collectors : collection'[d].pc = "notify" => collection'[d] = collection[d]
  BY <1>2, RestingIs DEF InboxInv, InboxTypes
<1>4. CASE UNCHANGED <<inbox, standing, overtaken>>
  BY <1>2, <1>3, <1>4, QuietKeepsObserved
<1>5. CASE /\ ProvesRecovery(run) /\ Write(AfterRecovery(run), RecoveredEvidence(run))
           /\ overtaken \subseteq overtaken'
           /\ \A i \in Gone(run) : inbox[i].key.poll > run.poll => inbox[i].key.about \in overtaken'
  <2>1. PICK items : items = AfterRecovery(run)
    OBVIOUS
  <2>2. PICK evidence : evidence = RecoveredEvidence(run)
    OBVIOUS
  <2>3. /\ items \in Seq(InboxItem) /\ Len(items) = Len(inbox)
        /\ \A i \in 1 .. Len(inbox) :
             items[i].key = inbox[i].key /\ (i \notin Gone(run) => items[i] = inbox[i])
    BY <2>1, <2>2, AfterRecoveryIs
  <2>4. \A s \in Subjects : evidence[s] \in {0, standing[s]}
    BY <2>2 DEF RecoveredEvidence
  <2>5. ASSUME NEW s \in Subjects \ overtaken', NEW i \in 1 .. Len(inbox),
               evidence[s] # 0, Open(inbox[i]), inbox[i].key.about = s,
               s \in Conditions => inbox[i].key.poll = evidence[s]
        PROVE  Open(items[i])
    <3>1. i \in DOMAIN inbox /\ inbox[i] \in InboxItem
      BY DEF InboxInv, InboxTypes
    <3>2. evidence[s] = standing[s]
      BY <2>4, <2>5
    <3>3. ASSUME i \in Gone(run) PROVE FALSE
      <4>1. s \in Conditions /\ inbox[i].key \notin {Key(t, run.poll) : t \in run.told}
        BY <2>5, <3>3 DEF Gone, Absent
      <4>2. /\ inbox[i].key.poll = standing[s] /\ standing[s] \in Nat /\ standing[s] # 0
            /\ run.poll \in Nat
        BY <2>5, <3>2, <4>1 DEF InboxInv, InboxTypes, CollectionRun
      <4>3. standing[s] <= run.poll
        BY <1>5, <2>5, <3>3, <4>2
      <4>4. s \in run.told
        <5>1. ~(run.complete /\ s \in Conditions \ run.told /\ standing[s] <= run.poll)
          BY <2>2, <2>5 DEF RecoveredEvidence
        <5>2. run.complete
          BY <1>5 DEF ProvesRecovery
        <5> QED BY <4>1, <4>3, <5>1, <5>2
      <4>5. standing[s] = run.poll
        <5>1. Observed(s)
          BY <1>5, <2>5 DEF ObservedInv
        <5>2. run.poll <= standing[s]
          BY <1>1, <1>2, <4>2, <4>4, <5>1 DEF Observed
        <5> QED BY <4>2, <4>3, <5>2
      <4>6. inbox[i].key = Key(s, run.poll)
        <5>1. inbox[i].key \in [about : Subjects, poll : Nat \cup {-1}]
          BY <3>1 DEF InboxItem
        <5>2. inbox[i].key.about = s /\ inbox[i].key.poll = run.poll
          BY <2>5, <4>2, <4>5
        <5> QED BY <5>1, <5>2 DEF Key
      <4> QED BY <4>1, <4>4, <4>6
    <3>4. items[i] = inbox[i]
      BY <2>3, <3>3
    <3> QED BY <2>5, <3>4
  <2>6. Write(items, evidence)
    BY <1>5, <2>1, <2>2
  <2> QED BY <1>2, <1>3, <1>5, <2>3, <2>4, <2>5, <2>6, KeptWriteKeepsObserved
<1> QED BY <1>2, <1>4, <1>5

\* An operator who closes an item knows of its condition.
LEMMA SubmitKeepsObserved ==
    ASSUME InboxInv, ObservedInv, NEW o \in Operators, NEW i \in DOMAIN inbox, NEW status \in Moves,
           Submit(o, i, status)
    PROVE  ObservedInv'
<1>1. PICK items : items = AfterMove(i, status)
  OBVIOUS
<1>2. PICK evidence : evidence = MovedEvidence(i, status)
  OBVIOUS
<1>3. /\ items \in Seq(InboxItem) /\ Len(items) = Len(inbox)
      /\ items[i].status = status
      /\ \A k \in 1 .. Len(inbox) : items[k].key = inbox[k].key /\ (k # i => items[k] = inbox[k])
  BY <1>1, <1>2, AfterMoveIs
<1>4. Write(items, evidence) /\ collection' = collection /\ heard' = heard /\ overtaken' = overtaken
  BY <1>1, <1>2, SubmitWrites DEF Submit
<1>5. \A s \in Subjects : evidence[s] \in {0, standing[s]}
  BY <1>2 DEF MovedEvidence, InboxInv, InboxTypes
<1>6. ASSUME NEW s \in Subjects, NEW k \in 1 .. Len(inbox), evidence[s] # 0, Open(inbox[k]),
             inbox[k].key.about = s
      PROVE  Open(items[k])
  <2>1. CASE k # i
    BY <1>3, <1>6, <2>1
  <2>2. CASE k = i
    <3>1. status \notin TerminalStatuses
      BY <1>2, <1>6, <2>2 DEF MovedEvidence, InboxInv, InboxTypes
    <3>2. status \in ActiveStatuses
      BY <3>1, Statuses DEF ActiveStatuses
    <3> QED BY <1>3, <2>2, <3>2 DEF Open
  <2> QED BY <2>1, <2>2
<1> QED BY <1>3, <1>4, <1>5, <1>6, KeptWriteKeepsObserved

LEMMA WakeKeepsObserved ==
    ASSUME InboxInv, ObservedInv, NEW i \in DOMAIN inbox, Wake(i)
    PROVE  ObservedInv'
<1>1. /\ UNCHANGED <<collection, standing, heard, overtaken>>
      /\ DOMAIN inbox' = DOMAIN inbox
      /\ \A k \in DOMAIN inbox :
           inbox'[k].key = inbox[k].key /\ inbox'[k].status = inbox[k].status
  BY WakeIs DEF Wake
<1>2. ASSUME NEW s \in Subjects \ overtaken
      PROVE  Observed(s)'
  <2>1. Observed(s)
    BY <1>2 DEF ObservedInv
  <2>2. InPollOrder(inbox', s) /\ \A k \in DOMAIN inbox' : inbox'[k].key.about = s => inbox'[k].key.poll <= heard[s]
    BY <1>1, <2>1 DEF Observed, Faithful, InPollOrder
  <2>3. ASSUME standing[s] # 0
        PROVE  StandsIn(inbox', s, standing[s])
    <3>1. PICK k \in DOMAIN inbox :
            /\ Open(inbox[k]) /\ inbox[k].key.about = s
            /\ s \in Conditions => inbox[k].key.poll = standing[s]
            /\ \A j \in DOMAIN inbox : inbox[j].key.about = s => inbox[j].key.poll <= inbox[k].key.poll
      BY <2>1, <2>3 DEF Observed, Faithful, StandsIn
    <3>2. Open(inbox'[k])
      BY <1>1, <3>1 DEF Open
    <3> QED BY <1>1, <3>1, <3>2 DEF StandsIn
  <2> QED BY <1>1, <2>1, <2>2, <2>3 DEF Observed, Faithful, InPollOrder, StandsIn, Open
<1> QED BY <1>1, <1>2 DEF ObservedInv

LEMMA ObservedInitInv == InboxInit => ObservedInv
<1> SUFFICES ASSUME InboxInit PROVE ObservedInv
  OBVIOUS
<1>1. /\ DOMAIN inbox = 1 .. Len(inbox) /\ Len(inbox) \in Nat
      /\ \A i, j \in 1 .. Len(inbox) : inbox[i].key.about = inbox[j].key.about => i = j
      /\ \A i \in 1 .. Len(inbox) : inbox[i] = NewItem(-i, NoKey(inbox[i].key.about))
  BY InboxInitIs
<1>2. \A i \in 1 .. Len(inbox) : inbox[i].key.poll = -1
  <2> SUFFICES ASSUME NEW i \in 1 .. Len(inbox) PROVE inbox[i].key.poll = -1
    OBVIOUS
  <2>1. PICK about : inbox[i] = NewItem(-i, NoKey(about))
    BY <1>1
  <2> QED BY <2>1 DEF NewItem, NoKey, Key
<1>3. /\ \A s \in Subjects : standing[s] = 0 /\ heard[s] = 0
      /\ heard \in [Subjects -> Nat]
      /\ \A c \in Collectors : collection[c].pc = "rest"
  BY RestingIs DEF InboxInit
<1>4. ASSUME NEW s \in Subjects PROVE Observed(s)
  <2>1. InPollOrder(inbox, s)
    BY <1>1 DEF InPollOrder
  <2> QED BY <1>1, <1>2, <1>3, <2>1 DEF Observed, Faithful
<1> QED BY <1>3, <1>4 DEF ObservedInv

LEMMA CollectKeepsObserved ==
    ASSUME InboxInv, ObservedInv, NEW c \in Collectors, NEW poll, NEW told, NEW complete, NEW stale,
           Collect(c, poll, told, complete, stale)
    PROVE  ObservedInv'
<1>1. PICK old : old = (stale /\ told # {})
  OBVIOUS
<1> DEFINE now == [pc |-> "notify", poll |-> poll, told |-> told, todo |-> told,
                   complete |-> complete, stale |-> old]
<1>2. now.told \ now.todo = {}
  OBVIOUS
<1>3. /\ collection' = [collection EXCEPT ![c] = now]
      /\ UNCHANGED <<inbox, standing, heard, overtaken>>
  BY <1>1 DEF Collect
<1> HIDE DEF now
<1>4. \A d \in Collectors :
        collection'[d] = collection[d] \/ collection'[d].told \ collection'[d].todo = {}
  BY <1>2, <1>3 DEF InboxInv, InboxTypes
<1> QED BY <1>3, <1>4, QuietKeepsObserved

LEMMA ObservedNextInv == InboxInv /\ ObservedInv /\ [InboxNext]_inboxVars => ObservedInv'
<1> SUFFICES ASSUME InboxInv, ObservedInv, [InboxNext]_inboxVars
             PROVE  ObservedInv'
  OBVIOUS
<1>1. ASSUME UNCHANGED <<inbox, standing, collection, heard, overtaken>>
      PROVE  ObservedInv'
  BY <1>1, QuietKeepsObserved
<1>2. ASSUME NEW c \in Collectors, NEW poll \in Max({1, Len(polls) - MaxLag}) .. Len(polls),
             NEW complete \in BOOLEAN, NEW stale \in BOOLEAN, NEW told \in SUBSET polls[poll],
             Collect(c, poll, told, complete, stale)
      PROVE  ObservedInv'
  BY <1>2, CollectKeepsObserved
<1>3. ASSUME NEW c \in Collectors, CollectFails(c)
      PROVE  ObservedInv'
  <2>1. /\ UNCHANGED <<inbox, standing, heard, overtaken>>
        /\ collection' = [collection EXCEPT ![c] = Resting]
    BY <1>3 DEF CollectFails
  <2>2. \A d \in Collectors : collection'[d].pc = "notify" => collection'[d] = collection[d]
    BY <2>1, RestingIs DEF InboxInv, InboxTypes
  <2> QED BY <2>1, <2>2, QuietKeepsObserved
<1>4. ASSUME NEW c \in Collectors, (\E s \in Conditions : NotifySignal(c, s)) \/ Reconcile(c)
      PROVE  ObservedInv'
  BY <1>4, NotifySignalKeepsObserved, ReconcileKeepsObserved
<1>5. ASSUME NEW p \in Profiles, ReportFailure(p)
      PROVE  ObservedInv'
  BY <1>5, ReportFailureKeepsObserved
<1>6. ASSUME NEW o \in Operators, NEW status \in Moves, NEW i \in DOMAIN inbox, Submit(o, i, status)
      PROVE  ObservedInv'
  BY <1>6, SubmitKeepsObserved
<1>7. ASSUME NEW i \in DOMAIN inbox, Wake(i)
      PROVE  ObservedInv'
  BY <1>7, WakeKeepsObserved
<1>8. ASSUME NEW found, Poll(found)
      PROVE  ObservedInv'
  BY <1>1, <1>8 DEF Poll
<1>9. ASSUME NEW o \in Operators,
             (\E i \in DOMAIN inbox : OpenForm(o, i)) \/ (\E status \in Moves : Refuse(o, status))
      PROVE  ObservedInv'
  BY <1>1, <1>9 DEF OpenForm, Refuse
<1>10. CASE UNCHANGED inboxVars
  BY <1>1, <1>10 DEF inboxVars
<1> QED BY <1>2, <1>3, <1>4, <1>5, <1>6, <1>7, <1>8, <1>9, <1>10 DEF InboxNext

LEMMA ObservedInvOpen == ObservedInv => InboxOpenUnlessOvertaken
  BY DEF ObservedInv, Observed, Faithful, StandsIn, InboxOpenUnlessOvertaken

\* However many collections run at once, however late the answers of providers
\* are, and whatever operators do meanwhile: what the newest evidence reports and
\* nobody closed by hand has an open item, except where a report came after a
\* newer one of its subject, or a reconcile closed the item of a poll newer than
\* its own.
THEOREM SpecInboxOpenUnlessOvertaken == InboxSpec => []InboxOpenUnlessOvertaken
<1>1. InboxInit => InboxInv /\ ObservedInv
  BY InboxInitInv, ObservedInitInv
<1>2. InboxInv /\ ObservedInv /\ [InboxNext]_inboxVars => (InboxInv /\ ObservedInv)'
  BY InboxNextInv, ObservedNextInv
<1>3. InboxInv /\ ObservedInv => InboxOpenUnlessOvertaken
  BY ObservedInvOpen
<1> QED BY <1>1, <1>2, <1>3, PTL DEF InboxSpec

---------------------------------------------------------------------------
(* Curation                                                                *)

Catalogs == {"sites", "peers", "queue"}

\* The keys that the devices, peers and items are described with.
CurationKey == UNION {UNION {ToSet(d) : d \in Described[c]} : c \in Catalogs}

ValueOrNone == CurationValues \cup {NoChoice}

Curated == [subject : CurationKey, keys : SUBSET CurationKey, value : CurationValues]

CuratedOrGone == [subject : CurationKey, keys : SUBSET CurationKey, value : ValueOrNone]

CurationEvent ==
    [action : {"assign", "revert", "undo"}, subject : CurationKey, keys : SUBSET CurationKey,
     before : ValueOrNone, after : ValueOrNone, revision : Nat]

CurationTypes ==
    /\ contract \in Catalogs
    /\ curated \in [revision : Nat, entries : SUBSET Curated]
    /\ trail \in Seq(CurationEvent)
    /\ writing \in Seq(CurationEvent)
    /\ shown \in [Curators -> [revision : Nat, entries : SUBSET Curated]]
    /\ past \in Seq([subject : CurationKey, entries : SUBSET Curated])

\* The keys of an entry, or of an event: its subject is one of them, and the
\* only one where the things described have one key.
KeysOf(subject, keys) == subject \in keys /\ (contract # "sites" => keys = {subject})

\* A catalog in which an entry can be told from the others by its subject.
Orderly(entries) ==
    /\ IsFiniteSet(entries)
    /\ \A e \in entries : KeysOf(e.subject, e.keys)
    /\ \A e, f \in entries : e.subject = f.subject => e = f

\* The entries at a revision, and what the value of a subject was there: one
\* that its entry may not have been found for is any.
EntriesAt(r) == IF r = 0 THEN {} ELSE past[r].entries

ValueIn(entries, subject) == OfSubject(entries, subject).value

ValueWas(v, entries, subject) ==
    v = ValueIn(entries, subject) \/ Cardinality({e \in entries : subject \in e.keys}) > 1

\* The catalog is the last of the revisions, a page one of them.
RevisionsInv ==
    /\ curated.revision = Len(past)
    /\ curated.entries = EntriesAt(Len(past))
    /\ \A r \in 0 .. Len(past) : Orderly(EntriesAt(r))
    /\ \A p \in Curators : shown[p].revision <= Len(past) /\ shown[p].entries = EntriesAt(shown[p].revision)

\* An event says what its revision did.
Reports(e) ==
    /\ e.revision \in 1 .. Len(past)
    /\ past[e.revision].subject = e.subject
    /\ KeysOf(e.subject, e.keys)
    /\ e.after = ValueIn(EntriesAt(e.revision), e.subject)
    /\ ValueWas(e.before, EntriesAt(e.revision - 1), e.subject)

EventsInv ==
    /\ \A i \in DOMAIN trail : Reports(trail[i])
    /\ \A i \in DOMAIN writing : Reports(writing[i])

\* The events being written are of the last revisions; the trail has those of
\* all before, except the lost ones, in order.
Settled == Len(past) - Len(writing)

OrderInv ==
    /\ Settled \in Nat
    /\ lost \subseteq 1 .. Settled
    /\ {trail[i].revision : i \in DOMAIN trail} = (1 .. Settled) \ lost
    /\ \A i, j \in DOMAIN trail : i < j => trail[i].revision < trail[j].revision
    /\ \A i \in DOMAIN writing : writing[i].revision = Settled + i

CurationInv == CurationTypes /\ RevisionsInv /\ EventsInv /\ OrderInv

LEMMA KeysAreThere ==
    ASSUME NEW c \in Catalogs, NEW d \in Described[c]
    PROVE  /\ d \in Seq(CurationKey) /\ Len(d) \in Nat \ {0} /\ d[1] \in CurationKey
           /\ ToSet(d) \in SUBSET CurationKey /\ d[1] \in ToSet(d)
           /\ \A i \in DOMAIN d : d[i] \in CurationKey
           /\ c # "sites" => Len(d) = 1 /\ ToSet(d) = {d[1]}
<1>1. d \in Seq(ToSet(d)) /\ d # <<>>
  BY CurationAssumption DEF Catalogs
<1>2. ToSet(d) \in SUBSET CurationKey
  BY DEF CurationKey
<1>3. d \in Seq(CurationKey)
  BY <1>1, <1>2
<1>4. Len(d) \in Nat \ {0}
  BY <1>1
<1>5. d[1] \in ToSet(d)
  BY <1>1, <1>4 DEF ToSet
<1>6. c # "sites" => Len(d) = 1
  BY CurationAssumption DEF Catalogs
<1>7. c # "sites" => ToSet(d) = {d[1]}
  BY <1>1, <1>6 DEF ToSet
<1> QED
  BY <1>2, <1>3, <1>4, <1>5, <1>6, <1>7

LEMMA NoEntryIs ==
    /\ NoEntry.subject = "none" /\ NoEntry.keys = {} /\ NoEntry.value = NoChoice
BY DEF NoEntry

\* An entry is looked up by its subject.
LEMMA SubjectFound ==
    ASSUME NEW entries, Orderly(entries)
    PROVE  /\ \A e \in entries : OfSubject(entries, e.subject) = e
           /\ \A s : \/ OfSubject(entries, s) \in entries /\ OfSubject(entries, s).subject = s
                     \/ OfSubject(entries, s) = NoEntry /\ \A e \in entries : e.subject # s
<1>1. ASSUME NEW s, \E e \in entries : e.subject = s
      PROVE  OfSubject(entries, s) \in entries /\ OfSubject(entries, s).subject = s
  <2>1. OfSubject(entries, s) = CHOOSE e \in entries : e.subject = s
    BY <1>1 DEF OfSubject
  <2> QED
    BY <1>1, <2>1
<1>2. ASSUME NEW s, \A e \in entries : e.subject # s
      PROVE  OfSubject(entries, s) = NoEntry
  BY <1>2 DEF OfSubject
<1>3. ASSUME NEW e \in entries
      PROVE  OfSubject(entries, e.subject) = e
  BY <1>1, <1>3 DEF Orderly
<1>4. ASSUME NEW s
      PROVE  \/ OfSubject(entries, s) \in entries /\ OfSubject(entries, s).subject = s
             \/ OfSubject(entries, s) = NoEntry /\ \A e \in entries : e.subject # s
  <2>1. CASE \E e \in entries : e.subject = s
    BY <1>1, <2>1
  <2>2. CASE \A e \in entries : e.subject # s
    BY <1>2, <2>2
  <2> QED
    BY <2>1, <2>2
<1> QED
  BY <1>3, <1>4

\* What Find finds is an entry with one of the keys.  When it finds none, an
\* entry with the first key is one of several.
LEMMA FoundEntry ==
    ASSUME NEW entries, Orderly(entries), NEW d, Len(d) \in Nat \ {0}, d \in Seq(ToSet(d))
    PROVE  /\ Find(entries, d) # NoEntry =>
                Find(entries, d) \in entries /\ \E i \in DOMAIN d : d[i] \in Find(entries, d).keys
           /\ Find(entries, d) = NoEntry => ValueWas(NoChoice, entries, d[1])
<1> DEFINE matching(k) == {e \in entries : k \in e.keys}
           hits == {i \in DOMAIN d : matching(d[i]) # {}}
           first == CHOOSE i \in hits : \A j \in hits : i <= j
<1>1. Find(entries, d) = IF hits = {} THEN NoEntry
                         ELSE IF Cardinality(matching(d[first])) = 1 THEN CHOOSE e \in matching(d[first]) : TRUE
                         ELSE NoEntry
  BY DEF Find
<1>2. DOMAIN d = 1 .. Len(d)
  OBVIOUS
<1>3. \A k : matching(k) \in SUBSET entries /\ IsFiniteSet(matching(k)) /\ Cardinality(matching(k)) \in Nat
  <2>1. \A k : matching(k) \in SUBSET entries
    OBVIOUS
  <2>2. IsFiniteSet(entries)
    BY DEF Orderly
  <2> HIDE DEF matching
  <2> QED
    BY <2>1, <2>2, FS_Subset, FS_CardinalityType
<1>4. \A k : Cardinality(matching(k)) = 0 <=> matching(k) = {}
  <2> HIDE DEF matching
  <2> QED
    BY <1>3, FS_EmptySet
<1>5. ASSUME Find(entries, d) # NoEntry
      PROVE  Find(entries, d) \in entries /\ \E i \in DOMAIN d : d[i] \in Find(entries, d).keys
  <2>1. hits # {} /\ Cardinality(matching(d[first])) = 1 /\ Find(entries, d) = CHOOSE e \in matching(d[first]) : TRUE
    BY <1>1, <1>5
  <2>2. first \in hits
    <3>1. hits \in SUBSET Nat /\ hits # {}
      BY <1>2, <2>1
    <3>2. \E i \in hits : \A j \in hits : i <= j
      BY <3>1, LeastOf
    <3> HIDE DEF hits
    <3> QED
      BY <3>2
  <2>3. matching(d[first]) # {}
    BY <1>4, <2>1
  <2>4. Find(entries, d) \in matching(d[first])
    BY <2>1, <2>3
  <2> QED
    BY <2>2, <2>4
<1>6. ASSUME Find(entries, d) = NoEntry
      PROVE  ValueWas(NoChoice, entries, d[1])
  <2>1. CASE \A e \in entries : e.subject # d[1]
    BY <2>1, NoEntryIs, SubjectFound DEF ValueWas, ValueIn
  <2>2. CASE \E e \in entries : e.subject = d[1]
    <3>1. matching(d[1]) # {}
      BY <2>2 DEF Orderly, KeysOf
    <3>2. 1 \in hits /\ \A i \in hits : i \in Nat /\ 1 <= i
      BY <1>2, <3>1
    <3>3. first = 1
      <4> HIDE DEF hits
      <4>1. \E i \in hits : \A j \in hits : i <= j
        BY <3>2
      <4>2. first \in hits /\ \A j \in hits : first <= j
        BY <4>1
      <4> QED
        BY <3>2, <4>2
    <3>4. Cardinality(matching(d[1])) # 1
      <4>1. SUFFICES ASSUME Cardinality(matching(d[1])) = 1 PROVE FALSE
        OBVIOUS
      <4>2. Find(entries, d) = CHOOSE e \in matching(d[1]) : TRUE
        BY <1>1, <3>2, <3>3, <4>1
      <4>3. Find(entries, d) \in entries /\ d[1] \in Find(entries, d).keys
        BY <3>1, <4>2
      <4> QED
        BY <1>6, <4>3, NoEntryIs
    <3>5. Cardinality(matching(d[1])) > 1
      <4> HIDE DEF matching
      <4> QED
        BY <1>3, <1>4, <3>1, <3>4
    <3> QED
      BY <3>5 DEF ValueWas
  <2> QED
    BY <2>1, <2>2
<1> QED
  BY <1>5, <1>6

---------------------------------------------------------------------------
(* Curation: steps                                                         *)

\* A step of the catalog with these entries: its subject, its keys and its
\* values are proper, and what it says of before was so.
Proper(entries, step) ==
    /\ step.action \in {"assign", "revert", "undo"}
    /\ step.after \in CuratedOrGone
    /\ KeysOf(step.after.subject, step.after.keys)
    /\ step.before.value \in ValueOrNone
    /\ ValueWas(step.before.value, entries, step.after.subject)

LEMMA StepIs ==
    ASSUME NEW action, NEW before, NEW after
    PROVE  /\ Step(action, before, after).action = action
           /\ Step(action, before, after).before = before
           /\ Step(action, before, after).after = after
BY DEF Step

\* The step is about the subject it leaves.
LEMMA SubjectIs ==
    ASSUME NEW entries, NEW step, Proper(entries, step)
    PROVE  SubjectOf(step) = step.after.subject /\ step.after # NoEntry
BY NoEntryIs DEF SubjectOf, Proper, KeysOf

\* A step keeps the catalog in order, and the subject gets its value.
LEMMA AppliedIs ==
    ASSUME CurationTypes, NEW entries \in SUBSET Curated, Orderly(entries), NEW step, Proper(entries, step)
    PROVE  /\ Applied(entries, step) \in SUBSET Curated
           /\ Orderly(Applied(entries, step))
           /\ ValueIn(Applied(entries, step), step.after.subject) = step.after.value
           /\ \A s : s # step.after.subject => ValueIn(Applied(entries, step), s) = ValueIn(entries, s)
<1> DEFINE s == step.after.subject
           rest == {e \in entries : e.subject # s}
           put == IF step.after.value = NoChoice THEN {} ELSE {step.after}
<1>1. Applied(entries, step) = rest \cup put
  BY SubjectIs DEF Applied, EntriesWithout
<1>2. step.after \in CuratedOrGone /\ KeysOf(step.after.subject, step.after.keys)
  BY DEF Proper
<1>3. put \in SUBSET Curated
  BY <1>2 DEF CuratedOrGone, Curated, ValueOrNone
<1>4. IsFiniteSet(rest \cup put)
  <2>1. IsFiniteSet(rest)
    <3>1. rest \in SUBSET entries
      OBVIOUS
    <3> HIDE DEF rest
    <3> QED
      BY <3>1, FS_Subset DEF Orderly
  <2>2. IsFiniteSet(put)
    BY FS_EmptySet, FS_Singleton
  <2> HIDE DEF rest, put
  <2> QED
    BY <2>1, <2>2, FS_Union
<1>5. Orderly(rest \cup put)
  <2>1. \A e \in rest \cup put : KeysOf(e.subject, e.keys)
    BY <1>2 DEF Orderly
  <2>2. \A e, f \in rest \cup put : e.subject = f.subject => e = f
    BY DEF Orderly
  <2> QED
    BY <1>4, <2>1, <2>2 DEF Orderly
<1>6. ValueIn(rest \cup put, s) = step.after.value
  <2>1. CASE step.after.value = NoChoice
    <3>1. \A e \in rest \cup put : e.subject # s
      BY <2>1
    <3> QED
      BY <1>5, <2>1, <3>1, SubjectFound, NoEntryIs DEF ValueIn
  <2>2. CASE step.after.value # NoChoice
    <3>1. step.after \in rest \cup put
      BY <2>2
    <3> HIDE DEF rest, put
    <3> QED
      BY <1>5, <3>1, SubjectFound DEF ValueIn
  <2> QED
    BY <2>1, <2>2
<1>7. ASSUME NEW t, t # s
      PROVE  ValueIn(rest \cup put, t) = ValueIn(entries, t)
  <2>1. CASE \E e \in entries : e.subject = t
    <3>1. PICK e \in entries : e.subject = t
      BY <2>1
    <3>2. e \in rest \cup put
      BY <1>7, <3>1
    <3> HIDE DEF rest, put, s
    <3> QED
      BY <1>5, <3>1, <3>2, SubjectFound DEF ValueIn
  <2>2. CASE \A e \in entries : e.subject # t
    <3>1. \A e \in rest \cup put : e.subject # t
      BY <1>7, <2>2
    <3>2. OfSubject(entries, t) = NoEntry
      BY <2>2 DEF OfSubject
    <3>3. OfSubject(rest \cup put, t) = NoEntry
      BY <3>1 DEF OfSubject
    <3> QED
      BY <3>2, <3>3 DEF ValueIn
  <2> QED
    BY <2>1, <2>2
<1>8. entries \in SUBSET Curated => rest \in SUBSET Curated
  OBVIOUS
<1> HIDE DEF rest, put
<1> QED
  BY <1>1, <1>3, <1>5, <1>6, <1>7, <1>8

LEMMA FunctionIsSeq ==
    ASSUME NEW n \in Nat, NEW S, NEW f \in [1 .. n -> S]
    PROVE  f \in Seq(S) /\ Len(f) = n /\ DOMAIN f = 1 .. n
<1>1. f = [i \in 1 .. n |-> f[i]] /\ \A i \in 1 .. n : f[i] \in S
  OBVIOUS
<1>2. [i \in 1 .. n |-> f[i]] \in Seq(S)
  BY <1>1, IsASeq
<1> QED
  BY <1>1, <1>2

\* The steps of the operations.
LEMMA AssignIsProper ==
    ASSUME CurationTypes, NEW entries \in SUBSET Curated, Orderly(entries),
           NEW d \in Described[contract], NEW v \in CurationValues
    PROVE  /\ Proper(entries, AssignStep(entries, d, v))
           /\ AssignStep(entries, d, v).action = "assign"
           /\ contract # "sites" => AssignStep(entries, d, v).after.subject = d[1]
<1> DEFINE existing == Find(entries, d)
           after == [subject |-> IF existing = NoEntry THEN d[1] ELSE existing.subject,
                     keys |-> ToSet(d) \cup existing.keys, value |-> v]
           step == AssignStep(entries, d, v)
<1>0. contract \in Catalogs
  BY DEF CurationTypes
<1>1. step.action = "assign" /\ step.before = existing /\ step.after = after
  BY StepIs DEF AssignStep
<1>2. /\ d \in Seq(CurationKey) /\ d[1] \in CurationKey /\ ToSet(d) \in SUBSET CurationKey /\ d[1] \in ToSet(d)
      /\ Len(d) \in Nat \ {0} /\ d \in Seq(ToSet(d))
      /\ contract # "sites" => Len(d) = 1 /\ ToSet(d) = {d[1]}
  BY <1>0, KeysAreThere, CurationAssumption DEF Catalogs
<1>3. after.subject = (IF existing = NoEntry THEN d[1] ELSE existing.subject)
      /\ after.keys = ToSet(d) \cup existing.keys /\ after.value = v
  OBVIOUS
<1>4. /\ existing # NoEntry => existing \in entries /\ \E i \in DOMAIN d : d[i] \in existing.keys
      /\ existing = NoEntry => ValueWas(NoChoice, entries, d[1])
  BY <1>2, FoundEntry
<1>5. CASE existing = NoEntry
  <2>1. after.subject = d[1] /\ after.keys = ToSet(d) /\ existing.value = NoChoice
    BY <1>3, <1>5, NoEntryIs
  <2>2. after \in CuratedOrGone
    BY <1>2, <1>5, NoEntryIs DEF CuratedOrGone, ValueOrNone
  <2>3. KeysOf(after.subject, after.keys)
    BY <1>2, <2>1 DEF KeysOf
  <2> HIDE DEF after, existing, step
  <2> QED
    BY <1>1, <1>4, <1>5, <2>1, <2>2, <2>3 DEF Proper, ValueOrNone, step
<1>6. CASE existing # NoEntry
  <2>1. existing \in Curated /\ KeysOf(existing.subject, existing.keys)
    BY <1>4, <1>6 DEF Orderly
  <2>2. after.subject = existing.subject
    BY <1>3, <1>6
  <2>3. after \in CuratedOrGone
    BY <1>2, <1>6, <2>1 DEF CuratedOrGone, ValueOrNone, Curated
  <2>4. contract # "sites" => existing.subject = d[1]
    <3>1. SUFFICES ASSUME contract # "sites" PROVE existing.subject = d[1]
      OBVIOUS
    <3>2. DOMAIN d = {1}
      BY <1>2, <3>1
    <3>3. d[1] \in existing.keys
      BY <1>4, <1>6, <3>2
    <3> QED
      BY <2>1, <3>1, <3>3 DEF KeysOf
  <2>5. KeysOf(after.subject, after.keys)
    BY <1>2, <1>3, <2>1, <2>2, <2>4 DEF KeysOf
  <2>6. ValueWas(existing.value, entries, after.subject)
    BY <1>4, <1>6, <2>2, SubjectFound DEF ValueWas, ValueIn
  <2>7. existing.value \in ValueOrNone
    BY <2>1 DEF Curated, ValueOrNone
  <2> HIDE DEF after, existing, step
  <2> QED
    BY <1>1, <2>2, <2>3, <2>4, <2>5, <2>6, <2>7 DEF Proper, step
<1> QED
  BY <1>5, <1>6

LEMMA RemoveIsProper ==
    ASSUME CurationTypes, NEW entries \in SUBSET Curated, Orderly(entries), NEW d \in Described[contract],
           Find(entries, d) # NoEntry, NEW action \in {"revert", "undo"}
    PROVE  /\ Proper(entries, RemoveStep(action, Find(entries, d)))
           /\ RemoveStep(action, Find(entries, d)).action = action
<1>0. contract \in Catalogs
  BY DEF CurationTypes
<1>1. PICK existing : existing = Find(entries, d)
  OBVIOUS
<1>2. existing \in entries
  <2>1. Len(d) \in Nat \ {0} /\ d \in Seq(ToSet(d))
    BY <1>0, KeysAreThere, CurationAssumption DEF Catalogs
  <2> QED
    BY <1>1, <2>1, FoundEntry
<1>3. existing \in Curated /\ KeysOf(existing.subject, existing.keys)
  BY <1>2 DEF Orderly
<1>4. PICK after : after = [existing EXCEPT !.value = NoChoice]
  OBVIOUS
<1>5. after \in CuratedOrGone /\ after.subject = existing.subject /\ after.keys = existing.keys
  BY <1>3, <1>4 DEF Curated, CuratedOrGone, ValueOrNone
<1>6. PICK step : step = RemoveStep(action, existing)
  OBVIOUS
<1>7. step.action = action /\ step.before = existing /\ step.after = after
  BY <1>4, <1>6, StepIs DEF RemoveStep
<1>8. ValueWas(existing.value, entries, existing.subject)
  BY <1>2, SubjectFound DEF ValueWas, ValueIn
<1>9. Proper(entries, step)
  BY <1>3, <1>5, <1>7, <1>8 DEF Proper, Curated, ValueOrNone
<1> QED
  BY <1>1, <1>6, <1>7, <1>9

\* Where an event of the subject is last.
LEMMA LastIs ==
    ASSUME CurationTypes, NEW subject, History(subject) # {}
    PROVE  /\ LastOf(History(subject)) \in DOMAIN trail
           /\ trail[LastOf(History(subject))].subject = subject
           /\ \A i \in DOMAIN trail : trail[i].subject = subject => i <= LastOf(History(subject))
<1>1. Len(trail) \in Nat /\ DOMAIN trail = 1 .. Len(trail)
  BY DEF CurationTypes
<1> DEFINE places == History(subject)
<1>2. places = {i \in DOMAIN trail : trail[i].subject = subject}
  BY DEF History
<1>3. places \in SUBSET (1 .. Len(trail)) /\ places # {}
  BY <1>1, <1>2
<1> HIDE DEF places
<1>4. \E i \in places : \A j \in places : j <= i
  BY <1>1, <1>3, GreatestOf
<1>5. LastOf(places) \in places /\ \A j \in places : j <= LastOf(places)
  BY <1>4 DEF LastOf
<1> QED
  BY <1>2, <1>5 DEF places

LEMMA UndoIsProper ==
    ASSUME CurationInv, NEW entries \in SUBSET Curated, Orderly(entries),
           NEW subject \in CurationKey, History(subject) # {}
    PROVE  /\ Proper(entries, UndoStep(entries, subject))
           /\ UndoStep(entries, subject).action = "undo"
           /\ UndoStep(entries, subject).after.subject = subject
           /\ UndoStep(entries, subject).after.value = trail[LastOf(History(subject))].before
<1>1. PICK previous : previous = trail[LastOf(History(subject))]
  OBVIOUS
<1>2. previous \in CurationEvent /\ previous.subject = subject /\ KeysOf(subject, previous.keys)
  <2>1. LastOf(History(subject)) \in DOMAIN trail /\ trail[LastOf(History(subject))].subject = subject
    BY LastIs DEF CurationInv
  <2>2. Reports(previous)
    BY <1>1, <2>1 DEF CurationInv, EventsInv
  <2>3. previous \in CurationEvent
    BY <1>1, <2>1 DEF CurationInv, CurationTypes
  <2> QED
    BY <1>1, <2>1, <2>2, <2>3 DEF Reports
<1>3. previous.keys \in SUBSET CurationKey /\ previous.before \in ValueOrNone
  BY <1>2 DEF CurationEvent
<1>4. PICK restored : restored = [subject |-> subject, keys |-> previous.keys, value |-> previous.before]
  OBVIOUS
<1>5. restored \in CuratedOrGone /\ restored.subject = subject /\ restored.keys = previous.keys
      /\ restored.value = previous.before
  BY <1>3, <1>4 DEF CuratedOrGone
<1>6. PICK current : current = OfSubject(entries, subject)
  OBVIOUS
<1>7. current # NoEntry => current \in Curated /\ current.subject = subject /\ KeysOf(subject, current.keys)
  BY <1>6, SubjectFound DEF Orderly
<1>8. PICK gone : gone = [current EXCEPT !.value = NoChoice]
  OBVIOUS
<1>9. current # NoEntry => gone \in CuratedOrGone /\ gone.subject = subject /\ gone.keys = current.keys
                           /\ gone.value = NoChoice
  BY <1>7, <1>8 DEF Curated, CuratedOrGone, ValueOrNone
<1>10. PICK after : after = IF previous.before # NoChoice \/ current = NoEntry THEN restored ELSE gone
  OBVIOUS
<1>11. /\ after \in CuratedOrGone /\ after.subject = subject /\ KeysOf(subject, after.keys)
       /\ after.value = previous.before
  <2>1. CASE previous.before # NoChoice \/ current = NoEntry
    BY <1>2, <1>5, <1>10, <2>1
  <2>2. CASE ~(previous.before # NoChoice \/ current = NoEntry)
    BY <1>7, <1>9, <1>10, <2>2
  <2> QED
    BY <2>1, <2>2
<1>12. PICK step : step = UndoStep(entries, subject)
  OBVIOUS
<1>13. step = Step("undo", current, after)
  BY <1>1, <1>4, <1>6, <1>8, <1>10, <1>12 DEF UndoStep
<1>14. step.action = "undo" /\ step.before = current /\ step.after = after
  BY <1>13, StepIs
<1>15. current.value \in ValueOrNone
  <2>1. CASE current = NoEntry
    BY <2>1, NoEntryIs DEF ValueOrNone
  <2>2. CASE current # NoEntry
    BY <1>7, <2>2 DEF Curated, ValueOrNone
  <2> QED
    BY <2>1, <2>2
<1>16. ValueWas(current.value, entries, subject)
  BY <1>6 DEF ValueWas, ValueIn
<1>17. Proper(entries, step)
  BY <1>11, <1>14, <1>15, <1>16 DEF Proper
<1> QED
  BY <1>1, <1>11, <1>12, <1>14, <1>17

---------------------------------------------------------------------------
(* Curation: an operation's catalog and its events                         *)

\* The entries that a step of an operation starts from.
EntriesBefore(steps, i) == IF i = 1 THEN curated.entries ELSE EntriesAfter(steps, i - 1)

\* One or two steps, each proper for the catalog that it starts from.
Operation(steps) ==
    /\ Len(steps) \in {1, 2} /\ DOMAIN steps = 1 .. Len(steps)
    /\ \A i \in DOMAIN steps : Proper(EntriesBefore(steps, i), steps[i])

\* What each step of an operation does.
LEMMA StepsAre ==
    ASSUME CurationInv, NEW steps, Operation(steps)
    PROVE  \A i \in 1 .. Len(steps) :
             /\ EntriesBefore(steps, i) \in SUBSET Curated /\ Orderly(EntriesBefore(steps, i))
             /\ EntriesAfter(steps, i) = Applied(EntriesBefore(steps, i), steps[i])
             /\ EntriesAfter(steps, i) \in SUBSET Curated /\ Orderly(EntriesAfter(steps, i))
             /\ ValueIn(EntriesAfter(steps, i), steps[i].after.subject) = steps[i].after.value
             /\ SubjectOf(steps[i]) = steps[i].after.subject
<1>1. curated.entries \in SUBSET Curated /\ Orderly(curated.entries) /\ CurationTypes
  <2>1. Len(past) \in 0 .. Len(past)
    BY DEF CurationInv, CurationTypes
  <2> QED
    BY <2>1 DEF CurationInv, CurationTypes, RevisionsInv
<1>2. EntriesBefore(steps, 1) = curated.entries /\ EntriesAfter(steps, 1) = Applied(curated.entries, steps[1])
  BY DEF EntriesBefore, EntriesAfter
<1>3. 1 \in DOMAIN steps /\ Proper(curated.entries, steps[1])
  BY <1>2 DEF Operation
<1>4. /\ EntriesAfter(steps, 1) \in SUBSET Curated /\ Orderly(EntriesAfter(steps, 1))
      /\ ValueIn(EntriesAfter(steps, 1), steps[1].after.subject) = steps[1].after.value
  BY <1>1, <1>2, <1>3, AppliedIs
<1>5. EntriesBefore(steps, 2) = EntriesAfter(steps, 1)
      /\ EntriesAfter(steps, 2) = Applied(EntriesAfter(steps, 1), steps[2])
  BY DEF EntriesBefore, EntriesAfter
<1>6. ASSUME Len(steps) = 2
      PROVE  /\ EntriesAfter(steps, 2) \in SUBSET Curated /\ Orderly(EntriesAfter(steps, 2))
             /\ ValueIn(EntriesAfter(steps, 2), steps[2].after.subject) = steps[2].after.value
             /\ Proper(EntriesBefore(steps, 2), steps[2])
  <2>1. Proper(EntriesBefore(steps, 2), steps[2])
    BY <1>6 DEF Operation
  <2>2. PICK entries \in SUBSET Curated : entries = EntriesAfter(steps, 1)
    BY <1>4
  <2>3. Orderly(entries) /\ Proper(entries, steps[2])
    BY <1>4, <1>5, <2>1, <2>2
  <2>4. /\ Applied(entries, steps[2]) \in SUBSET Curated /\ Orderly(Applied(entries, steps[2]))
        /\ ValueIn(Applied(entries, steps[2]), steps[2].after.subject) = steps[2].after.value
    BY <1>1, <2>3, AppliedIs
  <2> QED
    BY <1>5, <2>1, <2>2, <2>4
<1>7. \A i \in 1 .. Len(steps) : i = 1 \/ (i = 2 /\ Len(steps) = 2)
  BY DEF Operation
<1> QED
  BY <1>1, <1>2, <1>3, <1>4, <1>5, <1>6, <1>7, SubjectIs

\* An operation keeps the invariant: its revisions follow the ones there are.
LEMMA CommitKeepsInv ==
    ASSUME CurationInv, NEW steps, Operation(steps), Commit(steps)
    PROVE  CurationInv'
<1>0. PICK n, k : n = Len(past) /\ k = Len(steps)
  OBVIOUS
<1> DEFINE new(i) == [subject |-> SubjectOf(steps[i]), entries |-> EntriesAfter(steps, i)]
           event(i) == EventOf(steps[i], n + i)
<1>1. /\ n = Len(past) /\ k = Len(steps) /\ n \in Nat /\ k \in {1, 2} /\ DOMAIN steps = 1 .. k /\ curated.revision = n
      /\ CurationTypes /\ writing = <<>>
  BY <1>0 DEF CurationInv, CurationTypes, RevisionsInv, Operation, Commit
<1>2. \A i \in 1 .. k :
        /\ EntriesAfter(steps, i) \in SUBSET Curated /\ Orderly(EntriesAfter(steps, i))
        /\ EntriesBefore(steps, i) \in SUBSET Curated /\ Orderly(EntriesBefore(steps, i))
        /\ ValueIn(EntriesAfter(steps, i), steps[i].after.subject) = steps[i].after.value
        /\ SubjectOf(steps[i]) = steps[i].after.subject
        /\ Proper(EntriesBefore(steps, i), steps[i])
  BY <1>1, StepsAre DEF Operation
<1>3. /\ curated' = [revision |-> n + k, entries |-> EntriesAfter(steps, k)]
      /\ writing' = [i \in 1 .. k |-> event(i)]
      /\ past' = past \o [i \in 1 .. k |-> new(i)]
      /\ UNCHANGED <<contract, trail, shown, lost>>
  BY <1>1 DEF Commit
<1>4. \A i \in 1 .. k : /\ new(i) \in [subject : CurationKey, entries : SUBSET Curated]
                        /\ event(i) \in CurationEvent
  <2> SUFFICES ASSUME NEW i \in 1 .. k
               PROVE  /\ new(i) \in [subject : CurationKey, entries : SUBSET Curated]
                      /\ event(i) \in CurationEvent
    OBVIOUS
  <2>1. steps[i].after \in CuratedOrGone /\ steps[i].before.value \in ValueOrNone
        /\ steps[i].action \in {"assign", "revert", "undo"}
    BY <1>2 DEF Proper
  <2>2. steps[i].after.subject \in CurationKey /\ steps[i].after.keys \in SUBSET CurationKey
        /\ steps[i].after.value \in ValueOrNone
    BY <2>1 DEF CuratedOrGone
  <2>3. event(i) = [action |-> steps[i].action, subject |-> steps[i].after.subject, keys |-> steps[i].after.keys,
                    before |-> steps[i].before.value, after |-> steps[i].after.value, revision |-> n + i]
    BY <1>2 DEF EventOf
  <2>4. n + i \in Nat
    BY <1>1
  <2>5. event(i) \in CurationEvent
    <3> HIDE DEF event
    <3> QED
      BY <2>1, <2>2, <2>3, <2>4 DEF CurationEvent
  <2>6. new(i) \in [subject : CurationKey, entries : SUBSET Curated]
    BY <1>2, <2>2
  <2> QED
    BY <2>5, <2>6
<1>5. /\ writing' \in Seq(CurationEvent) /\ Len(writing') = k /\ DOMAIN writing' = 1 .. k
      /\ \A i \in 1 .. k : writing'[i] = event(i)
  <2> HIDE DEF event
  <2>1. writing' \in [1 .. k -> CurationEvent] /\ \A i \in 1 .. k : writing'[i] = event(i)
    BY <1>3, <1>4
  <2>2. k \in Nat
    BY <1>1
  <2> QED
    BY <2>1, <2>2, FunctionIsSeq
<1>6. /\ past' \in Seq([subject : CurationKey, entries : SUBSET Curated]) /\ Len(past') = n + k
      /\ \A r \in 1 .. n : past'[r] = past[r]
      /\ \A i \in 1 .. k : past'[n + i] = new(i)
  <2>1. PICK more : more = [i \in 1 .. k |-> new(i)]
    OBVIOUS
  <2>2. PICK Revision : Revision = [subject : CurationKey, entries : SUBSET Curated]
    OBVIOUS
  <2>3. \A i \in 1 .. k : new(i) \in Revision
    BY <1>4, <2>2
  <2> HIDE DEF new
  <2>4. more \in Seq(Revision) /\ Len(more) = k /\ \A i \in 1 .. k : more[i] = new(i)
    <3>1. more \in [1 .. k -> Revision] /\ k \in Nat
      BY <1>1, <2>1, <2>3
    <3> QED
      BY <2>1, <3>1, FunctionIsSeq
  <2>5. past \in Seq(Revision)
    BY <1>1, <2>2 DEF CurationTypes
  <2>6. past' = past \o more
    BY <1>3, <2>1
  <2>7. past' \in Seq(Revision) /\ Len(past') = n + k
        /\ \A r \in 1 .. n + k : past'[r] = IF r <= n THEN past[r] ELSE more[r - n]
    BY <1>1, <2>4, <2>5, <2>6, ConcatProperties
  <2>8. \A r \in 1 .. n : past'[r] = past[r]
    BY <1>1, <2>7
  <2>9. \A i \in 1 .. k : past'[n + i] = new(i)
    <3> SUFFICES ASSUME NEW i \in 1 .. k PROVE past'[n + i] = new(i)
      OBVIOUS
    <3>1. past'[n + i] = more[i]
      BY <1>1, <2>7
    <3> QED
      BY <2>4, <3>1
  <2> QED
    BY <2>2, <2>7, <2>8, <2>9 DEF new
<1>7. /\ \A r \in 0 .. n : EntriesAt(r)' = EntriesAt(r)
      /\ \A i \in 1 .. k : EntriesAt(n + i)' = EntriesAfter(steps, i)
  <2>1. ASSUME NEW r \in 0 .. n PROVE EntriesAt(r)' = EntriesAt(r)
    <3>1. r # 0 => past'[r] = past[r]
      BY <1>1, <1>6
    <3> QED
      BY <3>1 DEF EntriesAt
  <2>2. ASSUME NEW i \in 1 .. k PROVE EntriesAt(n + i)' = EntriesAfter(steps, i)
    <3>1. n + i # 0 /\ past'[n + i] = new(i)
      BY <1>1, <1>6
    <3>2. new(i).entries = EntriesAfter(steps, i)
      OBVIOUS
    <3> HIDE DEF new
    <3> QED
      BY <3>1, <3>2 DEF EntriesAt
  <2> QED
    BY <2>1, <2>2
<1>8. \A i \in 1 .. k : EntriesAt(n + i - 1)' = EntriesBefore(steps, i)
  <2>1. EntriesAt(n)' = curated.entries
    BY <1>1, <1>7 DEF CurationInv, RevisionsInv
  <2>2. EntriesBefore(steps, 1) = curated.entries
    BY DEF EntriesBefore
  <2>3. k = 2 => EntriesBefore(steps, 2) = EntriesAfter(steps, 1) /\ EntriesAt(n + 1)' = EntriesAfter(steps, 1)
    BY <1>7 DEF EntriesBefore
  <2>4. n + 1 - 1 = n /\ n + 2 - 1 = n + 1
    BY <1>1
  <2>5. \A i \in 1 .. k : i = 1 \/ (i = 2 /\ k = 2)
    BY <1>1
  <2> QED
    BY <2>1, <2>2, <2>3, <2>4, <2>5
<1>9. CurationTypes'
  <2>1. 1 \in 1 .. k /\ k \in 1 .. k /\ n + k \in Nat
    BY <1>1
  <2>2. curated' \in [revision : Nat, entries : SUBSET Curated]
    BY <1>2, <1>3, <2>1
  <2> QED
    BY <1>1, <1>3, <1>5, <1>6, <2>2 DEF CurationTypes
<1>10. \A r \in 0 .. n + k : r \in 0 .. n \/ \E i \in 1 .. k : r = n + i
  <2> SUFFICES ASSUME NEW r \in 0 .. n + k, r \notin 0 .. n PROVE \E i \in 1 .. k : r = n + i
    OBVIOUS
  <2>1. r - n \in 1 .. k /\ r = n + (r - n)
    BY <1>1
  <2> QED
    BY <2>1
<1>11. \A r \in 0 .. n + k : Orderly(EntriesAt(r))'
  <2>1. ASSUME NEW r \in 0 .. n PROVE Orderly(EntriesAt(r))'
    <3>1. Orderly(EntriesAt(r)) /\ EntriesAt(r)' = EntriesAt(r)
      BY <1>1, <1>7 DEF CurationInv, RevisionsInv
    <3> QED
      BY <1>3, <3>1 DEF Orderly, KeysOf
  <2>2. ASSUME NEW i \in 1 .. k PROVE Orderly(EntriesAt(n + i))'
    <3>1. Orderly(EntriesAfter(steps, i)) /\ EntriesAt(n + i)' = EntriesAfter(steps, i)
      BY <1>2, <1>7
    <3> QED
      BY <1>3, <3>1 DEF Orderly, KeysOf
  <2> QED
    BY <1>10, <2>1, <2>2
<1>12. RevisionsInv'
  <2>1. curated'.revision = n + k /\ Len(past') = n + k
    BY <1>3, <1>6
  <2>2. curated'.entries = EntriesAt(n + k)'
    BY <1>1, <1>3, <1>7
  <2>3. EntriesAt(Len(past))' = EntriesAt(n + k)'
    BY <2>1 DEF EntriesAt
  <2>4. \A p \in Curators : shown'[p].revision <= Len(past') /\ shown'[p].entries = EntriesAt(shown[p].revision)'
    <3> SUFFICES ASSUME NEW p \in Curators
                 PROVE  shown'[p].revision <= Len(past') /\ shown'[p].entries = EntriesAt(shown[p].revision)'
      OBVIOUS
    <3>1. PICK r : r = shown[p].revision
      OBVIOUS
    <3>2. r \in 0 .. n /\ shown[p].entries = EntriesAt(r)
      BY <1>1, <3>1 DEF CurationInv, RevisionsInv, CurationTypes
    <3>3. shown'[p] = shown[p] /\ shown'[p].revision = r
      BY <1>3, <3>1
    <3>4. EntriesAt(shown[p].revision)' = EntriesAt(r)'
      BY <3>3 DEF EntriesAt
    <3>5. r <= n + k
      BY <1>1, <3>2
    <3> QED
      BY <1>7, <2>1, <3>2, <3>3, <3>4, <3>5
  <2>5. \A r \in 0 .. Len(past') : Orderly(EntriesAt(r))'
    BY <1>11, <2>1
  <2> QED
    BY <2>1, <2>2, <2>3, <2>4, <2>5 DEF RevisionsInv
<1>13. ASSUME NEW e, Reports(e) PROVE Reports(e)'
  <2>1. PICK r : r = e.revision
    OBVIOUS
  <2>2. r \in 1 .. n
    BY <1>1, <1>13, <2>1 DEF Reports
  <2>3. r - 1 \in 0 .. n /\ r \in 0 .. n /\ r \in 1 .. n + k
    BY <1>1, <2>2
  <2>4. past'[r] = past[r] /\ EntriesAt(r)' = EntriesAt(r) /\ EntriesAt(r - 1)' = EntriesAt(r - 1)
    BY <1>6, <1>7, <2>2, <2>3
  <2>5. /\ past[r].subject = e.subject /\ KeysOf(e.subject, e.keys)
        /\ e.after = ValueIn(EntriesAt(r), e.subject)
        /\ ValueWas(e.before, EntriesAt(r - 1), e.subject)
    BY <1>13, <2>1 DEF Reports
  <2>6. KeysOf(e.subject, e.keys)'
    BY <1>3, <2>5 DEF KeysOf
  <2>7. (e.after = ValueIn(EntriesAt(r), e.subject))'
    BY <2>4, <2>5 DEF ValueIn, OfSubject
  <2>8. ValueWas(e.before, EntriesAt(r - 1), e.subject)'
    BY <2>4, <2>5 DEF ValueWas, ValueIn, OfSubject
  <2> QED
    BY <1>6, <2>1, <2>3, <2>4, <2>5, <2>6, <2>7, <2>8 DEF Reports
<1>14. ASSUME NEW i \in 1 .. k PROVE Reports(writing[i])'
  <2>1. PICK e : e = event(i)
    OBVIOUS
  <2>2. writing'[i] = e
    BY <1>5, <2>1
  <2>3. /\ e.subject = steps[i].after.subject /\ e.keys = steps[i].after.keys
        /\ e.before = steps[i].before.value /\ e.after = steps[i].after.value /\ e.revision = n + i
    BY <1>2, <2>1 DEF EventOf
  <2>4. n + i \in 1 .. n + k
    BY <1>1
  <2>5. past'[n + i].subject = e.subject
    <3>1. past'[n + i] = new(i)
      BY <1>6
    <3>2. new(i).subject = steps[i].after.subject
      BY <1>2
    <3> HIDE DEF new
    <3> QED
      BY <2>3, <3>1, <3>2
  <2>6. KeysOf(e.subject, e.keys)'
    BY <1>2, <1>3, <2>3 DEF Proper, KeysOf
  <2>12. PICK r, q : r = n + i /\ q = n + i - 1
    OBVIOUS
  <2>13. PICK after, before : after = EntriesAfter(steps, i) /\ before = EntriesBefore(steps, i)
    OBVIOUS
  <2>7. EntriesAt(r)' = after /\ EntriesAt(q)' = before
    BY <1>7, <1>8, <2>12, <2>13
  <2>8. e.after = ValueIn(after, e.subject) /\ ValueWas(e.before, before, e.subject)
    BY <1>2, <2>3, <2>13 DEF Proper
  <2>9. (e.after = ValueIn(EntriesAt(r), e.subject))'
    BY <2>7, <2>8 DEF ValueIn, OfSubject
  <2>10. ValueWas(e.before, EntriesAt(q), e.subject)'
    <3> QED
      BY <2>7, <2>8
  <2>14. e.revision = r /\ e.revision - 1 = q /\ r \in 1 .. Len(past')
    BY <1>1, <1>6, <2>3, <2>4, <2>12
  <2>11. Reports(e)'
    BY <2>5, <2>6, <2>9, <2>10, <2>12, <2>14 DEF Reports
  <2> QED
    BY <2>2, <2>11 DEF Reports
<1>15. EventsInv'
  <2>1. ASSUME NEW i \in DOMAIN trail PROVE Reports(trail[i])'
    <3>1. PICK e : e = trail[i]
      OBVIOUS
    <3>2. Reports(e)
      BY <3>1 DEF CurationInv, EventsInv
    <3>3. Reports(e)' /\ trail'[i] = e
      BY <1>3, <1>13, <3>1, <3>2
    <3> QED
      BY <3>3 DEF Reports
  <2> QED
    BY <1>3, <1>5, <1>14, <2>1 DEF EventsInv
<1>16. OrderInv'
  <2>1. Settled = n /\ Settled' = n
    BY <1>1, <1>5, <1>6 DEF Settled
  <2>2. \A i \in 1 .. k : writing'[i].revision = n + i
    BY <1>5 DEF EventOf
  <2>3. /\ lost \subseteq 1 .. n
        /\ {trail[i].revision : i \in DOMAIN trail} = (1 .. n) \ lost
        /\ \A i, j \in DOMAIN trail : i < j => trail[i].revision < trail[j].revision
    BY <2>1 DEF CurationInv, OrderInv
  <2> QED
    BY <1>1, <1>3, <1>5, <2>1, <2>2, <2>3 DEF OrderInv
<1> QED
  BY <1>9, <1>12, <1>15, <1>16 DEF CurationInv

---------------------------------------------------------------------------
(* Curation: the other steps                                               *)

\* Reading the entries, the values and the events depends on the revisions and
\* on the kind of catalog only.
LEMMA SameRevisions ==
    ASSUME UNCHANGED <<contract, past>>
    PROVE  /\ \A r : EntriesAt(r)' = EntriesAt(r)
           /\ \A r : Orderly(EntriesAt(r))' <=> Orderly(EntriesAt(r))
           /\ \A e : Reports(e)' <=> Reports(e)
<1>1. \A r : EntriesAt(r)' = EntriesAt(r)
  BY DEF EntriesAt
<1>2. \A r : Orderly(EntriesAt(r))' <=> Orderly(EntriesAt(r))
  BY <1>1 DEF Orderly, KeysOf
<1>3. ASSUME NEW e PROVE Reports(e)' <=> Reports(e)
  <2>1. PICK r, s : r = e.revision /\ s = e.subject
    OBVIOUS
  <2>2. EntriesAt(r)' = EntriesAt(r) /\ EntriesAt(r - 1)' = EntriesAt(r - 1)
    BY <1>1
  <2> QED
    BY <2>1, <2>2 DEF Reports, KeysOf, ValueWas, ValueIn, OfSubject
<1> QED
  BY <1>1, <1>2, <1>3

LEMMA CurationSizes ==
    ASSUME CurationInv
    PROVE  /\ Len(past) \in Nat /\ Len(writing) \in Nat /\ Len(trail) \in Nat
           /\ DOMAIN writing = 1 .. Len(writing) /\ DOMAIN trail = 1 .. Len(trail)
           /\ Settled \in Nat /\ Len(past) = Settled + Len(writing)
           /\ curated.revision = Len(past)
           /\ \A r \in Nat : r \in 1 .. Len(past) <=>
                               r \in 1 .. Settled \/ \E i \in DOMAIN writing : r = Settled + i
<1>1. /\ Len(past) \in Nat /\ Len(writing) \in Nat /\ Len(trail) \in Nat
      /\ DOMAIN writing = 1 .. Len(writing) /\ DOMAIN trail = 1 .. Len(trail)
  BY DEF CurationInv, CurationTypes
<1>2. Settled \in Nat /\ Len(past) = Settled + Len(writing)
  BY <1>1 DEF CurationInv, OrderInv, Settled
<1>3. curated.revision = Len(past)
  BY DEF CurationInv, RevisionsInv
<1>4. ASSUME NEW r \in Nat
      PROVE  r \in 1 .. Len(past) <=> r \in 1 .. Settled \/ \E i \in DOMAIN writing : r = Settled + i
  <2>1. PICK m, w : m = Settled /\ w = Len(writing) /\ m \in Nat /\ w \in Nat
    BY <1>1, <1>2
  <2>2. ASSUME r \in 1 .. m + w, r \notin 1 .. m PROVE \E i \in 1 .. w : r = m + i
    <3>1. r - m \in 1 .. w /\ r = m + (r - m)
      BY <2>1, <2>2
    <3> QED
      BY <3>1
  <2>3. ASSUME NEW i \in 1 .. w PROVE m + i \in 1 .. m + w
    BY <2>1
  <2>4. r \in 1 .. m => r \in 1 .. m + w
    BY <2>1
  <2> QED
    BY <1>1, <1>2, <2>1, <2>2, <2>3, <2>4
<1> QED
  BY <1>1, <1>2, <1>3, <1>4

\* The revisions of the events being written are those after the settled ones.
LEMMA WritingRevisions ==
    ASSUME CurationInv
    PROVE  {writing[i].revision : i \in DOMAIN writing} = (1 .. Len(past)) \ (1 .. Settled)
<1>1. PICK m, n : m = Settled /\ n = Len(past) /\ m \in Nat /\ n \in Nat
  BY CurationSizes
<1>2. \A i \in DOMAIN writing : writing[i].revision = m + i /\ i \in Nat /\ i >= 1
  BY <1>1, CurationSizes DEF CurationInv, OrderInv
<1>3. \A r \in Nat : r \in 1 .. n <=> r \in 1 .. m \/ \E i \in DOMAIN writing : r = m + i
  BY <1>1, CurationSizes
<1>4. ASSUME NEW i \in DOMAIN writing PROVE writing[i].revision \in (1 .. n) \ (1 .. m)
  BY <1>1, <1>2, <1>3
<1>5. ASSUME NEW r \in (1 .. n) \ (1 .. m) PROVE \E i \in DOMAIN writing : r = writing[i].revision
  BY <1>1, <1>2, <1>3
<1> QED
  BY <1>1, <1>4, <1>5

LEMMA LoseTrailKeepsInv == ASSUME CurationInv, LoseTrail PROVE CurationInv'
<1>1. /\ writing' = <<>> /\ UNCHANGED <<contract, curated, trail, shown, past>>
      /\ lost' = lost \cup {writing[i].revision : i \in DOMAIN writing}
  BY DEF LoseTrail
<1>2. CurationTypes'
  BY <1>1 DEF CurationInv, CurationTypes
<1>3. RevisionsInv'
  BY <1>1, SameRevisions DEF CurationInv, RevisionsInv
<1>4. EventsInv'
  BY <1>1, SameRevisions DEF CurationInv, EventsInv
<1>5. OrderInv'
  <2>1. PICK m, n : m = Settled /\ n = Len(past) /\ m \in Nat /\ n \in Nat /\ m <= n
    BY CurationSizes
  <2>2. Settled' = n
    BY <1>1, <2>1 DEF Settled
  <2>3. lost \subseteq 1 .. m /\ {trail[i].revision : i \in DOMAIN trail} = (1 .. m) \ lost
        /\ \A i, j \in DOMAIN trail : i < j => trail[i].revision < trail[j].revision
    BY <2>1 DEF CurationInv, OrderInv
  <2>4. lost' = lost \cup ((1 .. n) \ (1 .. m))
    BY <1>1, <2>1, WritingRevisions
  <2>5. 1 .. m \subseteq 1 .. n
    BY <2>1
  <2>6. lost' \subseteq 1 .. n /\ (1 .. n) \ lost' = (1 .. m) \ lost
    <3> QED
      BY <2>3, <2>4, <2>5
  <2> QED
    BY <1>1, <2>1, <2>2, <2>3, <2>6 DEF OrderInv
<1> QED
  BY <1>2, <1>3, <1>4, <1>5 DEF CurationInv

LEMMA WriteTrailKeepsInv == ASSUME CurationInv, WriteTrail PROVE CurationInv'
<1>1. /\ writing' = <<>> /\ UNCHANGED <<contract, curated, shown, lost, past>>
      /\ trail' = trail \o writing
  BY DEF WriteTrail
<1>2. PICK t, w : t = Len(trail) /\ w = Len(writing) /\ t \in Nat /\ w \in Nat
                  /\ DOMAIN trail = 1 .. t /\ DOMAIN writing = 1 .. w
  BY CurationSizes
<1>3. /\ trail' \in Seq(CurationEvent) /\ DOMAIN trail' = 1 .. t + w
      /\ \A i \in 1 .. t + w : trail'[i] = IF i <= t THEN trail[i] ELSE writing[i - t]
  <2>1. trail \in Seq(CurationEvent) /\ writing \in Seq(CurationEvent)
    BY DEF CurationInv, CurationTypes
  <2>2. /\ trail' \in Seq(CurationEvent) /\ Len(trail') = t + w
        /\ \A i \in 1 .. t + w : trail'[i] = IF i <= t THEN trail[i] ELSE writing[i - t]
    BY <1>1, <1>2, <2>1, ConcatProperties
  <2>3. DOMAIN trail' = 1 .. Len(trail')
    BY <2>2
  <2> QED
    BY <2>2, <2>3
<1>4. /\ \A i \in 1 .. t : trail'[i] = trail[i] /\ i \in 1 .. t + w
      /\ \A i \in 1 .. w : trail'[t + i] = writing[i] /\ t + i \in 1 .. t + w
      /\ \A i \in 1 .. t + w : i \in 1 .. t \/ (i > t /\ i - t \in 1 .. w /\ trail'[i] = writing[i - t])
  <2>1. ASSUME NEW i \in 1 .. t PROVE trail'[i] = trail[i] /\ i \in 1 .. t + w
    BY <1>2, <1>3
  <2>2. ASSUME NEW i \in 1 .. w PROVE trail'[t + i] = writing[i] /\ t + i \in 1 .. t + w
    <3>1. PICK j : j = t + i /\ j \in 1 .. t + w /\ ~(j <= t) /\ j - t = i
      BY <1>2
    <3> QED
      BY <1>3, <3>1
  <2>3. ASSUME NEW i \in 1 .. t + w, i \notin 1 .. t
        PROVE  i > t /\ i - t \in 1 .. w /\ trail'[i] = writing[i - t]
    <3>1. i > t /\ i - t \in 1 .. w /\ ~(i <= t)
      BY <1>2, <2>3
    <3> QED
      BY <1>3, <3>1
  <2> QED
    BY <2>1, <2>2, <2>3
<1>5. CurationTypes'
  BY <1>1, <1>3 DEF CurationInv, CurationTypes
<1>6. RevisionsInv'
  BY <1>1, SameRevisions DEF CurationInv, RevisionsInv
<1>7. EventsInv'
  <2>1. \A i \in 1 .. t : Reports(trail[i])
    BY <1>2 DEF CurationInv, EventsInv
  <2>2. \A i \in 1 .. w : Reports(writing[i])
    BY <1>2 DEF CurationInv, EventsInv
  <2>3. ASSUME NEW i \in 1 .. t + w PROVE Reports(trail'[i])
    BY <1>4, <2>1, <2>2
  <2>4. ASSUME NEW i \in 1 .. t + w PROVE Reports(trail[i])'
    <3>1. PICK e : e = trail'[i]
      OBVIOUS
    <3>2. Reports(e)'
      BY <1>1, <2>3, <3>1, SameRevisions
    <3> QED
      BY <3>1, <3>2 DEF Reports
  <2>5. DOMAIN writing' = {}
    BY <1>1
  <2> QED
    BY <1>1, <1>3, <2>4, <2>5 DEF EventsInv
<1>8. OrderInv'
  <2>1. PICK m, n : m = Settled /\ n = Len(past) /\ m \in Nat /\ n \in Nat /\ m <= n
    BY CurationSizes
  <2>2. Settled' = n
    BY <1>1, <2>1 DEF Settled
  <2>3. /\ lost \subseteq 1 .. m /\ {trail[i].revision : i \in 1 .. t} = (1 .. m) \ lost
        /\ \A i, j \in 1 .. t : i < j => trail[i].revision < trail[j].revision
        /\ \A i \in 1 .. w : writing[i].revision = m + i
    BY <1>2, <2>1 DEF CurationInv, OrderInv
  <2>4. {writing[i].revision : i \in 1 .. w} = (1 .. n) \ (1 .. m)
    BY <1>2, <2>1, WritingRevisions
  <2>5. 1 .. m \subseteq 1 .. n
    BY <2>1
  <2>6. {trail'[i].revision : i \in 1 .. t + w} = (1 .. n) \ lost
    <3>1. ASSUME NEW i \in 1 .. t + w PROVE trail'[i].revision \in (1 .. n) \ lost
      <4>1. CASE i \in 1 .. t
        <5>1. trail'[i].revision = trail[i].revision /\ trail[i].revision \in (1 .. m) \ lost
          BY <1>4, <2>3, <4>1
        <5> QED
          BY <2>5, <5>1
      <4>2. CASE i \notin 1 .. t
        <5>1. i - t \in 1 .. w /\ trail'[i] = writing[i - t]
          BY <1>4, <4>2
        <5>2. writing[i - t].revision \in (1 .. n) \ (1 .. m)
          BY <2>4, <5>1
        <5> QED
          BY <2>3, <5>1, <5>2
      <4> QED
        BY <4>1, <4>2
    <3>2. ASSUME NEW r \in (1 .. n) \ lost PROVE \E i \in 1 .. t + w : r = trail'[i].revision
      <4>1. CASE r \in 1 .. m
        <5>1. PICK i \in 1 .. t : r = trail[i].revision
          BY <2>3, <4>1
        <5> QED
          BY <1>4, <5>1
      <4>2. CASE r \notin 1 .. m
        <5>1. PICK i \in 1 .. w : r = writing[i].revision
          BY <2>4, <4>2
        <5> QED
          BY <1>4, <5>1
      <4> QED
        BY <4>1, <4>2
    <3> QED
      BY <3>1, <3>2
  <2>7. ASSUME NEW i \in 1 .. t + w, NEW j \in 1 .. t + w, i < j
        PROVE  trail'[i].revision < trail'[j].revision
    <3>1. CASE j \in 1 .. t
      <4>1. i \in 1 .. t
        BY <1>2, <2>7, <3>1
      <4> QED
        BY <1>4, <2>3, <2>7, <3>1, <4>1
    <3>2. CASE j \notin 1 .. t
      <4>1. j - t \in 1 .. w /\ trail'[j].revision = m + (j - t)
        BY <1>4, <2>3, <3>2
      <4>2. CASE i \in 1 .. t
        <5>1. trail'[i].revision \in 1 .. m
          BY <1>4, <2>3, <4>2
        <5> QED
          BY <1>2, <2>1, <4>1, <5>1
      <4>3. CASE i \notin 1 .. t
        <5>1. i - t \in 1 .. w /\ trail'[i].revision = m + (i - t)
          BY <1>4, <2>3, <4>3
        <5> QED
          BY <1>2, <2>1, <2>7, <4>1, <5>1
      <4> QED
        BY <4>2, <4>3
    <3> QED
      BY <3>1, <3>2
  <2>8. lost' \subseteq 1 .. n
    BY <1>1, <2>3, <2>5
  <2>9. DOMAIN writing' = {}
    BY <1>1
  <2> QED
    BY <1>1, <1>3, <2>1, <2>2, <2>6, <2>7, <2>8, <2>9 DEF OrderInv
<1> QED
  BY <1>5, <1>6, <1>7, <1>8 DEF CurationInv

LEMMA ShowPageKeepsInv == ASSUME CurationInv, NEW p \in Curators, ShowPage(p) PROVE CurationInv'
<1>1. shown' = [shown EXCEPT ![p] = curated] /\ UNCHANGED <<contract, curated, trail, writing, lost, past>>
  BY DEF ShowPage
<1>2. CurationTypes'
  BY <1>1 DEF CurationInv, CurationTypes
<1>3. RevisionsInv'
  <2>1. ASSUME NEW q \in Curators
        PROVE  shown'[q].revision <= Len(past) /\ shown'[q].entries = EntriesAt(shown'[q].revision)
    <3>1. shown'[q] = IF q = p THEN curated ELSE shown[q]
      BY <1>1 DEF CurationInv, CurationTypes
    <3> QED
      BY <3>1, CurationSizes DEF CurationInv, RevisionsInv
  <2>2. ASSUME NEW q \in Curators
        PROVE  (shown[q].revision <= Len(past) /\ shown[q].entries = EntriesAt(shown[q].revision))'
    <3>1. EntriesAt(shown[q].revision)' = EntriesAt(shown'[q].revision)
      BY <1>1 DEF EntriesAt
    <3> QED
      BY <1>1, <2>1, <3>1
  <2> QED
    BY <1>1, <2>2, SameRevisions DEF CurationInv, RevisionsInv
<1>4. EventsInv'
  BY <1>1, SameRevisions DEF CurationInv, EventsInv
<1>5. OrderInv'
  BY <1>1 DEF CurationInv, OrderInv, Settled
<1> QED
  BY <1>2, <1>3, <1>4, <1>5 DEF CurationInv

---------------------------------------------------------------------------
(* Curation: every operation                                               *)

\* An operation of one step, and of two on different subjects.
LEMMA OneStep ==
    ASSUME NEW step, Proper(curated.entries, step)
    PROVE  Operation(<<step>>) /\ Len(<<step>>) = 1 /\ <<step>>[1] = step
BY DEF Operation, EntriesBefore

\* While things have one key, a value of before is what it was.
LEMMA OneHasTheKey ==
    ASSUME NEW entries, Orderly(entries), contract # "sites", NEW v, NEW s, ValueWas(v, entries, s)
    PROVE  v = ValueIn(entries, s)
<1> DEFINE having == {e \in entries : s \in e.keys}
<1>1. \A e, f \in having : e = f
  BY DEF Orderly, KeysOf
<1>2. CASE having = {}
  BY <1>2, FS_EmptySet DEF ValueWas
<1>3. CASE having # {}
  <2>1. PICK e \in having : having = {e}
    BY <1>1, <1>3
  <2>2. Cardinality(having) = 1
    BY <2>1, FS_Singleton
  <2> QED
    BY <2>2 DEF ValueWas
<1> QED
  BY <1>2, <1>3

LEMMA TwoSteps ==
    ASSUME CurationTypes, curated.entries \in SUBSET Curated, Orderly(curated.entries), contract # "sites",
           NEW first, Proper(curated.entries, first), NEW second, Proper(curated.entries, second),
           first.after.subject # second.after.subject
    PROVE  Operation(<<first, second>>)
<1>1. PICK steps : steps = <<first, second>>
  OBVIOUS
<1>2. Len(steps) = 2 /\ DOMAIN steps = 1 .. 2 /\ steps[1] = first /\ steps[2] = second
  BY <1>1
<1>3. EntriesBefore(steps, 1) = curated.entries
  BY DEF EntriesBefore
<1>4. EntriesBefore(steps, 2) = Applied(curated.entries, first)
  BY <1>2 DEF EntriesBefore, EntriesAfter
<1>5. ValueIn(Applied(curated.entries, first), second.after.subject) = ValueIn(curated.entries, second.after.subject)
  BY AppliedIs
<1>6. second.before.value = ValueIn(curated.entries, second.after.subject)
  BY OneHasTheKey DEF Proper
<1>7. Proper(Applied(curated.entries, first), second)
  BY <1>5, <1>6 DEF Proper, ValueWas
<1>8. \A i \in 1 .. 2 : i = 1 \/ i = 2
  OBVIOUS
<1> QED
  BY <1>1, <1>2, <1>3, <1>4, <1>7, <1>8 DEF Operation

LEMMA CatalogInOrder ==
    ASSUME CurationInv
    PROVE  CurationTypes /\ curated.entries \in SUBSET Curated /\ Orderly(curated.entries)
           /\ \A p \in Curators : \A e \in shown[p].entries : e.subject \in CurationKey
<1>1. Len(past) \in 0 .. Len(past)
  BY CurationSizes
<1>2. curated.entries \in SUBSET Curated /\ \A p \in Curators : shown[p].entries \in SUBSET Curated
  BY DEF CurationInv, CurationTypes
<1> QED
  BY <1>1, <1>2 DEF CurationInv, RevisionsInv, Curated

LEMMA AssignKeepsInv ==
    ASSUME CurationInv, NEW p \in Curators, NEW d \in Described[contract], NEW v \in CurationValues, Assign(p, d, v)
    PROVE  CurationInv'
<1>1. PICK step : step = AssignStep(curated.entries, d, v)
  OBVIOUS
<1>2. Proper(curated.entries, step)
  BY <1>1, CatalogInOrder, AssignIsProper
<1>3. Commit(<<step>>)
  BY <1>1 DEF Assign
<1> QED
  BY <1>2, <1>3, OneStep, CommitKeepsInv

LEMMA ResolveManyKeepsInv ==
    ASSUME CurationInv, NEW p \in Curators, NEW d \in Described[contract], NEW v \in CurationValues,
           NEW e \in Described[contract], NEW w \in CurationValues, ResolveMany(p, d, v, e, w)
    PROVE  CurationInv'
<1>1. PICK first, second : first = AssignStep(curated.entries, d, v) /\ second = AssignStep(curated.entries, e, w)
  OBVIOUS
<1>2. contract = "peers" /\ d # e /\ Commit(<<first, second>>)
  BY <1>1 DEF ResolveMany
<1>3. Proper(curated.entries, first) /\ first.after.subject = d[1]
  BY <1>1, <1>2, CatalogInOrder, AssignIsProper
<1>4. Proper(curated.entries, second) /\ second.after.subject = e[1]
  BY <1>1, <1>2, CatalogInOrder, AssignIsProper
<1>5. d[1] # e[1]
  <2>1. d \in Seq(CurationKey) /\ e \in Seq(CurationKey) /\ Len(d) = 1 /\ Len(e) = 1
    BY <1>2, KeysAreThere DEF Catalogs
  <2> QED
    BY <1>2, <2>1
<1>6. Operation(<<first, second>>)
  BY <1>2, <1>3, <1>4, <1>5, CatalogInOrder, TwoSteps
<1> QED
  BY <1>2, <1>6, CommitKeepsInv

LEMMA RevertKeepsInv ==
    ASSUME CurationInv, NEW p \in Curators, NEW d \in Described[contract], Revert(p, d) \/ UndoDisposition(p, d)
    PROVE  CurationInv'
<1>1. Find(curated.entries, d) # NoEntry
  BY DEF Revert, UndoDisposition
<1>2. PICK action \in {"revert", "undo"} : Commit(<<RemoveStep(action, Find(curated.entries, d))>>)
  BY DEF Revert, UndoDisposition
<1>3. PICK step : step = RemoveStep(action, Find(curated.entries, d))
  OBVIOUS
<1>4. Proper(curated.entries, step)
  BY <1>1, <1>3, CatalogInOrder, RemoveIsProper
<1>5. Commit(<<step>>)
  BY <1>2, <1>3
<1> QED
  BY <1>4, <1>5, OneStep, CommitKeepsInv

LEMMA UndoKeepsInv ==
    ASSUME CurationInv, NEW p \in Curators, NEW e \in shown[p].entries, Undo(p, e.subject)
    PROVE  CurationInv'
<1>1. PICK subject : subject = e.subject
  OBVIOUS
<1>2. subject \in CurationKey
  BY <1>1, CatalogInOrder
<1>3. PICK step : step = UndoStep(curated.entries, subject)
  OBVIOUS
<1>4. History(subject) # {} /\ Commit(<<step>>)
  BY <1>1, <1>3 DEF Undo
<1>5. Proper(curated.entries, step)
  BY <1>2, <1>3, <1>4, CatalogInOrder, UndoIsProper
<1> QED
  BY <1>4, <1>5, OneStep, CommitKeepsInv

LEMMA CurationInitInv == CurationInit => CurationInv
<1> SUFFICES ASSUME CurationInit PROVE CurationInv
  OBVIOUS
<1>1. /\ contract \in Catalogs /\ curated = [revision |-> 0, entries |-> {}]
      /\ trail = <<>> /\ writing = <<>> /\ lost = {} /\ past = <<>>
      /\ shown = [p \in Curators |-> [revision |-> 0, entries |-> {}]]
  BY DEF CurationInit, Catalogs
<1>2. CurationTypes
  BY <1>1 DEF CurationTypes
<1>3. EntriesAt(0) = {} /\ Orderly({})
  BY FS_EmptySet DEF EntriesAt, Orderly
<1>4. RevisionsInv
  <2>1. Len(past) = 0 /\ curated.revision = 0 /\ curated.entries = {}
    BY <1>1
  <2>2. \A p \in Curators : shown[p].revision = 0 /\ shown[p].entries = {}
    BY <1>1
  <2>3. \A r \in 0 .. 0 : Orderly(EntriesAt(r))
    <3>1. \A r \in 0 .. 0 : EntriesAt(r) = {}
      BY DEF EntriesAt
    <3> QED
      BY <3>1, FS_EmptySet DEF Orderly
  <2>4. \A p \in Curators : shown[p].revision <= Len(past) /\ shown[p].entries = EntriesAt(shown[p].revision)
    <3> SUFFICES ASSUME NEW p \in Curators
                 PROVE  shown[p].revision <= Len(past) /\ shown[p].entries = EntriesAt(shown[p].revision)
      OBVIOUS
    <3>1. shown[p].revision = 0 /\ shown[p].entries = {}
      BY <2>2
    <3>2. EntriesAt(shown[p].revision) = {}
      BY <3>1 DEF EntriesAt
    <3> QED
      BY <2>1, <3>1, <3>2
  <2>5. curated.revision = Len(past) /\ curated.entries = EntriesAt(Len(past))
    BY <2>1 DEF EntriesAt
  <2>6. \A r \in 0 .. Len(past) : Orderly(EntriesAt(r))
    BY <2>1, <2>3
  <2> QED
    BY <2>4, <2>5, <2>6 DEF RevisionsInv
<1>5. EventsInv /\ OrderInv
  BY <1>1 DEF EventsInv, OrderInv, Settled
<1> QED
  BY <1>2, <1>4, <1>5 DEF CurationInv

LEMMA CurationStepInv == CurationInv /\ [CurationNext]_curationVars => CurationInv'
<1> SUFFICES ASSUME CurationInv, [CurationNext]_curationVars PROVE CurationInv'
  OBVIOUS
<1>1. CASE WriteTrail
  BY <1>1, WriteTrailKeepsInv
<1>2. CASE LoseTrail
  BY <1>2, LoseTrailKeepsInv
<1>3. CASE \E p \in Curators : ShowPage(p)
  BY <1>3, ShowPageKeepsInv
<1>4. CASE \E p \in Curators, d \in Described[contract], v \in CurationValues : Assign(p, d, v)
  BY <1>4, AssignKeepsInv
<1>5. CASE \E p \in Curators, d \in Described[contract], v \in CurationValues,
                e \in Described[contract], w \in CurationValues : ResolveMany(p, d, v, e, w)
  BY <1>5, ResolveManyKeepsInv
<1>6. CASE \E p \in Curators, d \in Described[contract] : Revert(p, d) \/ UndoDisposition(p, d)
  BY <1>6, RevertKeepsInv
<1>7. CASE \E p \in Curators : \E e \in shown[p].entries : Undo(p, e.subject)
  BY <1>7, UndoKeepsInv
<1>8. CASE UNCHANGED curationVars
  <2>1. UNCHANGED <<contract, curated, trail, writing, shown, lost, past>>
    BY <1>8 DEF curationVars
  <2>2. CurationTypes' /\ OrderInv'
    BY <2>1 DEF CurationInv, CurationTypes, OrderInv, Settled
  <2>3. EventsInv'
    BY <2>1, SameRevisions DEF CurationInv, EventsInv
  <2>4. RevisionsInv'
    BY <2>1, SameRevisions DEF CurationInv, RevisionsInv
  <2> QED
    BY <2>2, <2>3, <2>4 DEF CurationInv
<1> QED
  BY <1>1, <1>2, <1>3, <1>4, <1>5, <1>6, <1>7, <1>8 DEF CurationNext

LEMMA SpecCurationInv == CurationSpec => []CurationInv
BY CurationInitInv, CurationStepInv, PTL DEF CurationSpec

\* What TrailAccounts says of a revision is what the invariant does.
LEMMA RevisionsTell ==
    ASSUME CurationInv
    PROVE  /\ \A r \in 0 .. Len(past) : \A s : ValueAt(r, s) = ValueIn(EntriesAt(r), s)
           /\ \A r \in 0 .. Len(past) : \A v, s : ValueWas(v, EntriesAt(r), s) =>
                                                    v = ValueAt(r, s) \/ Ambiguous(r, s)
<1>1. ASSUME NEW r \in 0 .. Len(past), NEW s PROVE ValueAt(r, s) = ValueIn(EntriesAt(r), s)
  <2>1. CASE r = 0
    <3>1. OfSubject({}, s) = NoEntry
      BY DEF OfSubject
    <3> QED
      BY <2>1, <3>1, NoEntryIs DEF ValueAt, ValueIn, EntriesAt
  <2>2. CASE r # 0
    BY <2>2 DEF ValueAt, ValueIn, EntriesAt
  <2> QED
    BY <2>1, <2>2
<1>2. ASSUME NEW r \in 0 .. Len(past), NEW v, NEW s, ValueWas(v, EntriesAt(r), s)
      PROVE  v = ValueAt(r, s) \/ Ambiguous(r, s)
  <2>1. CASE r = 0
    <3>1. EntriesAt(r) = {} /\ {e \in EntriesAt(r) : s \in e.keys} = {}
      BY <2>1 DEF EntriesAt
    <3>2. Cardinality({e \in EntriesAt(r) : s \in e.keys}) = 0
      BY <3>1, FS_EmptySet
    <3> QED
      BY <1>1, <1>2, <3>2 DEF ValueWas
  <2>2. CASE r # 0
    <3>1. EntriesAt(r) = past[r].entries /\ r > 0
      BY <2>2, CurationSizes DEF EntriesAt
    <3> QED
      BY <1>1, <1>2, <3>1 DEF ValueWas, Ambiguous
  <2> QED
    BY <2>1, <2>2
<1> QED
  BY <1>1, <1>2

LEMMA CurationInvSound == CurationInv => CurationSound
<1> SUFFICES ASSUME CurationInv PROVE CurationSound
  OBVIOUS
<1>1. CurationTypeOK
  <2>1. \A e \in curated.entries : e.value \in CurationValues /\ e.subject \in e.keys
    BY CatalogInOrder DEF Curated, Orderly, KeysOf
  <2>2. lost \subseteq 1 .. curated.revision
    <3>1. PICK m, n : m = Settled /\ n = Len(past) /\ m \in Nat /\ n \in Nat /\ m <= n /\ curated.revision = n
      BY CurationSizes
    <3>2. 1 .. m \subseteq 1 .. n
      BY <3>1
    <3> QED
      BY <3>1, <3>2 DEF CurationInv, OrderInv
  <2> QED
    BY <2>1, <2>2 DEF CurationTypeOK, CurationInv, RevisionsInv
<1>2. TrailAccounts
  <2> SUFFICES ASSUME writing = <<>>
               PROVE  /\ {trail[i].revision : i \in DOMAIN trail} = (1..curated.revision) \ lost
                      /\ \A i \in DOMAIN trail :
                           /\ i > 1 => trail[i - 1].revision < trail[i].revision
                           /\ trail[i].after = ValueAt(trail[i].revision, trail[i].subject)
                           /\ \/ trail[i].before = ValueAt(trail[i].revision - 1, trail[i].subject)
                              \/ Ambiguous(trail[i].revision - 1, trail[i].subject)
    BY DEF TrailAccounts
  <2>1. Settled = curated.revision
    BY CurationSizes DEF Settled
  <2>2. ASSUME NEW i \in DOMAIN trail
        PROVE  /\ i > 1 => trail[i - 1].revision < trail[i].revision
               /\ trail[i].after = ValueAt(trail[i].revision, trail[i].subject)
               /\ \/ trail[i].before = ValueAt(trail[i].revision - 1, trail[i].subject)
                  \/ Ambiguous(trail[i].revision - 1, trail[i].subject)
    <3>1. i > 1 => trail[i - 1].revision < trail[i].revision
      <4>1. i > 1 => i - 1 \in DOMAIN trail /\ i - 1 < i
        BY CurationSizes
      <4> QED
        BY <4>1 DEF CurationInv, OrderInv
    <3>2. PICK e, r : e = trail[i] /\ r = trail[i].revision
      OBVIOUS
    <3>3. Reports(e) /\ r = e.revision
      BY <3>2 DEF CurationInv, EventsInv
    <3>4. r \in 0 .. Len(past) /\ r - 1 \in 0 .. Len(past)
      BY <3>3, CurationSizes DEF Reports
    <3>5. e.after = ValueAt(r, e.subject) /\ (e.before = ValueAt(r - 1, e.subject) \/ Ambiguous(r - 1, e.subject))
      BY <3>3, <3>4, RevisionsTell DEF Reports
    <3> QED
      BY <3>1, <3>2, <3>5
  <2> QED
    BY <2>1, <2>2 DEF CurationInv, OrderInv
<1>3. PagesTell
  <2> SUFFICES ASSUME NEW p \in Curators, shown[p].revision = curated.revision PROVE shown[p] = curated
    BY DEF PagesTell, PageIsCurrent
  <2>1. shown[p].entries = curated.entries
    BY CurationSizes DEF CurationInv, RevisionsInv
  <2>2. shown[p] \in [revision : Nat, entries : SUBSET Curated] /\ curated \in [revision : Nat, entries : SUBSET Curated]
    BY DEF CurationInv, CurationTypes
  <2> QED
    BY <2>1, <2>2
<1>4. OneEntryPerSubject
  BY CatalogInOrder DEF OneEntryPerSubject, Orderly, KeysOf
<1> QED
  BY <1>1, <1>2, <1>3, <1>4 DEF CurationSound

\* Whatever was corrected, reverted and undone from pages of any age, and
\* whichever trails were not written: the trail accounts for every revision
\* whose event was written, a page of the catalog's revision shows the
\* catalog, and a subject has one entry.
THEOREM SpecCurationSound == CurationSpec => []CurationSound
BY SpecCurationInv, CurationInvSound, PTL

\* The event of the last change of a subject, if it was written, is the last
\* that the trail has of it.
LEMMA LastChangeIsLast ==
    ASSUME CurationInv, writing = <<>>, NEW subject, NEW last \in DOMAIN past, past[last].subject = subject,
           \A q \in DOMAIN past : past[q].subject = subject => q <= last,
           last \notin lost, History(subject) # {}
    PROVE  trail[LastOf(History(subject))].revision = last
<1>1. Settled = Len(past) /\ DOMAIN past = 1 .. Len(past) /\ Len(past) \in Nat
  <2>1. DOMAIN past = 1 .. Len(past)
    BY DEF CurationInv, CurationTypes
  <2> QED
    BY <2>1, CurationSizes DEF Settled
<1>2. PICK j : j = LastOf(History(subject))
  OBVIOUS
<1>3. j \in DOMAIN trail /\ trail[j].subject = subject /\ \A i \in DOMAIN trail : trail[i].subject = subject => i <= j
  BY <1>2, LastIs DEF CurationInv
<1>4. PICK i \in DOMAIN trail : trail[i].revision = last
  BY <1>1 DEF CurationInv, OrderInv
<1>5. trail[i].subject = subject
  BY <1>4 DEF CurationInv, EventsInv, Reports
<1>6. i <= j
  BY <1>3, <1>5
<1>7. trail[j].revision \in DOMAIN past /\ past[trail[j].revision].subject = subject
  BY <1>1, <1>3 DEF CurationInv, EventsInv, Reports
<1>8. trail[j].revision <= last
  BY <1>7
<1>9. i < j => trail[i].revision < trail[j].revision
  BY <1>3 DEF CurationInv, OrderInv
<1>10. i = j
  BY <1>1, <1>3, <1>4, <1>6, <1>7, <1>8, <1>9, CurationSizes
<1> QED
  BY <1>2, <1>4, <1>10

\* What an undo of a subject leaves it with.
LEMMA UndoTakesBack ==
    ASSUME CurationInv, CurationNext, Len(past') > Len(past), writing'[1].action = "undo", contract # "queue"
    PROVE  LET subject == writing'[1].subject
               changes == {r \in DOMAIN past : past[r].subject = subject}
               last == CHOOSE r \in changes : \A q \in changes : q <= r
           IN last \notin lost /\ ~Ambiguous(last - 1, subject) =>
                  OfSubject(curated'.entries, subject).value = ValueAt(last - 1, subject)
<1>0. \E p \in Curators : \E e \in shown[p].entries : Undo(p, e.subject)
  <2>1. ~WriteTrail /\ ~LoseTrail /\ \A p \in Curators : ~ShowPage(p)
    BY CurationSizes DEF WriteTrail, LoseTrail, ShowPage
  <2>2. ASSUME NEW step, Commit(<<step>>) PROVE writing'[1] = EventOf(step, curated.revision + 1)
    BY <2>2 DEF Commit
  <2>3. ASSUME NEW first, NEW second, Commit(<<first, second>>)
        PROVE  writing'[1] = EventOf(first, curated.revision + 1)
    BY <2>3 DEF Commit
  <2>4. \A step, r : EventOf(step, r).action = step.action
    BY DEF EventOf
  <2>5. \A entries, d, v : AssignStep(entries, d, v).action = "assign"
    BY StepIs DEF AssignStep
  <2>6. \A existing : RemoveStep("revert", existing).action = "revert"
    BY StepIs DEF RemoveStep
  <2>7. \A q \in Curators : \A d \in Described[contract], v \in CurationValues :
          /\ ~Assign(q, d, v)
          /\ \A f \in Described[contract], w \in CurationValues : ~ResolveMany(q, d, v, f, w)
    BY <2>2, <2>3, <2>4, <2>5 DEF Assign, ResolveMany
  <2>8. \A q \in Curators : \A d \in Described[contract] : ~Revert(q, d) /\ ~UndoDisposition(q, d)
    BY <2>2, <2>4, <2>6 DEF Revert, UndoDisposition
  <2> QED
    BY <2>1, <2>7, <2>8 DEF CurationNext
<1>11. PICK p \in Curators : \E e \in shown[p].entries : Undo(p, e.subject)
  BY <1>0
<1>1. PICK e \in shown[p].entries : Undo(p, e.subject)
  BY <1>11
<1>2. PICK subject : subject = e.subject
  OBVIOUS
<1>3. PICK step : step = UndoStep(curated.entries, subject)
  OBVIOUS
<1>4. writing = <<>> /\ History(subject) # {} /\ Commit(<<step>>) /\ subject \in CurationKey
  BY <1>1, <1>2, <1>3, CatalogInOrder DEF Undo, Commit
<1>5. /\ Proper(curated.entries, step) /\ step.after.subject = subject
      /\ step.after.value = trail[LastOf(History(subject))].before
  BY <1>3, <1>4, CatalogInOrder, UndoIsProper
<1>6. SubjectOf(step) = subject
  BY <1>5, SubjectIs
<1>7. writing'[1].subject = subject
  <2>1. writing'[1] = EventOf(step, curated.revision + 1)
    BY <1>4 DEF Commit
  <2> QED
    BY <1>6, <2>1 DEF EventOf
<1>8. OfSubject(curated'.entries, subject).value = trail[LastOf(History(subject))].before
  <2>1. curated'.entries = Applied(curated.entries, step)
    BY <1>4 DEF Commit, EntriesAfter
  <2>2. ValueIn(Applied(curated.entries, step), subject) = step.after.value
    BY <1>5, CatalogInOrder, AppliedIs
  <2> QED
    BY <1>5, <2>1, <2>2 DEF ValueIn
<1> DEFINE changes == {r \in DOMAIN past : past[r].subject = subject}
           last == CHOOSE r \in changes : \A q \in changes : q <= r
<1>9. last \in changes /\ \A q \in changes : q <= last
  <2>1. changes \in SUBSET (1 .. Len(past)) /\ Len(past) \in Nat
    BY DEF CurationInv, CurationTypes
  <2>2. changes # {}
    <3>1. PICK j \in DOMAIN trail : trail[j].subject = subject
      BY <1>4 DEF History
    <3>2. Reports(trail[j])
      BY DEF CurationInv, EventsInv
    <3>3. trail[j].revision \in DOMAIN past
      BY <3>2 DEF Reports, CurationInv, CurationTypes
    <3> QED
      BY <3>1, <3>2, <3>3 DEF Reports
  <2> HIDE DEF changes
  <2>3. \E r \in changes : \A q \in changes : q <= r
    BY <2>1, <2>2, GreatestOf
  <2> QED
    BY <2>3
<1>10. ASSUME last \notin lost, ~Ambiguous(last - 1, subject)
       PROVE  OfSubject(curated'.entries, subject).value = ValueAt(last - 1, subject)
  <2>1. PICK r : r = last
    OBVIOUS
  <2>2. r \in DOMAIN past /\ past[r].subject = subject /\ \A q \in DOMAIN past : past[q].subject = subject => q <= r
    BY <1>9, <2>1
  <2>3. trail[LastOf(History(subject))].revision = r
    BY <1>4, <1>10, <2>1, <2>2, LastChangeIsLast
  <2>4. PICK f : f = trail[LastOf(History(subject))]
    OBVIOUS
  <2>5. Reports(f) /\ f.subject = subject /\ f.revision = r
    BY <1>4, <2>3, <2>4, LastIs DEF CurationInv, EventsInv
  <2>6. r - 1 \in 0 .. Len(past)
    BY <2>5, CurationSizes DEF Reports
  <2>7. f.before = ValueAt(r - 1, subject)
    BY <1>10, <2>1, <2>5, <2>6, RevisionsTell DEF Reports
  <2> QED
    BY <1>8, <2>1, <2>4, <2>7
<1> QED
  BY <1>7, <1>10

\* However many corrections of other subjects, reverts and undos came in
\* between: an undo gives a subject the value it had before its last change,
\* unless the event of that change was not written or the entry could not be
\* told from another.
THEOREM SpecCurationUndoTakesBack == CurationSpec => CurationUndoTakesBack
<1>1. CurationInv /\ [CurationNext]_curationVars =>
        [(Len(past') > Len(past) /\ writing'[1].action = "undo" /\ contract # "queue") =>
           LET subject == writing'[1].subject
               changes == {r \in DOMAIN past : past[r].subject = subject}
               last == CHOOSE r \in changes : \A q \in changes : q <= r
           IN last \notin lost /\ ~Ambiguous(last - 1, subject) =>
                  OfSubject(curated'.entries, subject).value = ValueAt(last - 1, subject)]_curationVars
  BY UndoTakesBack
<1> QED
  BY <1>1, SpecCurationInv, PTL DEF CurationSpec, CurationUndoTakesBack

=============================================================================
