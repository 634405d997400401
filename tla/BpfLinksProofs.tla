--------------------------- MODULE BpfLinksProofs ---------------------------
(***************************************************************************)
(* Proofs about BpfLinks, for every set of programs, pods, containers,     *)
(* interfaces and link ids, every bound and, where no hypothesis says      *)
(* otherwise, every failure:                                               *)
(*   LinksTypeCorrect      the API server admits every list the agent      *)
(*                         writes, and no loop leaves its list;            *)
(*   EveryLinkIsRecorded   the list and bpfman's links are in bijection;   *)
(*   AttachedOncePerPoint  no place is used twice;                         *)
(*   AttachedWhereAsked    after a reconcile that succeeded on the node as *)
(*                         it is, no place is used that is not asked for;  *)
(*   AskedIsAttached       and every place asked for is used;              *)
(*   RecordedWhereAsked    and the list knows links only that are asked    *)
(*                         for, one for each place;                        *)
(*   FailuresLoseOneLinkEach  a link the list does not know costs a        *)
(*                         failure.                                        *)
(*                                                                         *)
(* The module first reduces the 13 reconcilers to four effects: Expanded   *)
(* and LookedUp (updateLinks), LinkEffect (reconcileBpfLink) and           *)
(* ProcessEffect (the end of processLinks).  BaseInv says what entries,    *)
(* paths and containers there can be; every theorem rests on it.  The last *)
(* part compares the expansion of an attachInfo with what it means to the  *)
(* user, and follows the marked entries from there to the attach points.   *)
(* RecordInv and OnceInv say less once an answer of bpfman was lost or the *)
(* other controller has reset NetNsCache (Reliable, Undisturbed).          *)
(***************************************************************************)
EXTENDS BpfLinks, FiniteSetTheorems, SequenceTheorems, TLAPS

\* List rs is made of the entries of ls with the indices in kept, in their
\* order.
Reorders(ord, rs, ls, kept) ==
  /\ ord \in [1..Cardinality(kept) -> kept]
  /\ \A i, j \in 1..Cardinality(kept) : ord[i] = ord[j] => i = j
  /\ \A i, j \in 1..Cardinality(kept) : i < j => ord[i] < ord[j]
  /\ \A h \in kept : \E j \in 1..Cardinality(kept) : ord[j] = h
  /\ rs = [j \in 1..Cardinality(kept) |-> ls[ord[j]]]

LEMMA KeepIsReordering ==
  ASSUME NEW ls, NEW n \in Nat, NEW kept \in SUBSET (1..n)
  PROVE  /\ Cardinality(kept) \in Nat
         /\ \E ord : Reorders(ord, Keep(ls, kept), ls, kept)
<1> DEFINE upTo(h) == {x \in kept : x <= h}
           rank == [h \in kept |-> Cardinality(upTo(h))]
           N == Cardinality(kept)
           ord == [j \in 1..N |-> CHOOSE h \in kept : Cardinality(upTo(h)) = j]
<1>1. IsFiniteSet(kept) /\ N \in Nat
  <2>1. IsFiniteSet(1..n)
    BY FS_Interval
  <2>2. IsFiniteSet(kept)
    BY <2>1, FS_Subset
  <2>3. QED
    BY <2>2, FS_CardinalityType
<1>2. ASSUME NEW h \in kept
      PROVE  IsFiniteSet(upTo(h)) /\ Cardinality(upTo(h)) \in 1..N
  <2>1. upTo(h) \in SUBSET kept /\ h \in upTo(h)
    OBVIOUS
  <2>2. IsFiniteSet(upTo(h)) /\ Cardinality(upTo(h)) <= N
    BY <1>1, <2>1, FS_Subset
  <2>3. Cardinality(upTo(h)) \in Nat /\ Cardinality(upTo(h)) # 0
    BY <2>1, <2>2, FS_CardinalityType, FS_EmptySet
  <2>4. QED
    BY <1>1, <2>2, <2>3
<1>3. ASSUME NEW g \in kept, NEW h \in kept, g < h
      PROVE  Cardinality(upTo(g)) # Cardinality(upTo(h))
  <2>1. g \in Int /\ h \in Int /\ \A x \in kept : x \in Int
    OBVIOUS
  <2>2. \A x \in upTo(g) : x \in upTo(h)
    <3>1. ASSUME NEW x \in upTo(g) PROVE x \in kept /\ x <= h
      <4>1. x \in kept /\ x <= g /\ x \in Int
        BY <2>1
      <4>2. QED
        BY <1>3, <2>1, <4>1
    <3>2. QED
      BY <3>1
  <2>3. h \in upTo(h) /\ h \notin upTo(g)
    BY <1>3, <2>1
  <2>4. QED
    BY <1>2, <2>2, <2>3, FS_Subset
<1>4. rank \in Injection(kept, 1..N)
  <2>1. rank \in [kept -> 1..N]
    BY <1>2
  <2>2. \A g, h \in kept : rank[g] = rank[h] => g = h
    BY <1>3
  <2> HIDE DEF rank
  <2>3. QED
    BY <2>1, <2>2 DEF Injection, IsInjective
<1>5. ASSUME NEW j \in 1..N PROVE \E h \in kept : Cardinality(upTo(h)) = j
  <2>1. IsFiniteSet(1..N) /\ Cardinality(1..N) = N
    BY <1>1, FS_Interval
  <2>2. rank \in Surjection(kept, 1..N)
    BY <1>4, <2>1, FS_Injection
  <2>3. QED
    BY <2>2 DEF Surjection
<1>6. \A j \in 1..N : ord[j] \in kept /\ Cardinality(upTo(ord[j])) = j
  BY <1>5
<1>7. \A h \in kept : \E j \in 1..N : ord[j] = h
  <2>1. ASSUME NEW h \in kept PROVE ord[Cardinality(upTo(h))] = h
    <3>1. /\ Cardinality(upTo(h)) \in 1..N
          /\ ord[Cardinality(upTo(h))] \in kept
          /\ Cardinality(upTo(ord[Cardinality(upTo(h))])) = Cardinality(upTo(h))
      BY <1>2, <1>6
    <3>2. QED
      BY <1>3, <3>1
  <2>2. QED
    BY <1>2, <2>1
<1>8. Keep(ls, kept) = [j \in 1..N |-> ls[ord[j]]]
  BY DEF Keep
<1>9. ord \in [1..N -> kept] /\ \A i, j \in 1..N : ord[i] = ord[j] => i = j
  BY <1>6
<1>10. ASSUME NEW g \in kept, NEW h \in kept, h <= g
       PROVE  Cardinality(upTo(h)) <= Cardinality(upTo(g))
  <2>1. g \in Int /\ h \in Int /\ \A x \in kept : x \in Int
    OBVIOUS
  <2>2. \A x \in upTo(h) : x \in upTo(g)
    <3>1. ASSUME NEW x \in upTo(h) PROVE x \in kept /\ x <= g
      <4>1. x \in kept /\ x <= h /\ x \in Int
        BY <2>1
      <4>2. QED
        BY <1>10, <2>1, <4>1
    <3>2. QED
      BY <3>1
  <2>3. QED
    BY <1>2, <2>2, FS_Subset
<1>11. ASSUME NEW i \in 1..N, NEW j \in 1..N, i < j PROVE ord[i] < ord[j]
  <2>1. PICK g \in kept : g = ord[i] /\ Cardinality(upTo(g)) = i
    BY <1>6
  <2>2. PICK h \in kept : h = ord[j] /\ Cardinality(upTo(h)) = j
    BY <1>6
  <2>3. i \in Int /\ j \in Int /\ g \in Int /\ h \in Int
    BY <1>1
  <2>4. ~(h <= g)
    <3>1. h <= g => Cardinality(upTo(h)) <= Cardinality(upTo(g))
      BY <1>10
    <3> HIDE DEF upTo, ord, N
    <3>2. QED
      BY <1>11, <2>1, <2>2, <2>3, <3>1
  <2> HIDE DEF ord
  <2>5. QED
    BY <2>1, <2>2, <2>3, <2>4
<1> HIDE DEF ord, N
<1>12. QED
  BY <1>1, <1>7, <1>8, <1>9, <1>11 DEF N, Reorders

(***************************************************************************)
(* Lists of links.                                                         *)
(***************************************************************************)
\* An entry has the fields of a link, whatever its interface, path, process and
\* parameters are.
IsLink(l) ==
  /\ l = [iface |-> l.iface, path |-> l.path, containerPid |-> l.containerPid, attrs |-> l.attrs,
          should |-> l.should, id |-> l.id, status |-> l.status]
  /\ l.should \in BOOLEAN /\ l.id \in LinkIds \cup {None}
  /\ l.status \in {"NotAttached", "Attached", "AttachError", "DetachError"}

\* A link that bpfman has never heard of.
IsNew(l) == IsLink(l) /\ l.id = None

IsList(ls) == ls \in Seq({ls[j] : j \in DOMAIN ls}) /\ \A j \in DOMAIN ls : IsLink(ls[j])

LEMMA ListFacts ==
  ASSUME NEW ls, IsList(ls)
  PROVE  Len(ls) \in Nat /\ DOMAIN ls = 1..Len(ls) /\ ls = [j \in 1..Len(ls) |-> ls[j]]
BY LenProperties DEF IsList

LEMMA MakeList ==
  ASSUME NEW ls, NEW n \in Nat, ls = [j \in 1..n |-> ls[j]], \A j \in 1..n : IsLink(ls[j])
  PROVE  IsList(ls) /\ Len(ls) = n /\ DOMAIN ls = 1..n
<1> DEFINE S == {ls[j] : j \in DOMAIN ls}
<1>1. DOMAIN ls = 1..n
  OBVIOUS
<1>2. ls \in [1..n -> S]
  BY <1>1
<1>3. ls \in Seq(S)
  BY <1>2
<1>4. Len(ls) = n
  <2>1. Len(ls) \in Nat /\ 1..Len(ls) = 1..n
    BY <1>1, <1>3, LenProperties
  <2>2. QED
    BY <2>1
<1>5. QED
  BY <1>1, <1>3, <1>4 DEF IsList

LEMMA AppendList ==
  ASSUME NEW ls, IsList(ls), NEW l, IsLink(l)
  PROVE  /\ IsList(Append(ls, l)) /\ Len(Append(ls, l)) = Len(ls) + 1
         /\ DOMAIN Append(ls, l) = 1..(Len(ls) + 1)
         /\ \A j \in DOMAIN ls : Append(ls, l)[j] = ls[j]
         /\ Append(ls, l)[Len(ls) + 1] = l
<1> DEFINE S == {ls[j] : j \in DOMAIN ls} \cup {l}
           as == Append(ls, l)
<1>1. Len(ls) \in Nat /\ DOMAIN ls = 1..Len(ls) /\ ls \in Seq(S)
  BY ListFacts, SeqMonotonic DEF IsList
<1>2. /\ as \in Seq(S) /\ Len(as) = Len(ls) + 1
      /\ \A j \in 1..Len(ls) : as[j] = ls[j]
      /\ as[Len(ls) + 1] = l
  BY <1>1, AppendProperties
<1>3. DOMAIN as = 1..(Len(ls) + 1) /\ as = [j \in 1..(Len(ls) + 1) |-> as[j]]
  BY <1>1, <1>2, LenProperties
<1> HIDE DEF as
<1>4. \A j \in 1..(Len(ls) + 1) : IsLink(as[j])
  <2>1. \A j \in 1..(Len(ls) + 1) : j \in 1..Len(ls) \/ j = Len(ls) + 1
    BY <1>1
  <2>2. QED
    BY <1>1, <1>2, <2>1 DEF IsList
<1>5. IsList(as)
  <2>1. Len(ls) + 1 \in Nat
    BY <1>1
  <2>2. QED
    BY <1>3, <1>4, <2>1, MakeList
<1>6. QED
  BY <1>1, <1>2, <1>3, <1>5 DEF as

(***************************************************************************)
(* The recorded list and bpfman's links.                                   *)
(***************************************************************************)
\* The ids in list ls are those in D.
Matches(ls, D) ==
  /\ \A l \in D : \E j \in DOMAIN ls : ls[j].id = l
  /\ \A j \in DOMAIN ls : ls[j].id # None => ls[j].id \in D

\* No id is in two entries of list ls.
Distinct(ls) ==
  \A i, j \in DOMAIN ls : ls[i].id = ls[j].id /\ ls[i].id # None => i = j

\* Entries that processLinks has passed and removeLinks would drop have no link.
PassedOK ==
  Reliable => \A j \in DOMAIN links : j < pos /\ Unused(links[j]) => links[j].id = None

RecordInv ==
  /\ IsList(links) /\ \A l \in expected : IsNew(l)
  /\ DOMAIN attached \subseteq LinkIds
  /\ Reliable => Matches(links, DOMAIN attached)
  /\ Distinct(links)
  /\ pc = "process" => pos \in Nat \ {0} /\ PassedOK

LEMMA RecordGives ==
  ASSUME RecordInv
  PROVE  LinksRecorded
<1> SUFFICES ASSUME Reliable, NEW l \in LinkIds
             PROVE  Cardinality({j \in DOMAIN links : links[j].id = l}) = IF l \in DOMAIN attached THEN 1 ELSE 0
  BY DEF LinksRecorded
<1> DEFINE S == {j \in DOMAIN links : links[j].id = l}
<1>1. l # None
  BY BpfLinksAssumption
<1>2. CASE l \in DOMAIN attached
  <2>1. PICK j \in DOMAIN links : links[j].id = l
    BY <1>2 DEF RecordInv, Matches
  <2>2. S = {j}
    BY <1>1, <2>1 DEF RecordInv, Distinct
  <2>3. QED
    BY <1>2, <2>2, FS_Singleton
<1>3. CASE l \notin DOMAIN attached
  <2>1. S = {}
    BY <1>1, <1>3 DEF RecordInv, Matches
  <2>2. QED
    BY <1>3, <2>1, FS_EmptySet
<1>4. QED
  BY <1>2, <1>3

LEMMA SameIds ==
  ASSUME NEW ls, NEW ks, NEW D, DOMAIN ks = DOMAIN ls, \A j \in DOMAIN ls : ks[j].id = ls[j].id
  PROVE  (Matches(ls, D) => Matches(ks, D)) /\ (Distinct(ls) => Distinct(ks))
BY DEF Matches, Distinct

\* The entries have the same interface, path, process and parameters.
Static(a, b) ==
  a.iface = b.iface /\ a.path = b.path /\ a.containerPid = b.containerPid /\ a.attrs = b.attrs

\* List ks differs from ls in the marks only, which are those in b.
Marks(ks, ls, b) ==
  /\ IsList(ks) /\ DOMAIN ks = DOMAIN ls
  /\ \A j \in DOMAIN ls : /\ Static(ks[j], ls[j]) /\ ks[j].id = ls[j].id
                          /\ ks[j].status = ls[j].status /\ ks[j].should = b[j]

LEMMA MarkedLinks ==
  ASSUME NEW ls, IsList(ls), NEW b \in [DOMAIN ls -> BOOLEAN], NEW ks,
         ks = [j \in DOMAIN ls |-> [ls[j] EXCEPT !.should = b[j]]]
  PROVE  Marks(ks, ls, b)
<1>1. Len(ls) \in Nat /\ DOMAIN ls = 1..Len(ls)
  BY ListFacts
<1>2. ASSUME NEW j \in DOMAIN ls
      PROVE  /\ IsLink(ks[j]) /\ Static(ks[j], ls[j]) /\ ks[j].id = ls[j].id
             /\ ks[j].status = ls[j].status /\ ks[j].should = b[j]
  <2>1. IsLink(ls[j]) /\ b[j] \in BOOLEAN /\ ks[j] = [ls[j] EXCEPT !.should = b[j]]
    BY DEF IsList
  <2>2. QED
    BY <2>1 DEF IsLink, Static
<1>3. IsList(ks)
  BY <1>1, <1>2, MakeList
<1>4. QED
  BY <1>2, <1>3 DEF Marks

\* The first loop of updateLinks clears every mark.
LEMMA ClearedLinks ==
  ASSUME NEW ls, IsList(ls)
  PROVE  \E b \in [DOMAIN ls -> BOOLEAN] :
           Marks(ClearShouldAttach(ls), ls, b) /\ \A j \in DOMAIN ls : ~b[j]
<1> DEFINE b == [j \in DOMAIN ls |-> FALSE]
<1>1. b \in [DOMAIN ls -> BOOLEAN] /\ \A j \in DOMAIN ls : ~b[j]
  BY Zenon
<1>2. ClearShouldAttach(ls) = [j \in DOMAIN ls |-> [ls[j] EXCEPT !.should = b[j]]]
  BY DEF ClearShouldAttach
<1> HIDE DEF b
<1>3. QED
  BY <1>1, <1>2, MarkedLinks

\* findLink marks the first of the entries it accepts.
LEMMA FoundMarked ==
  ASSUME IsList(links), NEW l, NEW found, found # {}
  PROVE  \E b \in [DOMAIN links -> BOOLEAN] :
           /\ Marks(AddExpected(l, found), links, b)
           /\ \A j \in DOMAIN links :
                b[j] <=> links[j].should \/ (j \in found /\ \A f \in found : j <= f)
<1> DEFINE b == [j \in DOMAIN links |-> links[j].should \/ (j \in found /\ \A f \in found : j <= f)]
<1>1. AddExpected(l, found) = [j \in DOMAIN links |-> [links[j] EXCEPT !.should = b[j]]]
  <2>1. \A j \in DOMAIN links : [links[j] EXCEPT !.should = b[j]]
                              = [links[j] EXCEPT !.should = @ \/ (j \in found /\ \A f \in found : j <= f)]
    OBVIOUS
  <2> HIDE DEF b
  <2>2. QED
    BY <2>1 DEF AddExpected
<1>2. /\ b \in [DOMAIN links -> BOOLEAN]
      /\ \A j \in DOMAIN links : b[j] <=> links[j].should \/ (j \in found /\ \A f \in found : j <= f)
  BY Zenon
<1> HIDE DEF b
<1>3. QED
  BY <1>1, <1>2, MarkedLinks

LEMMA MarksMatch ==
  ASSUME NEW ks, NEW ls, NEW b, Marks(ks, ls, b), NEW D
  PROVE  (Matches(ls, D) => Matches(ks, D)) /\ (Distinct(ls) => Distinct(ks))
BY SameIds DEF Marks

LEMMA ExpectedAdded ==
  ASSUME NEW l, IsNew(l), NEW found, IsList(links), NEW D
  PROVE  /\ IsList(AddExpected(l, found))
         /\ Matches(links, D) => Matches(AddExpected(l, found), D)
         /\ Distinct(links) => Distinct(AddExpected(l, found))
<1>1. CASE found = {}
  <2> DEFINE as == Append(links, l)
  <2>1. AddExpected(l, found) = as
    BY <1>1 DEF AddExpected
  <2>2. /\ IsList(as) /\ DOMAIN as = 1..(Len(links) + 1) /\ as[Len(links) + 1] = l
        /\ \A j \in DOMAIN links : as[j] = links[j]
    BY AppendList DEF IsNew
  <2>3. Len(links) \in Nat /\ DOMAIN links = 1..Len(links)
    BY ListFacts
  <2> HIDE DEF as
  <2>4. /\ \A j \in DOMAIN links : j \in DOMAIN as /\ as[j].id = links[j].id
        /\ \A j \in DOMAIN as : as[j].id # None => j \in DOMAIN links
    <3>1. \A j \in 1..(Len(links) + 1) : j \in 1..Len(links) \/ j = Len(links) + 1
      BY <2>3
    <3>2. 1..Len(links) \subseteq 1..(Len(links) + 1)
      BY <2>3
    <3>3. QED
      BY <2>2, <2>3, <3>1, <3>2 DEF IsNew
  <2>5. (Matches(links, D) => Matches(as, D)) /\ (Distinct(links) => Distinct(as))
    BY <2>4 DEF Matches, Distinct
  <2>6. QED
    BY <2>1, <2>2, <2>5
<1>2. CASE found # {}
  <2>1. PICK b \in [DOMAIN links -> BOOLEAN] : Marks(AddExpected(l, found), links, b)
    BY <1>2, FoundMarked
  <2>2. QED
    BY <2>1, MarksMatch DEF Marks
<1>3. QED
  BY <1>1, <1>2

\* The ids stay as long as removeLinks drops entries without a link only.
LEMMA RemovedLinks ==
  ASSUME NEW ls, IsList(ls), NEW D, None \notin D, Distinct(ls)
  PROVE  /\ IsList(removeLinks(ls)) /\ Distinct(removeLinks(ls))
         /\ Matches(ls, D) /\ (\A j \in DOMAIN ls : Unused(ls[j]) => ls[j].id = None)
              => Matches(removeLinks(ls), D)
<1> DEFINE kept == {j \in DOMAIN ls : ~Unused(ls[j])}
           rs == removeLinks(ls)
<1>1. Len(ls) \in Nat /\ DOMAIN ls = 1..Len(ls)
  BY ListFacts
<1>2. kept \in SUBSET (1..Len(ls))
  BY <1>1
<1>3. rs = Keep(ls, kept)
  BY DEF removeLinks
<1> DEFINE idle == \A j \in DOMAIN ls : Unused(ls[j]) => ls[j].id = None
<1>4. idle => \A j \in DOMAIN ls : ls[j].id # None => j \in kept
  OBVIOUS
<1> HIDE DEF kept, rs
<1>5. PICK ord : Reorders(ord, Keep(ls, kept), ls, kept)
  BY <1>1, <1>2, KeepIsReordering
<1>6. Cardinality(kept) \in Nat
  BY <1>1, <1>2, KeepIsReordering
<1>7. /\ rs = [j \in 1..Cardinality(kept) |-> rs[j]] /\ DOMAIN rs = 1..Cardinality(kept)
      /\ \A j \in 1..Cardinality(kept) : ord[j] \in DOMAIN ls /\ rs[j] = ls[ord[j]]
  BY <1>1, <1>2, <1>3, <1>5 DEF Reorders
<1>8. IsList(rs)
  <2>1. \A j \in 1..Cardinality(kept) : IsLink(rs[j])
    BY <1>7 DEF IsList
  <2>2. QED
    BY <1>6, <1>7, <2>1, MakeList
<1>9. ASSUME Matches(ls, D), idle PROVE Matches(rs, D)
  <2>1. ASSUME NEW l \in D PROVE \E j \in DOMAIN rs : rs[j].id = l
    <3>1. PICK h \in DOMAIN ls : ls[h].id = l
      BY <1>9 DEF Matches
    <3>2. h \in kept
      BY <1>4, <1>9, <3>1
    <3>3. QED
      BY <1>5, <1>7, <3>1, <3>2 DEF Reorders
  <2>2. \A j \in DOMAIN rs : rs[j].id # None => rs[j].id \in D
    BY <1>7, <1>9 DEF Matches
  <2>3. QED
    BY <2>1, <2>2 DEF Matches
<1>10. Distinct(rs)
  BY <1>5, <1>7 DEF Distinct, Reorders
<1>11. QED
  BY <1>8, <1>9, <1>10 DEF rs

(***************************************************************************)
(* Paths.  A path that once led to a namespace leads to that one or to     *)
(* none: process ids are not reused, and a container stays in its pod.     *)
(***************************************************************************)
\* A path the agent may have recorded while m was the next process id.
ProperPath(m, x) ==
  \/ x = HostPath
  \/ \E n \in {key.netns : key \in IfaceKeys} : n # Host /\ x = <<"ns", n>>
  \/ \E n \in 0..(m - 1) : x = <<"pid", n>>

\* Where path x leads or led, when tgt tells the network of every process.
Target(tgt, x) == IF x[1] = "pid" THEN tgt[x[2]] ELSE x[2]

\* The path is no path of a process that has exited.
Rev(x) == x[1] = "pid" => Running(x[2])

Nets == Pods \cup {Host}

NodeOK ==
  /\ nextPid \in Nat \ {0} /\ sandbox \subseteq Pods /\ ifmap \subseteq IfaceKeys
  /\ \A c \in ctrs : /\ c = [pid |-> c.pid, pod |-> c.pod, name |-> c.name, up |-> c.up]
                     /\ c.pid \in 1..(nextPid - 1) /\ c.pod \in sandbox
  /\ \A c, d \in ctrs : c.pid = d.pid => c = d

\* tgt tells the network of every process there is.
Tells(tgt) == \A c \in ctrs : tgt[c.pid] = PodNet(c.pod)

LEMMA PodNets ==
  ASSUME NEW p \in Pods
  PROVE  PodNet(p) \in Nets /\ (PodNet(p) # Host => PodNet(p) = p)
BY DEF PodNet, Nets

LEMMA NoneIsNoNet == None \notin Nets
BY BpfLinksAssumption DEF Nets

\* What os.Stat says of each kind of path.
LEMMA StatOf ==
  /\ Stat(HostPath) = Host
  /\ \A n : Stat(<<"ns", n>>) = IF n \in sandbox THEN n ELSE None
  /\ \A n : Stat(<<"pid", n>>) = IF Running(n) THEN PodNet((CHOOSE c \in ctrs : c.pid = n).pod) ELSE None
<1>1. Stat(HostPath) = Host
  BY DEF Stat, HostPath
<1>2. ASSUME NEW n PROVE Stat(<<"ns", n>>) = IF n \in sandbox THEN n ELSE None
  BY DEF Stat
<1>3. ASSUME NEW n
      PROVE  Stat(<<"pid", n>>) = IF Running(n) THEN PodNet((CHOOSE c \in ctrs : c.pid = n).pod) ELSE None
  BY DEF Stat
<1>4. QED
  BY <1>1, <1>2, <1>3

LEMMA PathFacts ==
  ASSUME NEW tgt
  PROVE  /\ Target(tgt, HostPath) = Host /\ Rev(HostPath)
         /\ \A n : Target(tgt, <<"ns", n>>) = n /\ Rev(<<"ns", n>>)
         /\ \A n : Target(tgt, <<"pid", n>>) = tgt[n] /\ (Rev(<<"pid", n>>) <=> Running(n))
BY DEF Target, Rev, HostPath

LEMMA RunningNet ==
  ASSUME NodeOK, NEW tgt, Tells(tgt), NEW n, Running(n)
  PROVE  /\ Stat(<<"pid", n>>) = tgt[n] /\ tgt[n] \in Nets
         /\ tgt[n] # Host => tgt[n] \in sandbox
<1>1. PICK c \in ctrs : c.pid = n
  BY DEF Running
<1> DEFINE d == CHOOSE e \in ctrs : e.pid = n
<1>2. d \in ctrs /\ d.pid = n
  BY <1>1
<1>3. d.pod \in sandbox /\ d.pod \in Pods /\ tgt[n] = PodNet(d.pod)
  BY <1>2 DEF NodeOK, Tells
<1>4. Stat(<<"pid", n>>) = PodNet(d.pod)
  BY StatOf
<1> HIDE DEF d
<1>5. QED
  BY <1>3, <1>4, PodNets

\* A path that can be read leads where it always led.
LEMMA StatIsTarget ==
  ASSUME NodeOK, NEW tgt, Tells(tgt), NEW x, ProperPath(nextPid, x), Stat(x) # None
  PROVE  Stat(x) = Target(tgt, x) /\ Rev(x)
<1>1. CASE x = HostPath
  BY <1>1, StatOf, PathFacts
<1>2. ASSUME NEW n, x = <<"ns", n>> PROVE Stat(x) = Target(tgt, x) /\ Rev(x)
  BY <1>2, StatOf, PathFacts
<1>3. ASSUME NEW n, x = <<"pid", n>> PROVE Stat(x) = Target(tgt, x) /\ Rev(x)
  <2>1. Running(n)
    BY <1>3, StatOf
  <2>2. QED
    BY <1>3, <2>1, RunningNet, PathFacts
<1>4. QED
  BY <1>1, <1>2, <1>3 DEF ProperPath

\* Of two paths to one namespace, the one that cannot be read is a path of an
\* exited process, unless the other one is.
LEMMA UnreadIsDead ==
  ASSUME NodeOK, NEW tgt, Tells(tgt), NEW x, ProperPath(nextPid, x), NEW y, ProperPath(nextPid, y),
         x # y, Stat(x) = None, Rev(y), Target(tgt, x) = Target(tgt, y)
  PROVE  ~Rev(x)
<1>1. x # HostPath
  BY StatOf, BpfLinksAssumption
<1>2. ASSUME NEW n, n # Host, x = <<"ns", n>> PROVE FALSE
  <2>1. n \notin sandbox /\ Target(tgt, y) = n
    <3>1. Target(tgt, x) = n
      BY <1>2, PathFacts
    <3>2. (IF n \in sandbox THEN n ELSE None) = None
      BY <1>2, StatOf
    <3>3. n \in sandbox => n # None
      BY BpfLinksAssumption DEF NodeOK
    <3>4. QED
      BY <3>1, <3>2, <3>3
  <2>2. y # HostPath
    BY <1>2, <2>1, PathFacts
  <2>3. ASSUME NEW k, y = <<"ns", k>> PROVE FALSE
    BY <1>2, <2>1, <2>3, PathFacts
  <2>4. ASSUME NEW k, y = <<"pid", k>> PROVE FALSE
    <3>1. Running(k) /\ tgt[k] = n
      BY <2>1, <2>4, PathFacts
    <3>2. QED
      BY <1>2, <2>1, <3>1, RunningNet
  <2>5. QED
    BY <2>2, <2>3, <2>4 DEF ProperPath
<1>3. ASSUME NEW n, x = <<"pid", n>> PROVE ~Rev(x)
  <2>1. SUFFICES ASSUME Running(n) PROVE FALSE
    BY <1>3, PathFacts
  <2>2. Stat(x) \in Nets
    BY <1>3, <2>1, RunningNet
  <2>3. QED
    BY <2>2, NoneIsNoNet
<1>4. QED
  BY <1>1, <1>2, <1>3 DEF ProperPath

(***************************************************************************)
(* Entries.                                                                *)
(***************************************************************************)
UprobeTypes == {"uprobe", "uretprobe"}

\* What a link of type t keeps of an attachInfo.
AttrsOf(t, a) ==
  CASE t = "xdp" -> xdpAttrs(a)
    [] t = "tc"  -> tcAttrs(a)
    [] t = "tcx" -> tcxAttrs(a)
    [] t \in UprobeTypes  -> uprobeAttrs(a)
    [] t = "kprobe"       -> kprobeAttrs(a)
    [] t = "kretprobe"    -> kretprobeAttrs(a)
    [] t = "tracepoint"   -> tracepointAttrs(a)
    [] t \in {"fentry", "fexit"} -> <<>>

\* The link comes from attachInfo ai of a stored program of type t.
FromInfo(t, l, ai) ==
  /\ \E s \in StoredSpecs : s.type = t /\ \E j \in DOMAIN s.links : ai = s.links[j]
  /\ l.attrs = AttrsOf(t, ai.attrs)

\* An entry the agent may have written for a program of type t while m was the
\* next process id.
EntryOK(t, m, l) ==
  /\ IsLink(l) /\ ProperPath(m, l.path) /\ \E ai : FromInfo(t, l, ai)
  /\ l.containerPid = None \/ l.containerPid \in Nat
  /\ t \notin NetTypes => l.iface = None
  /\ t \notin UprobeTypes => l.containerPid = None

\* findLink with cache c takes entry a for link b.
Agree(t, a, b, c) ==
  /\ a.iface = b.iface /\ a.attrs = b.attrs /\ a.containerPid = b.containerPid
  /\ t \in NetTypes => GetNetNsId(c, a.path) = GetNetNsId(c, b.path)

LEMMA xdpKeyAgrees ==
  ASSUME NEW t, t = "xdp", NEW m, NEW a, EntryOK(t, m, a), NEW b, EntryOK(t, m, b), NEW c
  PROVE  xdpKey(a, c) = xdpKey(b, c) <=> Agree(t, a, b, c)
<1>1. PICK x, y : a.attrs = AttrsOf(t, x) /\ b.attrs = AttrsOf(t, y)
  BY DEF EntryOK, FromInfo
<1>2. a.attrs = xdpAttrs(x) /\ b.attrs = xdpAttrs(y)
  BY <1>1 DEF AttrsOf, UprobeTypes
<1>3. a.attrs = b.attrs <=> a.attrs.priority = b.attrs.priority /\ a.attrs.proceedOn = b.attrs.proceedOn
  BY <1>2 DEF xdpAttrs
<1>4. t \in NetTypes /\ a.containerPid = b.containerPid
  BY DEF EntryOK, NetTypes, UprobeTypes
<1>5. QED
  BY <1>3, <1>4 DEF xdpKey, Agree

LEMMA tcKeyAgrees ==
  ASSUME NEW t, t = "tc", NEW m, NEW a, EntryOK(t, m, a), NEW b, EntryOK(t, m, b), NEW c
  PROVE  tcKey(a, c) = tcKey(b, c) <=> Agree(t, a, b, c)
<1>1. PICK x, y : a.attrs = AttrsOf(t, x) /\ b.attrs = AttrsOf(t, y)
  BY DEF EntryOK, FromInfo
<1>2. a.attrs = tcAttrs(x) /\ b.attrs = tcAttrs(y)
  BY <1>1 DEF AttrsOf, UprobeTypes
<1>3. a.attrs = b.attrs
        <=> a.attrs.priority = b.attrs.priority /\ a.attrs.proceedOn = b.attrs.proceedOn
          /\ a.attrs.direction = b.attrs.direction
  BY <1>2 DEF tcAttrs
<1>4. t \in NetTypes /\ a.containerPid = b.containerPid
  BY DEF EntryOK, NetTypes, UprobeTypes
<1>5. QED
  BY <1>3, <1>4 DEF tcKey, Agree

LEMMA tcxKeyAgrees ==
  ASSUME NEW t, t = "tcx", NEW m, NEW a, EntryOK(t, m, a), NEW b, EntryOK(t, m, b), NEW c
  PROVE  tcxKey(a, c) = tcxKey(b, c) <=> Agree(t, a, b, c)
<1>1. PICK x, y : a.attrs = AttrsOf(t, x) /\ b.attrs = AttrsOf(t, y)
  BY DEF EntryOK, FromInfo
<1>2. a.attrs = tcxAttrs(x) /\ b.attrs = tcxAttrs(y)
  BY <1>1 DEF AttrsOf, UprobeTypes
<1>3. a.attrs = b.attrs <=> a.attrs.priority = b.attrs.priority /\ a.attrs.direction = b.attrs.direction
  BY <1>2 DEF tcxAttrs
<1>4. t \in NetTypes /\ a.containerPid = b.containerPid
  BY DEF EntryOK, NetTypes, UprobeTypes
<1>5. QED
  BY <1>3, <1>4 DEF tcxKey, Agree

LEMMA uprobeKeyAgrees ==
  ASSUME NEW t, t \in UprobeTypes, NEW m, NEW a, EntryOK(t, m, a), NEW b, EntryOK(t, m, b), NEW c
  PROVE  uprobeKey(a, c) = uprobeKey(b, c) <=> Agree(t, a, b, c)
<1>1. PICK x, y : a.attrs = AttrsOf(t, x) /\ b.attrs = AttrsOf(t, y)
  BY DEF EntryOK, FromInfo
<1>2. a.attrs = uprobeAttrs(x) /\ b.attrs = uprobeAttrs(y)
  BY <1>1 DEF AttrsOf, UprobeTypes
<1>3. a.attrs = b.attrs
        <=> a.attrs.function = b.attrs.function /\ a.attrs.offset = b.attrs.offset
          /\ a.attrs.target = b.attrs.target /\ a.attrs.pid = b.attrs.pid
  BY <1>2 DEF uprobeAttrs
<1>4. t \notin NetTypes /\ a.iface = b.iface
  BY DEF EntryOK, NetTypes, UprobeTypes
<1>5. QED
  BY <1>3, <1>4 DEF uprobeKey, Agree

LEMMA kprobeKeyAgrees ==
  ASSUME NEW t, t = "kprobe", NEW m, NEW a, EntryOK(t, m, a), NEW b, EntryOK(t, m, b), NEW c
  PROVE  kprobeKey(a, c) = kprobeKey(b, c) <=> Agree(t, a, b, c)
<1>1. PICK x, y : a.attrs = AttrsOf(t, x) /\ b.attrs = AttrsOf(t, y)
  BY DEF EntryOK, FromInfo
<1>2. a.attrs = kprobeAttrs(x) /\ b.attrs = kprobeAttrs(y)
  BY <1>1 DEF AttrsOf, UprobeTypes
<1>3. a.attrs = b.attrs <=> a.attrs.function = b.attrs.function /\ a.attrs.offset = b.attrs.offset
  BY <1>2 DEF kprobeAttrs
<1>4. t \notin NetTypes /\ a.iface = b.iface /\ a.containerPid = b.containerPid
  BY DEF EntryOK, NetTypes, UprobeTypes
<1>5. QED
  BY <1>3, <1>4 DEF kprobeKey, Agree

LEMMA kretprobeKeyAgrees ==
  ASSUME NEW t, t = "kretprobe", NEW m, NEW a, EntryOK(t, m, a), NEW b, EntryOK(t, m, b), NEW c
  PROVE  kretprobeKey(a, c) = kretprobeKey(b, c) <=> Agree(t, a, b, c)
<1>1. PICK x, y : a.attrs = AttrsOf(t, x) /\ b.attrs = AttrsOf(t, y)
  BY DEF EntryOK, FromInfo
<1>2. a.attrs = kretprobeAttrs(x) /\ b.attrs = kretprobeAttrs(y)
  BY <1>1 DEF AttrsOf, UprobeTypes
<1>3. a.attrs = b.attrs <=> a.attrs.function = b.attrs.function
  BY <1>2 DEF kretprobeAttrs
<1>4. t \notin NetTypes /\ a.iface = b.iface /\ a.containerPid = b.containerPid
  BY DEF EntryOK, NetTypes, UprobeTypes
<1>5. QED
  BY <1>3, <1>4 DEF kretprobeKey, Agree

LEMMA tracepointKeyAgrees ==
  ASSUME NEW t, t = "tracepoint", NEW m, NEW a, EntryOK(t, m, a), NEW b, EntryOK(t, m, b), NEW c
  PROVE  tracepointKey(a, c) = tracepointKey(b, c) <=> Agree(t, a, b, c)
<1>1. PICK x, y : a.attrs = AttrsOf(t, x) /\ b.attrs = AttrsOf(t, y)
  BY DEF EntryOK, FromInfo
<1>2. a.attrs = tracepointAttrs(x) /\ b.attrs = tracepointAttrs(y)
  BY <1>1 DEF AttrsOf, UprobeTypes
<1>3. a.attrs = b.attrs <=> a.attrs.name = b.attrs.name
  BY <1>2 DEF tracepointAttrs
<1>4. t \notin NetTypes /\ a.iface = b.iface /\ a.containerPid = b.containerPid
  BY DEF EntryOK, NetTypes, UprobeTypes
<1>5. QED
  BY <1>3, <1>4 DEF tracepointKey, Agree

LEMMA fentryKeyAgrees ==
  ASSUME NEW t, t = "fentry", NEW m, NEW a, EntryOK(t, m, a), NEW b, EntryOK(t, m, b), NEW c
  PROVE  fentryKey(a, c) = fentryKey(b, c) <=> Agree(t, a, b, c)
<1>1. PICK x, y : a.attrs = AttrsOf(t, x) /\ b.attrs = AttrsOf(t, y)
  BY DEF EntryOK, FromInfo
<1>2. a.attrs = <<>> /\ b.attrs = <<>>
  BY <1>1 DEF AttrsOf, UprobeTypes
<1>3. a.attrs = b.attrs
  BY <1>2
<1>4. t \notin NetTypes /\ a.iface = b.iface /\ a.containerPid = b.containerPid
  BY DEF EntryOK, NetTypes, UprobeTypes
<1>5. QED
  BY <1>3, <1>4 DEF fentryKey, Agree

LEMMA fexitKeyAgrees ==
  ASSUME NEW t, t = "fexit", NEW m, NEW a, EntryOK(t, m, a), NEW b, EntryOK(t, m, b), NEW c
  PROVE  fexitKey(a, c) = fexitKey(b, c) <=> Agree(t, a, b, c)
<1>1. PICK x, y : a.attrs = AttrsOf(t, x) /\ b.attrs = AttrsOf(t, y)
  BY DEF EntryOK, FromInfo
<1>2. a.attrs = <<>> /\ b.attrs = <<>>
  BY <1>1 DEF AttrsOf, UprobeTypes
<1>3. a.attrs = b.attrs
  BY <1>2
<1>4. t \notin NetTypes /\ a.iface = b.iface /\ a.containerPid = b.containerPid
  BY DEF EntryOK, NetTypes, UprobeTypes
<1>5. QED
  BY <1>3, <1>4 DEF fexitKey, Agree

(***************************************************************************)
(* Expected links.                                                         *)
(***************************************************************************)
LEMMA NewLinkFacts ==
  ASSUME NEW attrs, NEW x, NEW path, NEW pid
  PROVE  /\ IsNew(NewLink(attrs)) /\ NewLink(attrs).attrs = attrs /\ NewLink(attrs).path = HostPath
         /\ NewLink(attrs).iface = None /\ NewLink(attrs).containerPid = None
<1> DEFINE yes == TRUE
<1>1. yes \in BOOLEAN
  OBVIOUS
<1>2. NewLink(attrs) = [iface |-> None, path |-> HostPath, containerPid |-> None, attrs |-> attrs,
                        should |-> yes, id |-> None, status |-> "NotAttached"]
  BY DEF NewLink
<1> HIDE DEF yes
<1>3. QED
  BY <1>1, <1>2 DEF IsNew, IsLink

LEMMA EntryFacts ==
  ASSUME NEW attrs, NEW x, NEW path, NEW l, l = createLinkEntry(attrs, x, path)
  PROVE  IsNew(l) /\ l.attrs = attrs /\ l.iface = x /\ l.path = path /\ l.containerPid = None
<1> DEFINE n == NewLink(attrs)
           k == [n EXCEPT !.iface = x]
           m == [k EXCEPT !.path = path]
<1>1. IsNew(n) /\ n.attrs = attrs /\ n.containerPid = None
  BY NewLinkFacts
<1>2. l = m
  BY DEF createLinkEntry
<1> HIDE DEF n
<1>3. IsNew(k) /\ k.attrs = attrs /\ k.containerPid = None /\ k.iface = x
  BY <1>1 DEF IsNew, IsLink
<1> HIDE DEF k
<1>4. IsNew(m) /\ m.attrs = attrs /\ m.containerPid = None /\ m.iface = x /\ m.path = path
  BY <1>3 DEF IsNew, IsLink
<1>5. QED
  BY <1>2, <1>4

\* A new link for an interface, for a container and for neither.
NetLink(attrs, l)  == IsNew(l) /\ l.attrs = attrs /\ ProperPath(nextPid, l.path) /\ l.containerPid = None
ProcLink(attrs, l) == IsNew(l) /\ l.attrs = attrs /\ l.path = HostPath /\ l.iface = None
                      /\ (l.containerPid = None \/ l.containerPid \in Nat)
HostLink(attrs, l) == ProcLink(attrs, l) /\ l.containerPid = None

\* GetContainers returns containers of the runtime, and a process id is one of
\* theirs or 0.
LEMMA ContainersListed ==
  ASSUME NEW sel, NEW cs \in GetContainers(sel)
  PROVE  cs \subseteq ctrs
BY DEF GetContainers, filterContainersByNames

LEMMA PidsGiven ==
  ASSUME NodeOK, NEW c \in ctrs
  PROVE  extractPIDFromInspectInfo(c) \in 0..(nextPid - 1)
BY DEF extractPIDFromInspectInfo, NodeOK

LEMMA PodLinks ==
  ASSUME NodeOK, NEW attrs, NEW ifs, NEW sel, NEW E \in LinksInPods(attrs, ifs, sel), NEW l \in E
  PROVE  NetLink(attrs, l)
<1>1. PICK d \in UNION {GetOneContainerPerPod(cs) : cs \in GetContainers(sel)} :
        E = {createLinkEntry(attrs, x, netnsPathFromPID(extractPIDFromInspectInfo(c))) :
               x \in getInterfaces(ifs), c \in d}
  BY DEF LinksInPods
<1>2. d \subseteq ctrs
  BY <1>1, ContainersListed DEF GetOneContainerPerPod
<1>3. PICK x \in getInterfaces(ifs), c \in d :
        l = createLinkEntry(attrs, x, netnsPathFromPID(extractPIDFromInspectInfo(c)))
  BY <1>1
<1>4. ProperPath(nextPid, netnsPathFromPID(extractPIDFromInspectInfo(c)))
  BY <1>2, <1>3, PidsGiven DEF ProperPath, netnsPathFromPID
<1>5. QED
  BY <1>3, <1>4, EntryFacts DEF NetLink

LEMMA ContainerLinks ==
  ASSUME NodeOK, NEW attrs, NEW sel, NEW E \in LinksInContainers(attrs, sel), NEW l \in E
  PROVE  ProcLink(attrs, l)
<1>1. PICK cs \in GetContainers(sel) :
        E = {[NewLink(attrs) EXCEPT !.containerPid = extractPIDFromInspectInfo(c)] : c \in cs}
  BY DEF LinksInContainers
<1>2. PICK c \in cs : l = [NewLink(attrs) EXCEPT !.containerPid = extractPIDFromInspectInfo(c)]
  BY <1>1
<1>3. extractPIDFromInspectInfo(c) \in 0..(nextPid - 1) /\ nextPid \in Nat
  BY <1>1, <1>2, ContainersListed, PidsGiven DEF NodeOK
<1> DEFINE pid == extractPIDFromInspectInfo(c)
           n == NewLink(attrs)
<1>4. pid \in Nat /\ l = [n EXCEPT !.containerPid = pid]
  BY <1>2, <1>3
<1>5. IsNew(n) /\ n.attrs = attrs /\ n.path = HostPath /\ n.iface = None
  BY NewLinkFacts
<1> HIDE DEF pid, n
<1>6. IsNew(l) /\ l.attrs = attrs /\ l.iface = None /\ l.path = HostPath /\ l.containerPid = pid
  BY <1>4, <1>5 DEF IsNew, IsLink
<1>7. QED
  BY <1>4, <1>6 DEF ProcLink

LEMMA KernelLinks ==
  ASSUME NEW attrs, NEW E \in KernelLink(attrs), NEW l \in E
  PROVE  HostLink(attrs, l)
<1>1. l = NewLink(attrs)
  BY DEF KernelLink
<1>2. QED
  BY <1>1, NewLinkFacts DEF HostLink, ProcLink

LEMMA NetworkLinks ==
  ASSUME NodeOK, NEW attrs, NEW ai, NEW E \in clNetLinks(attrs, ai) \cup nsNetLinks(attrs, ai), NEW l \in E
  PROVE  NetLink(attrs, l)
<1>1. ASSUME NEW key \in ifmap PROVE ProperPath(nextPid, NamedPath(key.netns))
  BY DEF ProperPath, NamedPath, NodeOK
<1>2. ProperPath(nextPid, HostPath)
  BY DEF ProperPath
<1>3. ASSUME NEW sel, E \in LinksInPods(attrs, ai.ifs, sel) PROVE NetLink(attrs, l)
  BY <1>3, PodLinks
<1>4. ASSUME E = {createLinkEntry(attrs, x[1], x[2]) : x \in getDiscoveredInterfaces(ai.ifs.discovery)}
      PROVE  NetLink(attrs, l)
  <2>1. PICK x \in getDiscoveredInterfaces(ai.ifs.discovery) : l = createLinkEntry(attrs, x[1], x[2])
    BY <1>4
  <2>2. PICK key \in ifmap : x = <<key.name, NamedPath(key.netns)>>
    BY <2>1 DEF getDiscoveredInterfaces
  <2>3. ProperPath(nextPid, x[2])
    BY <1>1, <2>2
  <2>4. QED
    BY <2>1, <2>3, EntryFacts DEF NetLink
<1>5. ASSUME E = {createLinkEntry(attrs, x, HostPath) : x \in getInterfaces(ai.ifs)}
      PROVE  NetLink(attrs, l)
  <2>1. PICK x : l = createLinkEntry(attrs, x, HostPath)
    BY <1>5
  <2>2. QED
    BY <1>2, <2>1, EntryFacts DEF NetLink
<1>6. CASE E \in clNetLinks(attrs, ai)
  BY <1>3, <1>4, <1>5, <1>6 DEF clNetLinks
<1>7. CASE E \in nsNetLinks(attrs, ai)
  BY <1>3, <1>7 DEF nsNetLinks
<1>8. QED
  BY <1>6, <1>7

\* The links updateLinks expects for an attachInfo of a program of type t.
ExpectedOK(t, E) == \A l \in E : EntryOK(t, nextPid, l) /\ l.id = None

LEMMA LinksAreEntries ==
  ASSUME NEW t, NEW ai, NEW a, a = AttrsOf(t, ai.attrs), NEW l,
         \E s \in StoredSpecs : s.type = t /\ \E j \in DOMAIN s.links : ai = s.links[j],
         \/ t \in NetTypes /\ NetLink(a, l)
         \/ t \in UprobeTypes /\ ProcLink(a, l)
         \/ t \notin NetTypes \cup UprobeTypes /\ HostLink(a, l)
  PROVE  EntryOK(t, nextPid, l) /\ l.id = None
<1>1. FromInfo(t, l, ai)
  BY DEF FromInfo, NetLink, ProcLink, HostLink
<1>2. NetTypes \cap UprobeTypes = {}
  BY DEF NetTypes, UprobeTypes
<1>3. IsLink(l) /\ ProperPath(nextPid, l.path) /\ l.id = None
  BY DEF NetLink, ProcLink, HostLink, IsNew, ProperPath
<1>4. /\ l.containerPid = None \/ l.containerPid \in Nat
      /\ t \notin NetTypes => l.iface = None
      /\ t \notin UprobeTypes => l.containerPid = None
  BY <1>2 DEF NetLink, ProcLink, HostLink
<1>5. QED
  BY <1>1, <1>3, <1>4 DEF EntryOK

\* getExpectedLinks of every program type: what attachInfo ai of program s may
\* expand into.
Expansions(s, ai) ==
  LET a == AttrsOf(s.type, ai.attrs)
      cluster == s.scope = "cluster"
  IN  IF s.type \in NetTypes THEN IF cluster THEN clNetLinks(a, ai) ELSE nsNetLinks(a, ai)
      ELSE IF s.type \in UprobeTypes /\ (~cluster \/ ai.sel # None)
      THEN LinksInContainers(a, IF cluster THEN ai.sel ELSE [ai.sel EXCEPT !.ns = OwnNs])
      ELSE KernelLink(a)

LEMMA ExpansionsAreEntries ==
  ASSUME NodeOK, NEW s \in StoredSpecs, NEW j \in DOMAIN s.links, NEW E \in Expansions(s, s.links[j])
  PROVE  ExpectedOK(s.type, E)
<1> DEFINE ai == s.links[j]
           a == AttrsOf(s.type, ai.attrs)
<1>1. ASSUME NEW l \in E
      PROVE  \/ s.type \in NetTypes /\ NetLink(a, l)
             \/ s.type \in UprobeTypes /\ ProcLink(a, l)
             \/ s.type \notin NetTypes \cup UprobeTypes /\ HostLink(a, l)
  <2>1. CASE s.type \in NetTypes
    BY <2>1, NetworkLinks DEF Expansions
  <2>2. CASE s.type \in UprobeTypes /\ s.type \notin NetTypes
    <3>1. (\E sel : E \in LinksInContainers(a, sel)) \/ E \in KernelLink(a)
      BY <2>2 DEF Expansions
    <3>2. ProcLink(a, l)
      BY <3>1, ContainerLinks, KernelLinks DEF HostLink
    <3>3. QED
      BY <2>2, <3>2
  <2>3. CASE s.type \notin NetTypes \cup UprobeTypes
    BY <2>3, KernelLinks DEF Expansions
  <2>4. QED
    BY <2>1, <2>2, <2>3
<1>2. QED
  BY <1>1, LinksAreEntries DEF ExpectedOK

(***************************************************************************)
(* Programs.                                                               *)
(***************************************************************************)
LEMMA StoredFacts ==
  ASSUME NEW s \in StoredSpecs
  PROVE  /\ \E r \in Specs : Admitted(r) /\ s = WithDefaults(r) /\ s.type = r.type /\ s.scope = r.scope
                             /\ s.function = r.function /\ DOMAIN s.links = DOMAIN r.links
         /\ Len(s.links) \in Nat /\ DOMAIN s.links = 1..Len(s.links)
<1>1. PICK r \in Specs : Admitted(r) /\ s = WithDefaults(r)
  BY DEF StoredSpecs, Stored
<1>2. /\ r = [type |-> r.type, scope |-> r.scope, links |-> r.links, function |-> r.function]
      /\ Len(r.links) \in Nat /\ DOMAIN r.links = 1..Len(r.links)
  BY BpfLinksAssumption DEF IsProgram
<1>3. PICK ls : ls = [j \in DOMAIN r.links |-> ls[j]] /\ s = [r EXCEPT !.links = ls]
  BY <1>1 DEF WithDefaults
<1>4. s.type = r.type /\ s.scope = r.scope /\ s.function = r.function /\ s.links = ls
  BY <1>2, <1>3
<1>5. Len(ls) \in Nat /\ DOMAIN ls = 1..Len(ls) /\ DOMAIN ls = DOMAIN r.links
  <2> DEFINE S == {ls[j] : j \in DOMAIN ls}
  <2>1. ls \in [1..Len(r.links) -> S]
    BY <1>2, <1>3
  <2>2. ls \in Seq(S)
    BY <1>2, <2>1
  <2>3. QED
    BY <1>3, <2>2, LenProperties
<1>6. QED
  BY <1>1, <1>4, <1>5

\* What the API server makes of an attachInfo.
FilledAttrs(t, a) ==
  CASE t = "xdp" -> xdpDefaults(a)
    [] t = "tc"  -> tcDefaults(a)
    [] t \in {"kprobe", "uprobe", "uretprobe"} -> probeDefaults(a)
    [] OTHER     -> a

FilledIfs(t, ifs) == IF t \in NetTypes THEN InterfaceDefaults(ifs) ELSE ifs

\* AttachInfo b was submitted as ai.
Fills(t, b, ai) ==
  /\ IsAttachInfo(t, ai)
  /\ b = [ifs |-> FilledIfs(t, ai.ifs), sel |-> ai.sel, attrs |-> FilledAttrs(t, ai.attrs)]

LEMMA StoredLinks ==
  ASSUME NEW s \in StoredSpecs
  PROVE  \E r \in Specs : /\ Admitted(r) /\ s.type = r.type /\ s.scope = r.scope
                             /\ DOMAIN s.links = DOMAIN r.links
                          /\ \A j \in DOMAIN s.links : Fills(s.type, s.links[j], r.links[j])
<1>1. PICK r \in Specs : /\ Admitted(r) /\ s = WithDefaults(r) /\ s.type = r.type /\ s.scope = r.scope
                         /\ s.function = r.function /\ DOMAIN s.links = DOMAIN r.links
  BY StoredFacts
<1>2. r = [type |-> r.type, scope |-> r.scope, links |-> r.links, function |-> r.function]
  BY BpfLinksAssumption DEF IsProgram
<1>3. ASSUME NEW j \in DOMAIN s.links PROVE Fills(s.type, s.links[j], r.links[j])
  <2> DEFINE t == s.type
             ai == r.links[j]
             new(x) == AttachInfoDefaults(t, x)
  <2>1. s = [r EXCEPT !.links = [k \in DOMAIN r.links |-> new(r.links[k])]]
    BY <1>1 DEF WithDefaults
  <2> HIDE DEF new
  <2>2. s.links = [k \in DOMAIN r.links |-> new(r.links[k])]
    BY <1>2, <2>1
  <2>3. s.links[j] = new(ai)
    BY <1>1, <2>2
  <2>4. IsAttachInfo(t, ai)
    BY <1>1, BpfLinksAssumption DEF IsProgram
  <2> HIDE DEF t, ai
  <2>5. ai = [ifs |-> ai.ifs, sel |-> ai.sel, attrs |-> ai.attrs]
    BY <2>4 DEF IsAttachInfo
  <2>6. new(ai) = [ai EXCEPT !.ifs = FilledIfs(t, ai.ifs), !.attrs = FilledAttrs(t, ai.attrs)]
    BY DEF new, AttachInfoDefaults, FilledIfs, FilledAttrs
  <2>7. new(ai) = [ifs |-> FilledIfs(t, ai.ifs), sel |-> ai.sel, attrs |-> FilledAttrs(t, ai.attrs)]
    BY <2>5, <2>6
  <2>8. QED
    BY <2>3, <2>4, <2>7 DEF Fills, t, ai
<1>4. QED
  BY <1>1, <1>3

(***************************************************************************)
(* The program, the entries and the node are what they can be.             *)
(***************************************************************************)
KindOK ==
  /\ spec \in StoredSpecs /\ cur \in StoredSpecs
  /\ cur.type = spec.type /\ cur.scope = spec.scope /\ cur.function = spec.function

EntriesOK ==
  /\ IsList(links) /\ \A j \in DOMAIN links : EntryOK(spec.type, nextPid, links[j])
  /\ ExpectedOK(spec.type, expected)

BaseInv == NodeOK /\ KindOK /\ EntriesOK /\ pos \in Nat \ {0}

(***************************************************************************)
(* What updateLinks does.                                                  *)
(***************************************************************************)
\* The entries findLink accepts for link l.
FoundFor(l) == {j \in DOMAIN links : Agree(cur.type, links[j], l, cache)}

\* One attachInfo is expanded.
Expanded ==
  /\ expected = {} /\ UNCHANGED <<links, cache>>
  /\ pos \in DOMAIN cur.links /\ pos' = pos + 1
  /\ expected' \in Expansions(cur, cur.links[pos])

\* Link l is looked up.
LookedUp(l) ==
  /\ expected' = expected \ {l}
  /\ links' = IF findLinkFails(l) THEN links ELSE AddExpected(l, FoundFor(l))
  /\ cache' = IF findLinkFails(l) \/ cur.type \notin NetTypes THEN cache
              ELSE Remember(cache, Asked(l, FoundFor(l)))
  /\ pos' = pos

UpdateEffect ==
  /\ pc = "update"
  /\ Expanded \/ \E l \in expected : LookedUp(l)
  /\ UNCHANGED <<spec, nodeVars, linkStatus, attached, pc, cur, dirty, changes, faults>>

LEMMA clXdpEffect ==
  ASSUME BaseInv, clXdpUpdateLinks
  PROVE  UpdateEffect
<1>1. spec.type = "xdp" /\ cur.type = spec.type /\ cur.scope = "cluster"
  BY DEF clXdpUpdateLinks, UpdateLinks, Working, ClXdpProgramReconciler, Reconciler, UprobeTypes, BaseInv,
       KindOK
<1>2. ASSUME ExpandLinks(clXdpLinks(cur.links[pos]))
      PROVE  Expanded
  <2>1. pos \in DOMAIN cur.links
    BY <1>2, StoredFacts DEF ExpandLinks, BaseInv, KindOK
  <2>2. AttrsOf(cur.type, cur.links[pos].attrs) = xdpAttrs(cur.links[pos].attrs)
    BY <1>1 DEF AttrsOf, UprobeTypes
  <2>3. expected' \in Expansions(cur, cur.links[pos])
    BY <1>1, <1>2, <2>2 DEF ExpandLinks, clXdpLinks, Expansions, NetTypes, UprobeTypes
  <2>4. QED
    BY <1>2, <2>1, <2>3 DEF ExpandLinks, Expanded
<1>3. ASSUME \E l \in expected : FindLink(l, {j \in DOMAIN links : xdpKey(links[j], cache) = xdpKey(l, cache)})
      PROVE  \E l \in expected : LookedUp(l)
  <2>1. ASSUME NEW l \in expected
        PROVE  {j \in DOMAIN links : xdpKey(links[j], cache) = xdpKey(l, cache)} = FoundFor(l)
    <3>1. EntryOK(spec.type, nextPid, l) /\ \A j \in DOMAIN links : EntryOK(spec.type, nextPid, links[j])
      BY DEF BaseInv, EntriesOK, ExpectedOK
    <3>2. \A j \in DOMAIN links : xdpKey(links[j], cache) = xdpKey(l, cache)
            <=> Agree(cur.type, links[j], l, cache)
      BY <1>1, <3>1, xdpKeyAgrees
    <3>3. QED
      BY <3>2 DEF FoundFor
  <2>2. QED
    BY <1>3, <2>1 DEF FindLink, LookedUp
<1>4. QED
  BY <1>2, <1>3 DEF clXdpUpdateLinks, UpdateLinks, UpdateEffect

LEMMA clTcEffect ==
  ASSUME BaseInv, clTcUpdateLinks
  PROVE  UpdateEffect
<1>1. spec.type = "tc" /\ cur.type = spec.type /\ cur.scope = "cluster"
  BY DEF clTcUpdateLinks, UpdateLinks, Working, ClTcProgramReconciler, Reconciler, UprobeTypes, BaseInv, KindOK
<1>2. ASSUME ExpandLinks(clTcLinks(cur.links[pos]))
      PROVE  Expanded
  <2>1. pos \in DOMAIN cur.links
    BY <1>2, StoredFacts DEF ExpandLinks, BaseInv, KindOK
  <2>2. AttrsOf(cur.type, cur.links[pos].attrs) = tcAttrs(cur.links[pos].attrs)
    BY <1>1 DEF AttrsOf, UprobeTypes
  <2>3. expected' \in Expansions(cur, cur.links[pos])
    BY <1>1, <1>2, <2>2 DEF ExpandLinks, clTcLinks, Expansions, NetTypes, UprobeTypes
  <2>4. QED
    BY <1>2, <2>1, <2>3 DEF ExpandLinks, Expanded
<1>3. ASSUME \E l \in expected : FindLink(l, {j \in DOMAIN links : tcKey(links[j], cache) = tcKey(l, cache)})
      PROVE  \E l \in expected : LookedUp(l)
  <2>1. ASSUME NEW l \in expected
        PROVE  {j \in DOMAIN links : tcKey(links[j], cache) = tcKey(l, cache)} = FoundFor(l)
    <3>1. EntryOK(spec.type, nextPid, l) /\ \A j \in DOMAIN links : EntryOK(spec.type, nextPid, links[j])
      BY DEF BaseInv, EntriesOK, ExpectedOK
    <3>2. \A j \in DOMAIN links : tcKey(links[j], cache) = tcKey(l, cache)
            <=> Agree(cur.type, links[j], l, cache)
      BY <1>1, <3>1, tcKeyAgrees
    <3>3. QED
      BY <3>2 DEF FoundFor
  <2>2. QED
    BY <1>3, <2>1 DEF FindLink, LookedUp
<1>4. QED
  BY <1>2, <1>3 DEF clTcUpdateLinks, UpdateLinks, UpdateEffect

LEMMA clTcxEffect ==
  ASSUME BaseInv, clTcxUpdateLinks
  PROVE  UpdateEffect
<1>1. spec.type = "tcx" /\ cur.type = spec.type /\ cur.scope = "cluster"
  BY DEF clTcxUpdateLinks, UpdateLinks, Working, ClTcxProgramReconciler, Reconciler, UprobeTypes, BaseInv,
       KindOK
<1>2. ASSUME ExpandLinks(clTcxLinks(cur.links[pos]))
      PROVE  Expanded
  <2>1. pos \in DOMAIN cur.links
    BY <1>2, StoredFacts DEF ExpandLinks, BaseInv, KindOK
  <2>2. AttrsOf(cur.type, cur.links[pos].attrs) = tcxAttrs(cur.links[pos].attrs)
    BY <1>1 DEF AttrsOf, UprobeTypes
  <2>3. expected' \in Expansions(cur, cur.links[pos])
    BY <1>1, <1>2, <2>2 DEF ExpandLinks, clTcxLinks, Expansions, NetTypes, UprobeTypes
  <2>4. QED
    BY <1>2, <2>1, <2>3 DEF ExpandLinks, Expanded
<1>3. ASSUME \E l \in expected : FindLink(l, {j \in DOMAIN links : tcxKey(links[j], cache) = tcxKey(l, cache)})
      PROVE  \E l \in expected : LookedUp(l)
  <2>1. ASSUME NEW l \in expected
        PROVE  {j \in DOMAIN links : tcxKey(links[j], cache) = tcxKey(l, cache)} = FoundFor(l)
    <3>1. EntryOK(spec.type, nextPid, l) /\ \A j \in DOMAIN links : EntryOK(spec.type, nextPid, links[j])
      BY DEF BaseInv, EntriesOK, ExpectedOK
    <3>2. \A j \in DOMAIN links : tcxKey(links[j], cache) = tcxKey(l, cache)
            <=> Agree(cur.type, links[j], l, cache)
      BY <1>1, <3>1, tcxKeyAgrees
    <3>3. QED
      BY <3>2 DEF FoundFor
  <2>2. QED
    BY <1>3, <2>1 DEF FindLink, LookedUp
<1>4. QED
  BY <1>2, <1>3 DEF clTcxUpdateLinks, UpdateLinks, UpdateEffect

LEMMA clUprobeEffect ==
  ASSUME BaseInv, clUprobeUpdateLinks
  PROVE  UpdateEffect
<1>1. spec.type \in UprobeTypes /\ cur.type = spec.type /\ cur.scope = "cluster"
  BY DEF clUprobeUpdateLinks, UpdateLinks, Working, ClUprobeProgramReconciler, Reconciler, UprobeTypes,
       BaseInv, KindOK
<1>2. ASSUME ExpandLinks(clUprobeLinks(cur.links[pos]))
      PROVE  Expanded
  <2>1. pos \in DOMAIN cur.links
    BY <1>2, StoredFacts DEF ExpandLinks, BaseInv, KindOK
  <2>2. AttrsOf(cur.type, cur.links[pos].attrs) = uprobeAttrs(cur.links[pos].attrs)
    BY <1>1 DEF AttrsOf, UprobeTypes
  <2>3. expected' \in Expansions(cur, cur.links[pos])
    BY <1>1, <1>2, <2>2 DEF ExpandLinks, clUprobeLinks, Expansions, NetTypes, UprobeTypes
  <2>4. QED
    BY <1>2, <2>1, <2>3 DEF ExpandLinks, Expanded
<1>3. ASSUME \E l \in expected : FindLink(l, {j \in DOMAIN links : uprobeKey(links[j], cache) = uprobeKey(l,
               cache)})
      PROVE  \E l \in expected : LookedUp(l)
  <2>1. ASSUME NEW l \in expected
        PROVE  {j \in DOMAIN links : uprobeKey(links[j], cache) = uprobeKey(l, cache)} = FoundFor(l)
    <3>1. EntryOK(spec.type, nextPid, l) /\ \A j \in DOMAIN links : EntryOK(spec.type, nextPid, links[j])
      BY DEF BaseInv, EntriesOK, ExpectedOK
    <3>2. \A j \in DOMAIN links : uprobeKey(links[j], cache) = uprobeKey(l, cache)
            <=> Agree(cur.type, links[j], l, cache)
      BY <1>1, <3>1, uprobeKeyAgrees
    <3>3. QED
      BY <3>2 DEF FoundFor
  <2>2. QED
    BY <1>3, <2>1 DEF FindLink, LookedUp
<1>4. QED
  BY <1>2, <1>3 DEF clUprobeUpdateLinks, UpdateLinks, UpdateEffect

LEMMA clKprobeEffect ==
  ASSUME BaseInv, clKprobeUpdateLinks
  PROVE  UpdateEffect
<1>1. spec.type = "kprobe" /\ cur.type = spec.type /\ cur.scope = "cluster"
  BY DEF clKprobeUpdateLinks, UpdateLinks, Working, ClKprobeProgramReconciler, Reconciler, UprobeTypes,
       BaseInv, KindOK
<1>2. ASSUME ExpandLinks(clKprobeLinks(cur.links[pos]))
      PROVE  Expanded
  <2>1. pos \in DOMAIN cur.links
    BY <1>2, StoredFacts DEF ExpandLinks, BaseInv, KindOK
  <2>2. AttrsOf(cur.type, cur.links[pos].attrs) = kprobeAttrs(cur.links[pos].attrs)
    BY <1>1 DEF AttrsOf, UprobeTypes
  <2>3. expected' \in Expansions(cur, cur.links[pos])
    BY <1>1, <1>2, <2>2 DEF ExpandLinks, clKprobeLinks, Expansions, NetTypes, UprobeTypes
  <2>4. QED
    BY <1>2, <2>1, <2>3 DEF ExpandLinks, Expanded
<1>3. ASSUME \E l \in expected : FindLink(l, {j \in DOMAIN links : kprobeKey(links[j], cache) = kprobeKey(l,
               cache)})
      PROVE  \E l \in expected : LookedUp(l)
  <2>1. ASSUME NEW l \in expected
        PROVE  {j \in DOMAIN links : kprobeKey(links[j], cache) = kprobeKey(l, cache)} = FoundFor(l)
    <3>1. EntryOK(spec.type, nextPid, l) /\ \A j \in DOMAIN links : EntryOK(spec.type, nextPid, links[j])
      BY DEF BaseInv, EntriesOK, ExpectedOK
    <3>2. \A j \in DOMAIN links : kprobeKey(links[j], cache) = kprobeKey(l, cache)
            <=> Agree(cur.type, links[j], l, cache)
      BY <1>1, <3>1, kprobeKeyAgrees
    <3>3. QED
      BY <3>2 DEF FoundFor
  <2>2. QED
    BY <1>3, <2>1 DEF FindLink, LookedUp
<1>4. QED
  BY <1>2, <1>3 DEF clKprobeUpdateLinks, UpdateLinks, UpdateEffect

LEMMA clKretprobeEffect ==
  ASSUME BaseInv, clKretprobeUpdateLinks
  PROVE  UpdateEffect
<1>1. spec.type = "kretprobe" /\ cur.type = spec.type /\ cur.scope = "cluster"
  BY DEF clKretprobeUpdateLinks, UpdateLinks, Working, ClKretprobeProgramReconciler, Reconciler, UprobeTypes,
       BaseInv, KindOK
<1>2. ASSUME ExpandLinks(clKretprobeLinks(cur.links[pos]))
      PROVE  Expanded
  <2>1. pos \in DOMAIN cur.links
    BY <1>2, StoredFacts DEF ExpandLinks, BaseInv, KindOK
  <2>2. AttrsOf(cur.type, cur.links[pos].attrs) = kretprobeAttrs(cur.links[pos].attrs)
    BY <1>1 DEF AttrsOf, UprobeTypes
  <2>3. expected' \in Expansions(cur, cur.links[pos])
    BY <1>1, <1>2, <2>2 DEF ExpandLinks, clKretprobeLinks, Expansions, NetTypes, UprobeTypes
  <2>4. QED
    BY <1>2, <2>1, <2>3 DEF ExpandLinks, Expanded
<1>3. ASSUME \E l \in expected : FindLink(l, {j \in DOMAIN links : kretprobeKey(links[j],
               cache) = kretprobeKey(l, cache)})
      PROVE  \E l \in expected : LookedUp(l)
  <2>1. ASSUME NEW l \in expected
        PROVE  {j \in DOMAIN links : kretprobeKey(links[j], cache) = kretprobeKey(l, cache)} = FoundFor(l)
    <3>1. EntryOK(spec.type, nextPid, l) /\ \A j \in DOMAIN links : EntryOK(spec.type, nextPid, links[j])
      BY DEF BaseInv, EntriesOK, ExpectedOK
    <3>2. \A j \in DOMAIN links : kretprobeKey(links[j], cache) = kretprobeKey(l, cache)
            <=> Agree(cur.type, links[j], l, cache)
      BY <1>1, <3>1, kretprobeKeyAgrees
    <3>3. QED
      BY <3>2 DEF FoundFor
  <2>2. QED
    BY <1>3, <2>1 DEF FindLink, LookedUp
<1>4. QED
  BY <1>2, <1>3 DEF clKretprobeUpdateLinks, UpdateLinks, UpdateEffect

LEMMA clTracepointEffect ==
  ASSUME BaseInv, clTracepointUpdateLinks
  PROVE  UpdateEffect
<1>1. spec.type = "tracepoint" /\ cur.type = spec.type /\ cur.scope = "cluster"
  BY DEF clTracepointUpdateLinks, UpdateLinks, Working, ClTracepointProgramReconciler, Reconciler,
       UprobeTypes, BaseInv, KindOK
<1>2. ASSUME ExpandLinks(clTracepointLinks(cur.links[pos]))
      PROVE  Expanded
  <2>1. pos \in DOMAIN cur.links
    BY <1>2, StoredFacts DEF ExpandLinks, BaseInv, KindOK
  <2>2. AttrsOf(cur.type, cur.links[pos].attrs) = tracepointAttrs(cur.links[pos].attrs)
    BY <1>1 DEF AttrsOf, UprobeTypes
  <2>3. expected' \in Expansions(cur, cur.links[pos])
    BY <1>1, <1>2, <2>2 DEF ExpandLinks, clTracepointLinks, Expansions, NetTypes, UprobeTypes
  <2>4. QED
    BY <1>2, <2>1, <2>3 DEF ExpandLinks, Expanded
<1>3. ASSUME \E l \in expected : FindLink(l, {j \in DOMAIN links : tracepointKey(links[j],
               cache) = tracepointKey(l, cache)})
      PROVE  \E l \in expected : LookedUp(l)
  <2>1. ASSUME NEW l \in expected
        PROVE  {j \in DOMAIN links : tracepointKey(links[j], cache) = tracepointKey(l, cache)} = FoundFor(l)
    <3>1. EntryOK(spec.type, nextPid, l) /\ \A j \in DOMAIN links : EntryOK(spec.type, nextPid, links[j])
      BY DEF BaseInv, EntriesOK, ExpectedOK
    <3>2. \A j \in DOMAIN links : tracepointKey(links[j], cache) = tracepointKey(l, cache)
            <=> Agree(cur.type, links[j], l, cache)
      BY <1>1, <3>1, tracepointKeyAgrees
    <3>3. QED
      BY <3>2 DEF FoundFor
  <2>2. QED
    BY <1>3, <2>1 DEF FindLink, LookedUp
<1>4. QED
  BY <1>2, <1>3 DEF clTracepointUpdateLinks, UpdateLinks, UpdateEffect

LEMMA clFentryEffect ==
  ASSUME BaseInv, clFentryUpdateLinks
  PROVE  UpdateEffect
<1>1. spec.type = "fentry" /\ cur.type = spec.type /\ cur.scope = "cluster"
  BY DEF clFentryUpdateLinks, UpdateLinks, Working, ClFentryProgramReconciler, Reconciler, UprobeTypes,
       BaseInv, KindOK
<1>2. ASSUME ExpandLinks(clFentryLinks(cur.links[pos]))
      PROVE  Expanded
  <2>1. pos \in DOMAIN cur.links
    BY <1>2, StoredFacts DEF ExpandLinks, BaseInv, KindOK
  <2>2. AttrsOf(cur.type, cur.links[pos].attrs) = fentryAttrs(cur.links[pos].attrs)
    BY <1>1 DEF AttrsOf, UprobeTypes, fentryAttrs
  <2>3. expected' \in Expansions(cur, cur.links[pos])
    BY <1>1, <1>2, <2>2 DEF ExpandLinks, clFentryLinks, Expansions, NetTypes, UprobeTypes
  <2>4. QED
    BY <1>2, <2>1, <2>3 DEF ExpandLinks, Expanded
<1>3. ASSUME \E l \in expected : FindLink(l, {j \in DOMAIN links : fentryKey(links[j], cache) = fentryKey(l,
               cache)})
      PROVE  \E l \in expected : LookedUp(l)
  <2>1. ASSUME NEW l \in expected
        PROVE  {j \in DOMAIN links : fentryKey(links[j], cache) = fentryKey(l, cache)} = FoundFor(l)
    <3>1. EntryOK(spec.type, nextPid, l) /\ \A j \in DOMAIN links : EntryOK(spec.type, nextPid, links[j])
      BY DEF BaseInv, EntriesOK, ExpectedOK
    <3>2. \A j \in DOMAIN links : fentryKey(links[j], cache) = fentryKey(l, cache)
            <=> Agree(cur.type, links[j], l, cache)
      BY <1>1, <3>1, fentryKeyAgrees
    <3>3. QED
      BY <3>2 DEF FoundFor
  <2>2. QED
    BY <1>3, <2>1 DEF FindLink, LookedUp
<1>4. QED
  BY <1>2, <1>3 DEF clFentryUpdateLinks, UpdateLinks, UpdateEffect

LEMMA clFexitEffect ==
  ASSUME BaseInv, clFexitUpdateLinks
  PROVE  UpdateEffect
<1>1. spec.type = "fexit" /\ cur.type = spec.type /\ cur.scope = "cluster"
  BY DEF clFexitUpdateLinks, UpdateLinks, Working, ClFexitProgramReconciler, Reconciler, UprobeTypes,
       BaseInv, KindOK
<1>2. ASSUME ExpandLinks(clFexitLinks(cur.links[pos]))
      PROVE  Expanded
  <2>1. pos \in DOMAIN cur.links
    BY <1>2, StoredFacts DEF ExpandLinks, BaseInv, KindOK
  <2>2. AttrsOf(cur.type, cur.links[pos].attrs) = fexitAttrs(cur.links[pos].attrs)
    BY <1>1 DEF AttrsOf, UprobeTypes, fexitAttrs
  <2>3. expected' \in Expansions(cur, cur.links[pos])
    BY <1>1, <1>2, <2>2 DEF ExpandLinks, clFexitLinks, Expansions, NetTypes, UprobeTypes
  <2>4. QED
    BY <1>2, <2>1, <2>3 DEF ExpandLinks, Expanded
<1>3. ASSUME \E l \in expected : FindLink(l, {j \in DOMAIN links : fexitKey(links[j], cache) = fexitKey(l,
               cache)})
      PROVE  \E l \in expected : LookedUp(l)
  <2>1. ASSUME NEW l \in expected
        PROVE  {j \in DOMAIN links : fexitKey(links[j], cache) = fexitKey(l, cache)} = FoundFor(l)
    <3>1. EntryOK(spec.type, nextPid, l) /\ \A j \in DOMAIN links : EntryOK(spec.type, nextPid, links[j])
      BY DEF BaseInv, EntriesOK, ExpectedOK
    <3>2. \A j \in DOMAIN links : fexitKey(links[j], cache) = fexitKey(l, cache)
            <=> Agree(cur.type, links[j], l, cache)
      BY <1>1, <3>1, fexitKeyAgrees
    <3>3. QED
      BY <3>2 DEF FoundFor
  <2>2. QED
    BY <1>3, <2>1 DEF FindLink, LookedUp
<1>4. QED
  BY <1>2, <1>3 DEF clFexitUpdateLinks, UpdateLinks, UpdateEffect

LEMMA nsXdpEffect ==
  ASSUME BaseInv, nsXdpUpdateLinks
  PROVE  UpdateEffect
<1>1. spec.type = "xdp" /\ cur.type = spec.type /\ cur.scope = "namespace"
  BY DEF nsXdpUpdateLinks, UpdateLinks, Working, NsXdpProgramReconciler, Reconciler, UprobeTypes, BaseInv,
       KindOK
<1>2. ASSUME ExpandLinks(nsXdpLinks(cur.links[pos]))
      PROVE  Expanded
  <2>1. pos \in DOMAIN cur.links
    BY <1>2, StoredFacts DEF ExpandLinks, BaseInv, KindOK
  <2>2. AttrsOf(cur.type, cur.links[pos].attrs) = xdpAttrs(cur.links[pos].attrs)
    BY <1>1 DEF AttrsOf, UprobeTypes
  <2>3. expected' \in Expansions(cur, cur.links[pos])
    BY <1>1, <1>2, <2>2 DEF ExpandLinks, nsXdpLinks, Expansions, NetTypes, UprobeTypes
  <2>4. QED
    BY <1>2, <2>1, <2>3 DEF ExpandLinks, Expanded
<1>3. ASSUME \E l \in expected : FindLink(l, {j \in DOMAIN links : xdpKey(links[j], cache) = xdpKey(l, cache)})
      PROVE  \E l \in expected : LookedUp(l)
  <2>1. ASSUME NEW l \in expected
        PROVE  {j \in DOMAIN links : xdpKey(links[j], cache) = xdpKey(l, cache)} = FoundFor(l)
    <3>1. EntryOK(spec.type, nextPid, l) /\ \A j \in DOMAIN links : EntryOK(spec.type, nextPid, links[j])
      BY DEF BaseInv, EntriesOK, ExpectedOK
    <3>2. \A j \in DOMAIN links : xdpKey(links[j], cache) = xdpKey(l, cache)
            <=> Agree(cur.type, links[j], l, cache)
      BY <1>1, <3>1, xdpKeyAgrees
    <3>3. QED
      BY <3>2 DEF FoundFor
  <2>2. QED
    BY <1>3, <2>1 DEF FindLink, LookedUp
<1>4. QED
  BY <1>2, <1>3 DEF nsXdpUpdateLinks, UpdateLinks, UpdateEffect

LEMMA nsTcEffect ==
  ASSUME BaseInv, nsTcUpdateLinks
  PROVE  UpdateEffect
<1>1. spec.type = "tc" /\ cur.type = spec.type /\ cur.scope = "namespace"
  BY DEF nsTcUpdateLinks, UpdateLinks, Working, NsTcProgramReconciler, Reconciler, UprobeTypes, BaseInv, KindOK
<1>2. ASSUME ExpandLinks(nsTcLinks(cur.links[pos]))
      PROVE  Expanded
  <2>1. pos \in DOMAIN cur.links
    BY <1>2, StoredFacts DEF ExpandLinks, BaseInv, KindOK
  <2>2. AttrsOf(cur.type, cur.links[pos].attrs) = tcAttrs(cur.links[pos].attrs)
    BY <1>1 DEF AttrsOf, UprobeTypes
  <2>3. expected' \in Expansions(cur, cur.links[pos])
    BY <1>1, <1>2, <2>2 DEF ExpandLinks, nsTcLinks, Expansions, NetTypes, UprobeTypes
  <2>4. QED
    BY <1>2, <2>1, <2>3 DEF ExpandLinks, Expanded
<1>3. ASSUME \E l \in expected : FindLink(l, {j \in DOMAIN links : tcKey(links[j], cache) = tcKey(l, cache)})
      PROVE  \E l \in expected : LookedUp(l)
  <2>1. ASSUME NEW l \in expected
        PROVE  {j \in DOMAIN links : tcKey(links[j], cache) = tcKey(l, cache)} = FoundFor(l)
    <3>1. EntryOK(spec.type, nextPid, l) /\ \A j \in DOMAIN links : EntryOK(spec.type, nextPid, links[j])
      BY DEF BaseInv, EntriesOK, ExpectedOK
    <3>2. \A j \in DOMAIN links : tcKey(links[j], cache) = tcKey(l, cache)
            <=> Agree(cur.type, links[j], l, cache)
      BY <1>1, <3>1, tcKeyAgrees
    <3>3. QED
      BY <3>2 DEF FoundFor
  <2>2. QED
    BY <1>3, <2>1 DEF FindLink, LookedUp
<1>4. QED
  BY <1>2, <1>3 DEF nsTcUpdateLinks, UpdateLinks, UpdateEffect

LEMMA nsTcxEffect ==
  ASSUME BaseInv, nsTcxUpdateLinks
  PROVE  UpdateEffect
<1>1. spec.type = "tcx" /\ cur.type = spec.type /\ cur.scope = "namespace"
  BY DEF nsTcxUpdateLinks, UpdateLinks, Working, NsTcxProgramReconciler, Reconciler, UprobeTypes, BaseInv,
       KindOK
<1>2. ASSUME ExpandLinks(nsTcxLinks(cur.links[pos]))
      PROVE  Expanded
  <2>1. pos \in DOMAIN cur.links
    BY <1>2, StoredFacts DEF ExpandLinks, BaseInv, KindOK
  <2>2. AttrsOf(cur.type, cur.links[pos].attrs) = tcxAttrs(cur.links[pos].attrs)
    BY <1>1 DEF AttrsOf, UprobeTypes
  <2>3. expected' \in Expansions(cur, cur.links[pos])
    BY <1>1, <1>2, <2>2 DEF ExpandLinks, nsTcxLinks, Expansions, NetTypes, UprobeTypes
  <2>4. QED
    BY <1>2, <2>1, <2>3 DEF ExpandLinks, Expanded
<1>3. ASSUME \E l \in expected : FindLink(l, {j \in DOMAIN links : tcxKey(links[j], cache) = tcxKey(l, cache)})
      PROVE  \E l \in expected : LookedUp(l)
  <2>1. ASSUME NEW l \in expected
        PROVE  {j \in DOMAIN links : tcxKey(links[j], cache) = tcxKey(l, cache)} = FoundFor(l)
    <3>1. EntryOK(spec.type, nextPid, l) /\ \A j \in DOMAIN links : EntryOK(spec.type, nextPid, links[j])
      BY DEF BaseInv, EntriesOK, ExpectedOK
    <3>2. \A j \in DOMAIN links : tcxKey(links[j], cache) = tcxKey(l, cache)
            <=> Agree(cur.type, links[j], l, cache)
      BY <1>1, <3>1, tcxKeyAgrees
    <3>3. QED
      BY <3>2 DEF FoundFor
  <2>2. QED
    BY <1>3, <2>1 DEF FindLink, LookedUp
<1>4. QED
  BY <1>2, <1>3 DEF nsTcxUpdateLinks, UpdateLinks, UpdateEffect

LEMMA nsUprobeEffect ==
  ASSUME BaseInv, nsUprobeUpdateLinks
  PROVE  UpdateEffect
<1>1. spec.type \in UprobeTypes /\ cur.type = spec.type /\ cur.scope = "namespace"
  BY DEF nsUprobeUpdateLinks, UpdateLinks, Working, NsUprobeProgramReconciler, Reconciler, UprobeTypes,
       BaseInv, KindOK
<1>2. ASSUME ExpandLinks(nsUprobeLinks(cur.links[pos]))
      PROVE  Expanded
  <2>1. pos \in DOMAIN cur.links
    BY <1>2, StoredFacts DEF ExpandLinks, BaseInv, KindOK
  <2>2. AttrsOf(cur.type, cur.links[pos].attrs) = uprobeAttrs(cur.links[pos].attrs)
    BY <1>1 DEF AttrsOf, UprobeTypes
  <2>3. expected' \in Expansions(cur, cur.links[pos])
    BY <1>1, <1>2, <2>2 DEF ExpandLinks, nsUprobeLinks, Expansions, NetTypes, UprobeTypes
  <2>4. QED
    BY <1>2, <2>1, <2>3 DEF ExpandLinks, Expanded
<1>3. ASSUME \E l \in expected : FindLink(l, {j \in DOMAIN links : uprobeKey(links[j], cache) = uprobeKey(l,
               cache)})
      PROVE  \E l \in expected : LookedUp(l)
  <2>1. ASSUME NEW l \in expected
        PROVE  {j \in DOMAIN links : uprobeKey(links[j], cache) = uprobeKey(l, cache)} = FoundFor(l)
    <3>1. EntryOK(spec.type, nextPid, l) /\ \A j \in DOMAIN links : EntryOK(spec.type, nextPid, links[j])
      BY DEF BaseInv, EntriesOK, ExpectedOK
    <3>2. \A j \in DOMAIN links : uprobeKey(links[j], cache) = uprobeKey(l, cache)
            <=> Agree(cur.type, links[j], l, cache)
      BY <1>1, <3>1, uprobeKeyAgrees
    <3>3. QED
      BY <3>2 DEF FoundFor
  <2>2. QED
    BY <1>3, <2>1 DEF FindLink, LookedUp
<1>4. QED
  BY <1>2, <1>3 DEF nsUprobeUpdateLinks, UpdateLinks, UpdateEffect

LEMMA UpdateLinksEffect ==
  ASSUME BaseInv, updateLinks
  PROVE  UpdateEffect
BY clXdpEffect, clTcEffect, clTcxEffect, clUprobeEffect, clKprobeEffect, clKretprobeEffect,
   clTracepointEffect, clFentryEffect, clFexitEffect, nsXdpEffect, nsTcEffect, nsTcxEffect,
   nsUprobeEffect DEF updateLinks

(***************************************************************************)
(* Steps of the node.                                                      *)
(***************************************************************************)
\* The containers after a step: those before it, possibly stopped, and at most
\* one with a new process id.
CtrsGrow ==
  /\ nextPid' \in {nextPid, nextPid + 1}
  /\ \A c \in ctrs' : \/ \E d \in ctrs : d.pid = c.pid /\ d.pod = c.pod /\ (c.up => d.up)
                      \/ c.pid = nextPid /\ nextPid' = nextPid + 1

LEMMA StartContainerNode ==
  ASSUME NodeOK, NEW p \in Pods, NEW n \in CtrNames, StartContainer(p, n)
  PROVE  NodeOK' /\ CtrsGrow
<1> DEFINE yes == TRUE
           new == [pid |-> nextPid, pod |-> p, name |-> n, up |-> yes]
<1>1. /\ p \in sandbox /\ ctrs' = ctrs \cup {new} /\ nextPid' = nextPid + 1 /\ sandbox' = sandbox
      /\ nextPid \in Nat \ {0} /\ ifmap' = ifmap
  BY DEF StartContainer, NodeOK
<1> HIDE DEF yes
<1>2. new.pid = nextPid /\ new.pod = p
        /\ new = [pid |-> new.pid, pod |-> new.pod, name |-> new.name, up |-> new.up]
  OBVIOUS
<1> HIDE DEF new
<1>3. nextPid + 1 \in Nat \ {0} /\ nextPid \in 1..(nextPid + 1 - 1)
        /\ 1..(nextPid - 1) \subseteq 1..(nextPid + 1 - 1)
      /\ nextPid \notin 1..(nextPid - 1)
  BY <1>1
<1>4. NodeOK'
  <2>1. \A c \in ctrs' : /\ c = [pid |-> c.pid, pod |-> c.pod, name |-> c.name, up |-> c.up]
                         /\ c.pid \in 1..(nextPid + 1 - 1) /\ c.pod \in sandbox
    BY <1>1, <1>2, <1>3 DEF NodeOK
  <2>2. \A c, d \in ctrs' : c.pid = d.pid => c = d
    BY <1>1, <1>2, <1>3 DEF NodeOK
  <2>3. QED
    BY <1>1, <1>3, <2>1, <2>2 DEF NodeOK
<1>5. CtrsGrow
  BY <1>1, <1>2 DEF CtrsGrow
<1>6. QED
  BY <1>4, <1>5

LEMMA ExitContainerNode ==
  ASSUME NodeOK, NEW c \in ctrs, ExitContainer(c)
  PROVE  NodeOK' /\ CtrsGrow
<1> DEFINE no == FALSE
           new == [c EXCEPT !.up = no]
<1>1. ctrs' = (ctrs \ {c}) \cup {new} /\ nextPid' = nextPid /\ sandbox' = sandbox /\ ifmap' = ifmap
  BY DEF ExitContainer
<1>2. ~no
  OBVIOUS
<1> HIDE DEF no
<1>3. /\ new.pid = c.pid /\ new.pod = c.pod /\ new.up = no
      /\ new = [pid |-> new.pid, pod |-> new.pod, name |-> new.name, up |-> new.up]
  BY DEF NodeOK
<1> HIDE DEF new
<1>4. NodeOK'
  BY <1>1, <1>3 DEF NodeOK
<1>5. CtrsGrow
  <2>1. ASSUME NEW e \in ctrs' PROVE \E d \in ctrs : d.pid = e.pid /\ d.pod = e.pod /\ (e.up => d.up)
    <3>1. CASE e \in ctrs
      BY <3>1
    <3>2. CASE e = new
      <4>1. ~e.up
        BY <1>2, <1>3, <3>2, Zenon
      <4>2. c.pid = e.pid /\ c.pod = e.pod
        BY <1>3, <3>2
      <4>3. QED
        BY <4>1, <4>2
    <3>3. QED
      BY <1>1, <3>1, <3>2
  <2>2. QED
    BY <1>1, <2>1 DEF CtrsGrow
<1>6. QED
  BY <1>4, <1>5

\* Containers go, or nothing happens to them.
LEMMA FewerContainers ==
  ASSUME NodeOK, nextPid' = nextPid, ctrs' \subseteq ctrs, sandbox' \subseteq Pods, ifmap' \subseteq IfaceKeys,
         \A c \in ctrs' : c.pod \in sandbox'
  PROVE  NodeOK' /\ CtrsGrow
BY DEF NodeOK, CtrsGrow

LEMMA NodeStep ==
  ASSUME NodeOK, Node
  PROVE  NodeOK' /\ CtrsGrow
<1>1. ASSUME NEW p \in Pods, SchedulePod(p) \/ StartSandbox(p) \/ DeletePod(p) \/ RemoveSandbox(p)
      PROVE  NodeOK' /\ CtrsGrow
  <2>1. nextPid' = nextPid /\ ctrs' \subseteq ctrs
    BY <1>1 DEF SchedulePod, StartSandbox, DeletePod, RemoveSandbox
  <2>2. sandbox' \subseteq Pods /\ ifmap' \subseteq IfaceKeys /\ \A c \in ctrs' : c.pod \in sandbox'
    BY <1>1 DEF SchedulePod, StartSandbox, DeletePod, RemoveSandbox, NodeOK, CtrsOf
  <2>3. QED
    BY <2>1, <2>2, FewerContainers
<1>2. ASSUME NEW c \in ctrs, RemoveContainer(c)
      PROVE  NodeOK' /\ CtrsGrow
  <2>1. nextPid' = nextPid /\ ctrs' \subseteq ctrs /\ sandbox' = sandbox /\ ifmap' = ifmap
    BY <1>2 DEF RemoveContainer
  <2>2. sandbox' \subseteq Pods /\ ifmap' \subseteq IfaceKeys /\ \A d \in ctrs' : d.pod \in sandbox'
    BY <2>1 DEF NodeOK
  <2>3. QED
    BY <2>1, <2>2, FewerContainers
<1>3. ASSUME NEW key \in IfaceKeys, InterfaceAdded(key) \/ InterfaceDeleted(key)
      PROVE  NodeOK' /\ CtrsGrow
  <2>1. UNCHANGED <<nextPid, ctrs, sandbox>>
    BY <1>3 DEF InterfaceAdded, InterfaceDeleted
  <2>2. sandbox' \subseteq Pods /\ ifmap' \subseteq IfaceKeys /\ \A d \in ctrs' : d.pod \in sandbox'
    BY <1>3, <2>1 DEF NodeOK, InterfaceAdded, InterfaceDeleted
  <2>3. QED
    BY <2>1, <2>2, FewerContainers
<1>4. QED
  BY <1>1, <1>2, <1>3, StartContainerNode, ExitContainerNode DEF Node

\* A step of the agent or the user leaves the node alone.
LEMMA NodeLeftAlone ==
  ASSUME NodeOK, UNCHANGED nodeVars
  PROVE  NodeOK' /\ CtrsGrow
<1>1. UNCHANGED <<nextPid, ctrs, sandbox, ifmap>>
  BY DEF nodeVars
<1>2. sandbox' \subseteq Pods /\ ifmap' \subseteq IfaceKeys /\ \A d \in ctrs' : d.pod \in sandbox'
  BY <1>1 DEF NodeOK
<1>3. QED
  BY <1>1, <1>2, FewerContainers

\* Exited processes do not run again.
LEMMA RevStays ==
  ASSUME NodeOK, CtrsGrow, NEW x, ProperPath(nextPid, x), Rev(x)'
  PROVE  Rev(x)
<1>1. ASSUME NEW n \in 0..(nextPid - 1), Running(n)' PROVE Running(n)
  <2>1. PICK c \in ctrs' : c.pid = n /\ c.up
    BY <1>1 DEF Running
  <2>2. n # nextPid
    BY DEF NodeOK
  <2>3. PICK d \in ctrs : d.pid = c.pid /\ d.pod = c.pod /\ (c.up => d.up)
    BY <2>1, <2>2 DEF CtrsGrow
  <2>4. d.up
    BY <2>1, <2>3, Zenon
  <2>5. QED
    BY <2>1, <2>3, <2>4 DEF Running
<1>2. CASE x = HostPath
  BY <1>2, PathFacts
<1>3. ASSUME NEW n, x = <<"ns", n>> PROVE Rev(x)
  BY <1>3, PathFacts
<1>4. ASSUME NEW n \in 0..(nextPid - 1), x = <<"pid", n>> PROVE Rev(x)
  <2>1. Running(n)'
    BY <1>4 DEF Rev
  <2>2. QED
    BY <1>1, <1>4, <2>1, PathFacts
<1>5. QED
  BY <1>2, <1>3, <1>4 DEF ProperPath

\* Where the paths known so far lead does not depend on the step.
LEMMA TargetStays ==
  ASSUME NodeOK, NodeOK', CtrsGrow, NEW tgt \in [Nat -> Nets], Tells(tgt)
  PROVE  \E t \in [Nat -> Nets] :
           Tells(t)' /\ \A x : ProperPath(nextPid, x) => Target(t, x) = Target(tgt, x)
<1> DEFINE D == {c \in ctrs' : c.pid = nextPid}
           new == IF D = {} THEN tgt[nextPid] ELSE PodNet((CHOOSE c \in D : TRUE).pod)
<1>1. nextPid \in Nat \ {0} /\ \A c \in ctrs' : c.pod \in Pods
  BY DEF NodeOK
<1>2. new \in Nets
  <2>1. D # {} => (CHOOSE c \in D : TRUE) \in D
    OBVIOUS
  <2>2. D # {} => (CHOOSE c \in D : TRUE).pod \in Pods
    BY <1>1, <2>1
  <2>3. QED
    BY <1>1, <2>2, PodNets
<1>3. \A c \in D : new = PodNet(c.pod)
  BY DEF NodeOK
<1> HIDE DEF new
<1>4. PICK t \in [Nat -> Nets] : t[nextPid] = new /\ \A n \in Nat : n # nextPid => t[n] = tgt[n]
  <2>1. [tgt EXCEPT ![nextPid] = new] \in [Nat -> Nets]
    BY <1>1, <1>2
  <2>2. QED
    BY <1>1, <2>1
<1>5. Tells(t)'
  <2>1. ASSUME NEW c \in ctrs' PROVE t[c.pid] = PodNet(c.pod)
    <3>1. CASE c.pid = nextPid
      BY <1>3, <1>4, <3>1
    <3>2. CASE c.pid # nextPid
      <4>1. PICK d \in ctrs : d.pid = c.pid /\ d.pod = c.pod /\ (c.up => d.up)
        BY <3>2 DEF CtrsGrow
      <4>2. d.pid \in Nat /\ tgt[d.pid] = PodNet(d.pod)
        BY DEF NodeOK, Tells
      <4>3. QED
        BY <1>4, <3>2, <4>1, <4>2
    <3>3. QED
      BY <3>1, <3>2
  <2>2. QED
    BY <2>1 DEF Tells, PodNet
<1>6. ASSUME NEW x, ProperPath(nextPid, x) PROVE Target(t, x) = Target(tgt, x)
  <2>1. \A n \in 0..(nextPid - 1) : t[n] = tgt[n]
    BY <1>1, <1>4
  <2>2. QED
    BY <1>6, <2>1, PathFacts DEF ProperPath
<1>7. QED
  BY <1>4, <1>5, <1>6

(***************************************************************************)
(* The program, the entries and the node stay what they can be.            *)
(***************************************************************************)
LEMMA InitNode ==
  ASSUME Init
  PROVE  NodeOK
<1>1. PICK b \in Starts : /\ sandbox = b.run \cup b.gone /\ ctrs = InitCtrs(b)
                          /\ nextPid = Cardinality(sandbox) + 1
  BY DEF Init
<1>2. sandbox \subseteq Pods /\ IsFiniteSet(sandbox)
  BY <1>1, BpfLinksAssumption, FS_Subset
<1>3. Cardinality(sandbox) \in Nat /\ ExistsBijection(1..Cardinality(sandbox), sandbox)
  BY <1>2, FS_CardinalityType
<1> DEFINE n == Cardinality(sandbox)
           order == SetToSeq(sandbox)
<1>4. order \in [1..n -> sandbox] /\ IsInjective(order)
  <2>1. \E f \in [1..n -> sandbox] : IsInjective(f)
    BY <1>3 DEF ExistsBijection, Bijection, Injection
  <2>2. QED
    BY <2>1 DEF SetToSeq
<1>5. ctrs = {[pid |-> j, pod |-> order[j], name |-> CHOOSE m \in CtrNames : TRUE,
               up |-> order[j] \in b.run] : j \in DOMAIN order}
  BY <1>1 DEF InitCtrs
<1>6. n \in Nat /\ nextPid = n + 1
  BY <1>1, <1>3
<1> HIDE DEF n, order
<1>7. \A c \in ctrs : \E j \in 1..n :
        /\ c = [pid |-> c.pid, pod |-> c.pod, name |-> c.name, up |-> c.up]
        /\ c.pid = j /\ c.pod = order[j] /\ c.name = CHOOSE m \in CtrNames : TRUE
        /\ c.up = (order[j] \in b.run)
  BY <1>4, <1>5
<1>8. \A c, d \in ctrs : c.pid = d.pid => c = d
  <2> DEFINE R(j) == [pid |-> j, pod |-> order[j], name |-> CHOOSE m \in CtrNames : TRUE,
                      up |-> order[j] \in b.run]
  <2>1. \A j : R(j).pid = j
    OBVIOUS
  <2>2. ctrs = {R(j) : j \in DOMAIN order}
    BY <1>5
  <2> HIDE DEF R
  <2>3. QED
    BY <2>1, <2>2
<1>9. \A c \in ctrs : c.pid \in 1..(nextPid - 1) /\ c.pod \in sandbox
  BY <1>4, <1>6, <1>7
<1>10. ifmap = {}
  BY DEF Init
<1>11. QED
  BY <1>2, <1>6, <1>7, <1>8, <1>9, <1>10 DEF NodeOK

LEMMA BaseStart ==
  ASSUME Init
  PROVE  BaseInv
<1>1. KindOK
  <2>1. PICK b \in Starts : spec \in Stored(b.specs) /\ cur = spec
    BY DEF Init
  <2>2. Stored(b.specs) \subseteq StoredSpecs
    BY BpfLinksAssumption DEF Stored, StoredSpecs
  <2>3. QED
    BY <2>1, <2>2 DEF KindOK
<1>2. IsList(links) /\ DOMAIN links = {}
  <2>1. links = [j \in 1..0 |-> links[j]] /\ \A j \in 1..0 : IsLink(links[j])
    BY DEF Init
  <2>2. IsList(links) /\ DOMAIN links = 1..0
    BY <2>1, MakeList
  <2>3. QED
    BY <2>2
<1>3. EntriesOK
  BY <1>2 DEF Init, EntriesOK, ExpectedOK
<1>4. QED
  BY <1>1, <1>3, InitNode DEF Init, BaseInv

LEMMA EntryStays ==
  ASSUME NEW t, NEW m \in Nat, NEW n \in Nat, m <= n, NEW a, IsLink(a), NEW b, EntryOK(t, m, b), Static(a, b)
  PROVE  EntryOK(t, n, a)
<1>1. ProperPath(n, a.path)
  <2>1. 0..(m - 1) \subseteq 0..(n - 1)
    OBVIOUS
  <2>2. QED
    BY <2>1 DEF ProperPath, EntryOK, Static
<1>2. QED
  BY <1>1 DEF EntryOK, Static, FromInfo

\* Every entry of the new list stems from one of the old or is an expected link.
Stems ==
  /\ IsList(links')
  /\ \A j \in DOMAIN links' : \/ links'[j] \in expected
                              \/ \E i \in DOMAIN links : Static(links'[j], links[i])

LEMMA StartStems ==
  ASSUME EntriesOK, ReconcileStart
  PROVE  Stems
<1>1. PICK b \in [DOMAIN links -> BOOLEAN] : Marks(links', links, b)
  BY ClearedLinks DEF ReconcileStart, EntriesOK
<1>2. QED
  BY <1>1 DEF Marks, Stems

LEMMA LookUpStems ==
  ASSUME EntriesOK, NEW l \in expected, LookedUp(l)
  PROVE  Stems
<1>1. IsList(links) /\ IsLink(l)
  BY DEF EntriesOK, ExpectedOK, EntryOK
<1>2. CASE links' = links
  BY <1>1, <1>2 DEF Stems, Static
<1>3. CASE links' = Append(links, l)
  <2>1. \A j \in DOMAIN links' : j \in DOMAIN links \/ j = Len(links) + 1
    <3>1. Len(links) \in Nat /\ DOMAIN links = 1..Len(links) /\ DOMAIN links' = 1..(Len(links) + 1)
      BY <1>1, <1>3, AppendList, ListFacts
    <3>2. QED
      BY <3>1
  <2>2. QED
    BY <1>1, <1>3, <2>1, AppendList DEF Stems, Static
<1>4. CASE links' = AddExpected(l, FoundFor(l)) /\ FoundFor(l) # {}
  <2>1. PICK b \in [DOMAIN links -> BOOLEAN] : Marks(links', links, b)
    BY <1>1, <1>4, FoundMarked
  <2>2. QED
    BY <2>1 DEF Marks, Stems
<1>5. QED
  BY <1>2, <1>3, <1>4 DEF LookedUp, AddExpected

\* bpfman does not know the id, and no entry has it.
FreshId(id) == id \in LinkIds \ DOMAIN attached /\ \A j \in DOMAIN links : links[j].id # id

\* bpfman has one more link, for the current entry, or one less.
OneMore(id) ==
  attached' = [x \in DOMAIN attached \cup {id} |-> IF x = id THEN PointOf(cur, links[pos]) ELSE attached[x]]
OneLess(id) == attached' = [x \in DOMAIN attached \ {id} |-> attached[x]]

\* At most one more step has gone wrong, and what went wrong is remembered.
FaultStep ==
  \/ faults' = faults
  \/ /\ faults.count < MaxFaults /\ faults.kinds \subseteq faults'.kinds
     /\ faults' = [count |-> faults.count + 1, kinds |-> faults'.kinds]
     /\ faults'.kinds \ faults.kinds \subseteq Faults

\* A Get has failed or a reply was lost.
Broken == ~Reliable' /\ faults'.count = faults.count + 1

\* What reconcileBpfLink does to a link and to bpfman.
LinkEffect(m) ==
  LET l == links[pos] IN
  /\ AtLink /\ pos \in DOMAIN links /\ LinkVisited(m) /\ IsLink(m) /\ Static(m, l)
  /\ m.should <=> l.should
  /\ FaultStep
  /\ \/ /\ m.id = l.id /\ attached' = attached
        /\ HasLink(l) /\ ~l.should => m.status = "DetachError" \/ Broken
        /\ m.status = "Attached" => HasLink(l)
     \/ /\ l.should /\ (HasLink(l) => Broken) /\ Accepted(cur, l)
        /\ FreshId(m.id) /\ m.status = "Attached" /\ OneMore(m.id)
     \/ HasLink(l) /\ m.id = None /\ m.status = "NotAttached" /\ OneLess(l.id)
     \/ /\ Broken /\ m.id = l.id /\ m.status = "AttachError" /\ l.should
        /\ \E id : FreshId(id) /\ OneMore(id)
     \/ Broken /\ HasLink(l) /\ m.id = l.id /\ m.status = "DetachError" /\ OneLess(l.id)

LEMMA FaultEffect ==
  ASSUME NEW K, Fault(K)
  PROVE  /\ FaultStep
         /\ K \cap {"get", "reply"} # {} => Broken
<1>1. CASE K = {}
  BY <1>1 DEF Fault, FaultStep
<1>2. CASE K # {}
  <2>1. /\ K \subseteq Faults /\ faults.count < MaxFaults
        /\ faults' = [count |-> faults.count + 1, kinds |-> faults.kinds \cup K]
    BY <1>2 DEF Fault
  <2>2. faults'.count = faults.count + 1 /\ faults'.kinds = faults.kinds \cup K
    BY <2>1
  <2>3. QED
    BY <2>1, <2>2 DEF FaultStep, Broken, Reliable
<1>3. QED
  BY <1>1, <1>2

\* What was lost stays lost.
LEMMA FaultsStay ==
  ASSUME FaultStep
  PROVE  (Reliable' => Reliable) /\ (Undisturbed' => Undisturbed)
BY DEF FaultStep, Reliable, Undisturbed

LEMMA LinkWithStatus ==
  ASSUME NEW l, IsLink(l), NEW s \in {"NotAttached", "Attached", "AttachError", "DetachError"}
  PROVE  LET m == [l EXCEPT !.status = s]
         IN  IsLink(m) /\ Static(m, l) /\ m.id = l.id /\ m.status = s /\ m.should = l.should
BY DEF IsLink, Static

Visited(l, id, s) == [l EXCEPT !.id = id, !.status = s]

LEMMA LinkWithBoth ==
  ASSUME NEW l, IsLink(l), NEW s \in {"NotAttached", "Attached", "AttachError", "DetachError"},
         NEW id \in LinkIds \cup {None}
  PROVE  LET m == Visited(l, id, s)
         IN  IsLink(m) /\ Static(m, l) /\ m.id = id /\ m.status = s /\ m.should = l.should
<1> DEFINE k == [l EXCEPT !.id = id]
           m == [k EXCEPT !.status = s]
<1>1. IsLink(k) /\ Static(k, l) /\ k.id = id /\ k.should = l.should
  BY DEF IsLink, Static
<1>2. m = Visited(l, id, s)
  BY DEF Visited
<1> HIDE DEF k
<1>3. IsLink(m) /\ Static(m, k) /\ m.id = id /\ m.status = s /\ m.should = k.should
  BY <1>1 DEF IsLink, Static
<1> HIDE DEF m
<1>4. Static(m, l)
  BY <1>1, <1>3 DEF Static
<1>5. m.should = l.should
  BY <1>1, <1>3
<1>6. QED
  BY <1>2, <1>3, <1>4, <1>5

LEMMA LinkStepEffect ==
  ASSUME BaseInv, reconcileBpfLink
  PROVE  \E m : LinkEffect(m)
<1> DEFINE l == links[pos]
<1>1. AtLink /\ pos \in DOMAIN links /\ IsLink(l)
  <2>1. AtLink
    BY DEF reconcileBpfLink, LinkInPlace, LinkAttach, LinkAttachFails, LinkDetach, LinkDetachFails
  <2>2. pos \in Nat \ {0} /\ pos <= Len(links) /\ IsList(links)
    BY <2>1 DEF AtLink, BaseInv, EntriesOK
  <2>3. pos \in DOMAIN links
    BY <2>2, ListFacts
  <2>4. QED
    BY <2>1, <2>2, <2>3 DEF IsList
<1>2. \A K \in GetCalls(l) : /\ isAttached(l, K) => HasLink(l)
                             /\ HasLink(l) /\ ~isAttached(l, K) => "get" \in K
  BY DEF GetCalls, isAttached
<1>3. CASE LinkInPlace
  <2> DEFINE s == IF l.should THEN "Attached" ELSE "NotAttached"
             m == [l EXCEPT !.status = s]
  <2>1. PICK K \in GetCalls(l) : l.should = isAttached(l, K) /\ Fault(K)
    BY <1>3 DEF LinkInPlace
  <2>2. LinkVisited(m) /\ attached' = attached
    BY <1>3 DEF LinkInPlace
  <2>3. s \in {"NotAttached", "Attached", "AttachError", "DetachError"} /\ (s = "Attached" => l.should)
    OBVIOUS
  <2> HIDE DEF s
  <2>4. IsLink(m) /\ Static(m, l) /\ m.id = l.id /\ m.should = l.should /\ m.status = s
    BY <1>1, <2>3, LinkWithStatus
  <2>5. FaultStep /\ ("get" \in K => Broken)
    BY <2>1, FaultEffect
  <2>6. m.status = "Attached" => HasLink(l)
    BY <1>2, <2>1, <2>3, <2>4, Zenon
  <2>7. HasLink(l) /\ ~l.should => Broken
    BY <1>2, <2>1, <2>5, Zenon
  <2> HIDE DEF m
  <2>8. LinkEffect(m)
    BY <1>1, <2>2, <2>4, <2>5, <2>6, <2>7, Zenon DEF LinkEffect
  <2>9. QED
    BY <2>8
<1>4. ASSUME NEW id \in LinkIds, Attach(id)
      PROVE  FreshId(id) /\ OneMore(id) /\ Accepted(cur, l)
  BY <1>4 DEF Attach, IsNextId, FreshId, OneMore
<1>5. CASE LinkAttach
  <2>1. PICK K \in GetCalls(l) : ~isAttached(l, K) /\ Fault(K)
    BY <1>5 DEF LinkAttach
  <2>2. PICK id \in LinkIds :
          Attach(id) /\ LinkVisited([links[pos] EXCEPT !.id = id, !.status = "Attached"])
    BY <1>5 DEF LinkAttach
  <2> DEFINE m == Visited(l, id, "Attached")
  <2>3. LinkVisited(m) /\ l.should
    BY <1>5, <2>2 DEF LinkAttach, Visited
  <2>4. IsLink(m) /\ Static(m, l) /\ m.id = id /\ m.status = "Attached" /\ m.should = l.should
    BY <1>1, LinkWithBoth
  <2> HIDE DEF m
  <2>5. FreshId(m.id) /\ OneMore(m.id) /\ Accepted(cur, l)
    <3>1. FreshId(id) /\ OneMore(id) /\ Accepted(cur, l)
      BY <1>4, <2>2
    <3>2. QED
      BY <2>4, <3>1, Zenon
  <2>6. FaultStep /\ ("get" \in K => Broken)
    BY <2>1, FaultEffect
  <2>7. HasLink(l) => Broken
    BY <1>2, <2>1, <2>6
  <2>8. LinkEffect(m)
    BY <1>1, <2>3, <2>4, <2>5, <2>6, <2>7, Zenon DEF LinkEffect
  <2>9. QED
    BY <2>8
<1>6. CASE LinkAttachFails
  <2> DEFINE m == [l EXCEPT !.status = "AttachError"]
  <2>1. PICK K \in GetCalls(l) :
          \/ Fault(K) /\ UNCHANGED attached
          \/ Fault(K \cup {"attach"}) /\ UNCHANGED attached
          \/ Fault(K \cup {"reply"}) /\ \E id \in LinkIds : Attach(id)
    BY <1>6 DEF LinkAttachFails
  <2>2. LinkVisited(m) /\ l.should
    BY <1>6 DEF LinkAttachFails
  <2>3. IsLink(m) /\ Static(m, l) /\ m.id = l.id /\ m.should = l.should /\ m.status = "AttachError"
    BY <1>1, LinkWithStatus
  <2>4. m.status # "Attached"
    BY <2>3
  <2> HIDE DEF m
  <2>5. CASE FaultStep /\ UNCHANGED attached
    <3>1. LinkEffect(m)
      BY <1>1, <2>2, <2>3, <2>4, <2>5, Zenon DEF LinkEffect
    <3>2. QED
      BY <3>1
  <2>6. CASE Fault(K \cup {"reply"}) /\ \E id \in LinkIds : Attach(id)
    <3>1. FaultStep /\ Broken
      BY <2>6, FaultEffect
    <3>2. \E id : FreshId(id) /\ OneMore(id)
      BY <1>4, <2>6
    <3>3. LinkEffect(m)
      BY <1>1, <2>2, <2>3, <3>1, <3>2, Zenon DEF LinkEffect
    <3>4. QED
      BY <3>3
  <2>7. QED
    BY <2>1, <2>5, <2>6, FaultEffect
<1>7. CASE LinkDetach
  <2> DEFINE m == Visited(l, None, "NotAttached")
  <2>1. LinkVisited(m) /\ OneLess(l.id) /\ HasLink(l) /\ Fault({})
    BY <1>7 DEF LinkDetach, Visited, Detach, OneLess, isAttached
  <2>2. IsLink(m) /\ Static(m, l) /\ m.id = None /\ m.should = l.should /\ m.status = "NotAttached"
    BY <1>1, LinkWithBoth
  <2>3. FaultStep
    BY <2>1, FaultEffect
  <2> HIDE DEF m
  <2>4. LinkEffect(m)
    BY <1>1, <2>1, <2>2, <2>3, Zenon DEF LinkEffect
  <2>5. QED
    BY <2>4
<1>8. CASE LinkDetachFails
  <2> DEFINE m == [l EXCEPT !.status = "DetachError"]
  <2>1. /\ LinkVisited(m) /\ HasLink(l)
        /\ (Fault({"detach"}) /\ attached' = attached) \/ (Fault({"reply"}) /\ OneLess(l.id))
    BY <1>8 DEF LinkDetachFails, Detach, OneLess, isAttached
  <2>2. IsLink(m) /\ Static(m, l) /\ m.id = l.id /\ m.should = l.should /\ m.status = "DetachError"
    BY <1>1, LinkWithStatus
  <2>3. m.status # "Attached"
    BY <2>2
  <2> HIDE DEF m
  <2>4. FaultStep /\ (attached' = attached \/ (Broken /\ OneLess(l.id)))
    BY <2>1, FaultEffect
  <2>5. LinkEffect(m)
    BY <1>1, <2>1, <2>2, <2>3, <2>4, Zenon DEF LinkEffect
  <2>6. QED
    BY <2>5
<1>9. QED
  BY <1>3, <1>5, <1>6, <1>7, <1>8 DEF reconcileBpfLink

\* What processLinks of any program type does when it has passed every link.
ProcessEffect ==
  /\ pc = "process" /\ pos > Len(links) /\ links' = removeLinks(links) /\ pc' = "idle" /\ pos' = 1
  /\ linkStatus' = IF \A j \in DOMAIN links' : isAttachSuccess(links'[j]) THEN "Success" ELSE "Error"
  /\ UNCHANGED <<spec, nodeVars, attached, cur, expected, cache, dirty, changes, faults>>

LEMMA ProcessLinksEffect ==
  ASSUME processLinks
  PROVE  ProcessEffect
BY DEF processLinks, ProcessEffect, ProcessLinks,
       clXdpProcessLinks, clTcProcessLinks, clTcxProcessLinks, clUprobeProcessLinks,
       clKprobeProcessLinks, clKretprobeProcessLinks, clTracepointProcessLinks,
       clFentryProcessLinks, clFexitProcessLinks, nsXdpProcessLinks, nsTcProcessLinks,
       nsTcxProcessLinks, nsUprobeProcessLinks

\* The node and the user leave the agent alone.
LEMMA OthersLeaveAgent ==
  ASSUME Node \/ \E s \in StoredSpecs : EditLinks(s)
  PROVE  UNCHANGED <<agentVars, attached>> /\ dirty'
BY DEF Node, EditLinks, SchedulePod, StartSandbox, DeletePod, RemoveSandbox, StartContainer, ExitContainer,
       RemoveContainer, InterfaceAdded, InterfaceDeleted, Change

LEMMA ProcessStems ==
  ASSUME EntriesOK, ProcessEffect
  PROVE  Stems
<1> DEFINE kept == {j \in DOMAIN links : ~Unused(links[j])}
<1>1. IsList(links) /\ Len(links) \in Nat /\ DOMAIN links = 1..Len(links)
  BY ListFacts DEF EntriesOK
<1>2. kept \in SUBSET (1..Len(links))
  BY <1>1
<1>3. links' = Keep(links, kept)
  BY DEF ProcessEffect, removeLinks
<1> HIDE DEF kept
<1>4. PICK ord : Reorders(ord, Keep(links, kept), links, kept)
  BY <1>1, <1>2, KeepIsReordering
<1>5. Cardinality(kept) \in Nat
  BY <1>1, <1>2, KeepIsReordering
<1>6. /\ links' = [j \in 1..Cardinality(kept) |-> links'[j]] /\ DOMAIN links' = 1..Cardinality(kept)
      /\ \A j \in 1..Cardinality(kept) : ord[j] \in DOMAIN links /\ links'[j] = links[ord[j]]
  BY <1>1, <1>2, <1>3, <1>4 DEF Reorders
<1>7. \A j \in 1..Cardinality(kept) : IsLink(links'[j])
  BY <1>1, <1>6 DEF IsList
<1>8. IsList(links')
  BY <1>5, <1>6, <1>7, MakeList
<1>9. QED
  BY <1>6, <1>8 DEF Stems, Static

LEMMA VisitStems ==
  ASSUME EntriesOK, NEW m, LinkEffect(m)
  PROVE  Stems
<1>1. /\ IsList(links) /\ Len(links) \in Nat /\ DOMAIN links = 1..Len(links) /\ pos \in DOMAIN links
      /\ IsLink(m) /\ Static(m, links[pos]) /\ links' = [links EXCEPT ![pos] = m]
  BY ListFacts DEF EntriesOK, LinkEffect, LinkVisited
<1>2. DOMAIN links' = 1..Len(links) /\ \A j \in 1..Len(links) : links'[j] = IF j = pos THEN m ELSE links[j]
  BY <1>1
<1>3. links' = [j \in 1..Len(links) |-> links'[j]]
  BY <1>1
<1>4. \A j \in 1..Len(links) : IsLink(links'[j])
  BY <1>1, <1>2 DEF IsList
<1>5. IsList(links')
  BY <1>1, <1>3, <1>4, MakeList
<1>6. QED
  BY <1>1, <1>2, <1>5 DEF Stems, Static

\* Entries that stem from entries stay entries, whatever the node does.
LEMMA EntriesStay ==
  ASSUME BaseInv, NodeOK', CtrsGrow, Stems, expected' \subseteq expected, spec'.type = spec.type
  PROVE  EntriesOK'
<1> DEFINE t == spec.type
<1>1. nextPid \in Nat /\ nextPid' \in Nat /\ nextPid <= nextPid'
  BY DEF BaseInv, NodeOK, CtrsGrow
<1>2. ASSUME NEW l \in expected PROVE EntryOK(t, nextPid', l) /\ l.id = None
  <2>1. EntryOK(t, nextPid, l) /\ l.id = None /\ IsLink(l) /\ Static(l, l)
    BY DEF BaseInv, EntriesOK, ExpectedOK, EntryOK, Static
  <2>2. QED
    BY <1>1, <2>1, EntryStays
<1>3. ASSUME NEW j \in DOMAIN links' PROVE EntryOK(t, nextPid', links'[j])
  <2>1. CASE links'[j] \in expected
    BY <1>2, <2>1
  <2>2. ASSUME NEW i \in DOMAIN links, Static(links'[j], links[i]) PROVE EntryOK(t, nextPid', links'[j])
    <3>1. EntryOK(t, nextPid, links[i]) /\ IsLink(links'[j])
      BY DEF BaseInv, EntriesOK, Stems, IsList
    <3>2. QED
      BY <1>1, <2>2, <3>1, EntryStays
  <2>3. QED
    BY <2>1, <2>2 DEF Stems
<1>4. QED
  BY <1>2, <1>3 DEF EntriesOK, ExpectedOK, Stems

\* The other controller reads a path through the cache or resets it.
OtherEffect ==
  /\ pc = "update"
  /\ UNCHANGED <<spec, nodeVars, links, linkStatus, pc, cur, pos, expected, attached, dirty, changes>>
  /\ FaultStep
  /\ \/ "reset" \in faults'.kinds /\ cache' = NoPaths
     \/ \E x : ProperPath(nextPid, x) /\ cache' = Remember(cache, {x})

LEMMA OtherControllerEffect ==
  ASSUME NodeOK, OtherController
  PROVE  OtherEffect
<1>1. \A x \in Paths : ProperPath(nextPid, x)
  BY DEF Paths, ProperPath, NamedPath, netnsPathFromPID, HostPath, NodeOK
<1>2. ASSUME Fault({"reset"}) PROVE "reset" \in faults'.kinds
  BY <1>2 DEF Fault
<1>3. QED
  BY <1>1, <1>2, FaultEffect DEF OtherController, OtherResets, OtherReads, OtherUses, OtherEffect

LEMMA FaultsGrow ==
  ASSUME BaseInv, [Next]_vars
  PROVE  FaultStep
<1>1. ASSUME faults' = faults \/ \E K : Fault(K) PROVE FaultStep
  BY <1>1, FaultEffect DEF FaultStep
<1>2. CASE updateLinks
  BY <1>2, UpdateLinksEffect DEF UpdateEffect, FaultStep
<1>3. CASE reconcileBpfLink
  BY <1>1, <1>3 DEF reconcileBpfLink, LinkInPlace, LinkAttach, LinkAttachFails, LinkDetach, LinkDetachFails
<1>4. CASE processLinks
  BY <1>4, ProcessLinksEffect DEF ProcessEffect, FaultStep
<1>5. CASE ReconcileStart \/ updateLinksFails \/ updateLinksDone
  BY <1>1, <1>5 DEF ReconcileStart, updateLinksFails, updateLinksDone
<1>6. CASE OtherController
  BY <1>1, <1>6 DEF OtherController, OtherResets, OtherReads
<1>7. CASE Node \/ \E s \in StoredSpecs : EditLinks(s)
  BY <1>1, <1>7 DEF Node, EditLinks, SchedulePod, StartSandbox, DeletePod, RemoveSandbox,
       StartContainer, ExitContainer, RemoveContainer, InterfaceAdded, InterfaceDeleted, Change
<1>8. CASE UNCHANGED vars
  BY <1>1, <1>8 DEF vars
<1>9. QED
  BY <1>2, <1>3, <1>4, <1>5, <1>6, <1>7, <1>8 DEF Next, Reconcile

LEMMA BaseStep ==
  ASSUME BaseInv, [Next]_vars
  PROVE  BaseInv' /\ CtrsGrow
<1>1. NodeOK' /\ CtrsGrow
  <2>1. CASE Node
    BY <2>1, NodeStep DEF BaseInv
  <2>2. ASSUME UNCHANGED nodeVars PROVE NodeOK' /\ CtrsGrow
    BY <2>2, NodeLeftAlone DEF BaseInv
  <2>3. CASE updateLinks
    BY <2>2, <2>3, UpdateLinksEffect DEF UpdateEffect
  <2>4. CASE reconcileBpfLink
    BY <2>2, <2>4, LinkStepEffect DEF LinkEffect, LinkVisited
  <2>5. CASE processLinks
    BY <2>2, <2>5, ProcessLinksEffect DEF ProcessEffect
  <2>6. CASE ReconcileStart \/ updateLinksFails \/ updateLinksDone
    BY <2>2, <2>6 DEF ReconcileStart, updateLinksFails, updateLinksDone
  <2>7. CASE OtherController
    BY <2>2, <2>7 DEF OtherController, OtherResets, OtherReads, OtherUses
  <2>8. CASE \E s \in StoredSpecs : EditLinks(s)
    BY <2>2, <2>8 DEF EditLinks
  <2>9. CASE UNCHANGED vars
    BY <2>2, <2>9 DEF vars
  <2>10. QED
    BY <2>1, <2>3, <2>4, <2>5, <2>6, <2>7, <2>8, <2>9 DEF Next, Reconcile
<1>2. KindOK /\ EntriesOK /\ pos \in Nat \ {0} /\ IsList(links)
  BY DEF BaseInv, EntriesOK
<1>3. links' = links => Stems
  BY <1>2 DEF Stems, Static
<1>4. CASE ReconcileStart
  <2>1. KindOK' /\ spec' = spec /\ expected' = {} /\ pos' = 1
    BY <1>2, <1>4 DEF ReconcileStart, KindOK
  <2>2. QED
    BY <1>1, <1>2, <1>4, <2>1, StartStems, EntriesStay DEF BaseInv
<1>5. CASE updateLinks
  <2>1. UpdateEffect
    BY <1>5, UpdateLinksEffect
  <2>2. spec' = spec /\ cur' = cur /\ KindOK'
    BY <1>2, <2>1 DEF UpdateEffect, KindOK
  <2>3. CASE Expanded
    <3>1. pos' \in Nat \ {0}
      BY <1>2, <2>3 DEF Expanded
    <3>2. nextPid' = nextPid /\ links' = links /\ ExpectedOK(spec.type, expected')
      <4>1. ExpectedOK(cur.type, expected')
        BY <1>2, <2>3, ExpansionsAreEntries DEF Expanded, KindOK, BaseInv
      <4>2. QED
        BY <1>2, <2>1, <2>3, <4>1 DEF UpdateEffect, nodeVars, Expanded, KindOK
    <3>3. EntriesOK'
      BY <1>2, <2>2, <3>2 DEF EntriesOK, ExpectedOK
    <3>4. QED
      BY <1>1, <2>2, <3>1, <3>3 DEF BaseInv
  <2>4. ASSUME NEW l \in expected, LookedUp(l) PROVE BaseInv'
    <3>1. expected' \subseteq expected /\ pos' = pos
      BY <2>4 DEF LookedUp
    <3>2. EntriesOK'
      BY <1>1, <1>2, <2>2, <2>4, <3>1, LookUpStems, EntriesStay
    <3>3. QED
      BY <1>1, <1>2, <2>2, <3>1, <3>2 DEF BaseInv
  <2>5. QED
    BY <1>1, <2>1, <2>3, <2>4 DEF UpdateEffect
<1>6. CASE updateLinksFails \/ updateLinksDone
  <2>1. KindOK' /\ spec' = spec /\ expected' = expected /\ pos' = 1 /\ links' = links
    BY <1>2, <1>6 DEF updateLinksFails, updateLinksDone, KindOK
  <2>2. QED
    BY <1>1, <1>3, <2>1, EntriesStay DEF BaseInv
<1>7. CASE reconcileBpfLink
  <2>1. PICK m : LinkEffect(m)
    BY <1>7, LinkStepEffect
  <2>2. KindOK' /\ spec' = spec /\ expected' = expected /\ pos' = pos + 1
    BY <1>2, <2>1 DEF LinkEffect, LinkVisited, KindOK
  <2>3. EntriesOK'
    BY <1>1, <1>2, <2>1, <2>2, VisitStems, EntriesStay
  <2>4. pos' \in Nat \ {0}
    BY <1>2, <2>2
  <2>5. QED
    BY <1>1, <2>2, <2>3, <2>4 DEF BaseInv
<1>8. CASE processLinks
  <2>1. ProcessEffect
    BY <1>8, ProcessLinksEffect
  <2>2. KindOK' /\ spec' = spec /\ expected' = expected /\ pos' = 1
    BY <1>2, <2>1 DEF ProcessEffect, KindOK
  <2>3. QED
    BY <1>1, <1>2, <2>1, <2>2, ProcessStems, EntriesStay DEF BaseInv
<1>9. CASE Node
  <2>1. UNCHANGED <<agentVars, attached>> /\ spec' = spec
    BY <1>9, OthersLeaveAgent
       DEF Node, SchedulePod, StartSandbox, DeletePod, RemoveSandbox, StartContainer, ExitContainer,
           RemoveContainer, InterfaceAdded, InterfaceDeleted
  <2>2. KindOK' /\ expected' = expected /\ pos' = pos /\ links' = links
    BY <1>2, <2>1 DEF agentVars, KindOK
  <2>3. QED
    BY <1>1, <1>2, <1>3, <2>1, <2>2, EntriesStay DEF BaseInv
<1>10. CASE \E s \in StoredSpecs : EditLinks(s)
  <2>1. UNCHANGED <<agentVars, attached>>
    BY <1>10, OthersLeaveAgent
  <2>2. PICK s \in StoredSpecs : EditLinks(s)
    BY <1>10
  <2>3. KindOK' /\ spec'.type = spec.type /\ expected' = expected /\ pos' = pos /\ links' = links
    BY <1>2, <2>1, <2>2 DEF agentVars, KindOK, EditLinks
  <2>4. QED
    BY <1>1, <1>2, <1>3, <2>3, EntriesStay DEF BaseInv
<1>11. CASE UNCHANGED vars
  <2>1. spec' = spec /\ KindOK' /\ expected' = expected /\ pos' = pos /\ links' = links
    BY <1>2, <1>11 DEF vars, agentVars, KindOK
  <2>2. QED
    BY <1>1, <1>2, <1>3, <2>1, EntriesStay DEF BaseInv
<1>12. CASE OtherController
  <2>1. spec' = spec /\ KindOK' /\ expected' = expected /\ pos' = pos /\ links' = links
    BY <1>2, <1>12, OtherControllerEffect DEF BaseInv, OtherEffect, KindOK
  <2>2. QED
    BY <1>1, <1>2, <1>3, <2>1, EntriesStay DEF BaseInv
<1>13. QED
  BY <1>1, <1>4, <1>5, <1>6, <1>7, <1>8, <1>9, <1>10, <1>11, <1>12 DEF Next, Reconcile

(***************************************************************************)
(* The steps.                                                              *)
(***************************************************************************)
LEMMA StartRecords ==
  ASSUME Init
  PROVE  RecordInv
<1>1. IsList(links) /\ DOMAIN links = {}
  <2>1. links = [j \in 1..0 |-> links[j]] /\ \A j \in 1..0 : IsLink(links[j])
    BY DEF Init
  <2>2. IsList(links) /\ DOMAIN links = 1..0
    BY <2>1, MakeList
  <2>3. QED
    BY <2>2
<1>2. DOMAIN attached = {} /\ expected = {} /\ pc = "idle"
  BY DEF Init
<1>3. QED
  BY <1>1, <1>2 DEF RecordInv, Matches, Distinct

LEMMA ReconcileStartRecords ==
  ASSUME RecordInv, ReconcileStart, Reliable' => Reliable
  PROVE  RecordInv'
<1>1. IsList(links) /\ (Reliable => Matches(links, DOMAIN attached)) /\ Distinct(links)
  BY DEF RecordInv
<1>2. links' = ClearShouldAttach(links) /\ pc' = "update" /\ expected' = {} /\ attached' = attached
  BY DEF ReconcileStart
<1>3. PICK b \in [DOMAIN links -> BOOLEAN] : Marks(links', links, b)
  BY <1>1, <1>2, ClearedLinks
<1>4. IsList(links') /\ (Reliable => Matches(links', DOMAIN attached)) /\ Distinct(links')
  BY <1>1, <1>3, MarksMatch DEF Marks
<1>5. QED
  BY <1>2, <1>4 DEF RecordInv

LEMMA UpdateRecords ==
  ASSUME RecordInv, BaseInv, UpdateEffect, Reliable' => Reliable
  PROVE  RecordInv'
<1>1. IsList(links) /\ (Reliable => Matches(links, DOMAIN attached)) /\ Distinct(links)
  BY DEF RecordInv
<1>2. pc' = "update" /\ attached' = attached
  BY DEF UpdateEffect
<1>3. CASE Expanded
  <2>1. \A l \in expected' : IsNew(l)
    <3>1. ExpectedOK(cur.type, expected')
      BY <1>3, ExpansionsAreEntries DEF Expanded, KindOK, BaseInv
    <3>2. QED
      BY <3>1 DEF ExpectedOK, EntryOK, IsNew
  <2>2. QED
    BY <1>1, <1>2, <1>3, <2>1 DEF Expanded, RecordInv
<1>4. ASSUME NEW l \in expected, LookedUp(l)
      PROVE  RecordInv'
  <2>1. IsNew(l) /\ \A m \in expected' : IsNew(m)
    BY <1>4 DEF LookedUp, RecordInv
  <2>2. IsList(links') /\ (Reliable => Matches(links', DOMAIN attached)) /\ Distinct(links')
    BY <1>1, <1>4, <2>1, ExpectedAdded DEF LookedUp
  <2>3. QED
    BY <1>2, <2>1, <2>2 DEF RecordInv
<1>5. QED
  BY <1>3, <1>4 DEF UpdateEffect

LEMMA UpdateEndRecords ==
  ASSUME RecordInv, updateLinksFails \/ updateLinksDone, Reliable' => Reliable
  PROVE  RecordInv'
<1>1. IsList(links) /\ Len(links) \in Nat /\ DOMAIN links = 1..Len(links)
  BY ListFacts DEF RecordInv
<1>2. UNCHANGED <<links, expected, attached>>
  BY DEF updateLinksFails, updateLinksDone
<1>3. CASE pc' = "idle"
  BY <1>2, <1>3 DEF RecordInv
<1>4. CASE pc' = "process" /\ pos' = 1
  <2>1. \A j \in DOMAIN links : ~(j < 1)
    BY <1>1
  <2>2. PassedOK'
    BY <1>2, <1>4, <2>1 DEF PassedOK
  <2>3. QED
    BY <1>2, <1>4, <2>2 DEF RecordInv
<1>5. QED
  BY <1>3, <1>4 DEF updateLinksFails, updateLinksDone

\* An entry is replaced by one whose id bpfman knows.
LEMMA VisitedRecords ==
  ASSUME RecordInv, AtLink, NEW l, IsLink(l), LinkVisited(l), Reliable' => Reliable,
         DOMAIN attached' \subseteq LinkIds, Distinct(links'),
         Reliable' => Matches(links', DOMAIN attached') /\ (Unused(l) => l.id = None)
  PROVE  RecordInv'
<1>1. IsList(links) /\ Len(links) \in Nat /\ DOMAIN links = 1..Len(links) /\ pos \in Nat /\ PassedOK
      /\ pc = "process" /\ \A m \in expected : IsNew(m)
  BY ListFacts DEF RecordInv, AtLink
<1>2. links' = [links EXCEPT ![pos] = l] /\ pos' = pos + 1 /\ pc' = pc /\ expected' = expected
  BY DEF LinkVisited
<1>3. DOMAIN links' = DOMAIN links /\ \A j \in DOMAIN links : links'[j] = IF j = pos THEN l ELSE links[j]
  BY <1>1, <1>2
<1>4. IsList(links')
  <2>1. \A j \in 1..Len(links) : IsLink(links'[j])
    BY <1>1, <1>3 DEF IsList
  <2>2. links' = [j \in 1..Len(links) |-> links'[j]]
    BY <1>1, <1>2
  <2>3. QED
    BY <1>1, <2>1, <2>2, MakeList
<1>5. PassedOK'
  <2>1. ASSUME Reliable', NEW j \in DOMAIN links, j < pos + 1, Unused(links'[j])
        PROVE  links'[j].id = None
    <3>1. CASE j = pos
      BY <1>3, <2>1, <3>1
    <3>2. CASE j # pos
      <4>1. j < pos /\ links'[j] = links[j]
        BY <1>1, <1>3, <2>1, <3>2
      <4>2. QED
        BY <1>1, <2>1, <4>1 DEF PassedOK
    <3>3. QED
      BY <3>1, <3>2
  <2>2. QED
    BY <1>2, <1>3, <2>1 DEF PassedOK
<1>6. pos + 1 \in Nat \ {0}
  BY <1>1
<1>7. QED
  BY <1>1, <1>2, <1>4, <1>5, <1>6 DEF RecordInv

LEMMA LinkStepRecords ==
  ASSUME RecordInv, NEW m, LinkEffect(m)
  PROVE  RecordInv'
<1> DEFINE l == links[pos]
           D == DOMAIN attached
<1>1. /\ AtLink /\ pos \in DOMAIN links /\ LinkVisited(m) /\ IsLink(m)
      /\ Distinct(links) /\ D \subseteq LinkIds /\ None \notin LinkIds
  BY BpfLinksAssumption DEF LinkEffect, RecordInv
<1>2. DOMAIN links' = DOMAIN links
        /\ \A j \in DOMAIN links : links'[j].id = IF j = pos THEN m.id ELSE links[j].id
  BY <1>1 DEF LinkVisited
<1>3. /\ Reliable' => Reliable /\ Matches(links, D) /\ (l.id # None <=> HasLink(l))
      /\ Reliable' => ~Broken
  <2>1. Reliable' => Reliable
    BY FaultsStay DEF LinkEffect
  <2>2. Reliable => Matches(links, D)
    BY DEF RecordInv
  <2>3. Matches(links, D) => (l.id # None <=> HasLink(l))
    BY <1>1 DEF Matches, HasLink
  <2>4. QED
    BY <2>1, <2>2, <2>3 DEF Broken
<1>4. CASE m.id = l.id /\ attached' = attached /\ (HasLink(l)
        /\ ~l.should => m.status = "DetachError" \/ Broken)
  <2>1. (Matches(links, D) => Matches(links', D)) /\ Distinct(links')
    BY <1>1, <1>2, <1>4, SameIds
  <2>2. Reliable' /\ Unused(m) => m.id = None
    <3>1. Unused(m) => ~l.should /\ m.status = "NotAttached"
      BY Zenon DEF Unused, LinkEffect
    <3>2. QED
      BY <1>3, <1>4, <3>1
  <2>3. QED
    BY <1>1, <1>3, <1>4, <2>1, <2>2, VisitedRecords
<1>5. CASE (HasLink(l) => Broken) /\ FreshId(m.id) /\ m.status = "Attached" /\ OneMore(m.id)
  <2>1. DOMAIN attached' = D \cup {m.id} /\ m.id \in LinkIds
    BY <1>5 DEF OneMore, FreshId
  <2>2. Reliable' => Matches(links', D \cup {m.id})
    BY <1>1, <1>2, <1>3, <1>5 DEF Matches, FreshId
  <2>3. Distinct(links')
    BY <1>1, <1>2, <1>5 DEF Distinct, FreshId
  <2>4. ~Unused(m)
    BY <1>5 DEF Unused
  <2>5. QED
    BY <1>1, <1>3, <1>5, <2>1, <2>2, <2>3, <2>4, VisitedRecords
<1>6. CASE HasLink(l) /\ m.id = None /\ OneLess(l.id)
  <2>1. DOMAIN attached' = D \ {l.id}
    BY <1>6 DEF OneLess
  <2>2. Reliable' => Matches(links', D \ {l.id})
    BY <1>1, <1>2, <1>3, <1>6 DEF Matches, Distinct
  <2>3. Distinct(links')
    BY <1>1, <1>2, <1>6 DEF Distinct
  <2>4. QED
    BY <1>1, <1>3, <1>6, <2>1, <2>2, <2>3, VisitedRecords
<1>7. ASSUME Broken, m.id = l.id, DOMAIN attached' \subseteq LinkIds
      PROVE  RecordInv'
  <2>1. Distinct(links')
    BY <1>1, <1>2, <1>7, SameIds
  <2>2. QED
    BY <1>1, <1>3, <1>7, <2>1, VisitedRecords
<1>8. CASE Broken /\ m.id = l.id /\ \E id : FreshId(id) /\ OneMore(id)
  <2>1. DOMAIN attached' \subseteq LinkIds
    BY <1>1, <1>8 DEF OneMore, FreshId
  <2>2. QED
    BY <1>7, <1>8, <2>1
<1>9. CASE Broken /\ m.id = l.id /\ OneLess(l.id)
  <2>1. DOMAIN attached' \subseteq LinkIds
    BY <1>1, <1>9 DEF OneLess
  <2>2. QED
    BY <1>7, <1>9, <2>1
<1>10. QED
  BY <1>4, <1>5, <1>6, <1>8, <1>9 DEF LinkEffect

LEMMA ProcessRecords ==
  ASSUME RecordInv, ProcessEffect, Reliable' => Reliable
  PROVE  RecordInv'
<1>1. /\ IsList(links) /\ Len(links) \in Nat /\ DOMAIN links = 1..Len(links) /\ pos \in Nat /\ PassedOK
      /\ Distinct(links) /\ DOMAIN attached \subseteq LinkIds /\ pos > Len(links)
      /\ Reliable => Matches(links, DOMAIN attached)
  BY ListFacts DEF RecordInv, ProcessEffect
<1>2. None \notin DOMAIN attached
  BY <1>1, BpfLinksAssumption
<1>3. Reliable => \A j \in DOMAIN links : Unused(links[j]) => links[j].id = None
  <2>1. \A j \in 1..Len(links) : j < pos
    BY <1>1
  <2>2. QED
    BY <1>1, <2>1 DEF PassedOK
<1>4. /\ IsList(removeLinks(links)) /\ Distinct(removeLinks(links))
      /\ Reliable => Matches(removeLinks(links), DOMAIN attached)
  BY <1>1, <1>2, <1>3, RemovedLinks
<1>5. QED
  BY <1>4 DEF RecordInv, ProcessEffect

\* The recorded list is kept in step with bpfman by every action.
LEMMA StepRecords ==
  ASSUME RecordInv, BaseInv, [Next]_vars
  PROVE  RecordInv'
<1>0. Reliable' => Reliable
  BY FaultsGrow, FaultsStay
<1>1. CASE ReconcileStart
  BY <1>0, <1>1, ReconcileStartRecords
<1>2. CASE updateLinks
  BY <1>0, <1>2, UpdateLinksEffect, UpdateRecords
<1>3. CASE updateLinksFails \/ updateLinksDone
  BY <1>0, <1>3, UpdateEndRecords
<1>4. CASE reconcileBpfLink
  BY <1>4, LinkStepEffect, LinkStepRecords
<1>5. CASE processLinks
  BY <1>0, <1>5, ProcessLinksEffect, ProcessRecords
<1>6. ASSUME UNCHANGED <<agentVars, attached>>
      PROVE  RecordInv'
  BY <1>0, <1>6 DEF agentVars, RecordInv, PassedOK
<1>7. CASE Node \/ \E s \in StoredSpecs : EditLinks(s)
  BY <1>6, <1>7, OthersLeaveAgent
<1>8. CASE OtherController
  BY <1>0, <1>8, OtherControllerEffect DEF BaseInv, OtherEffect, RecordInv, PassedOK
<1>9. CASE UNCHANGED vars
  BY <1>6, <1>9 DEF vars
<1>10. QED
  BY <1>1, <1>2, <1>3, <1>4, <1>5, <1>7, <1>8, <1>9 DEF Next, Reconcile

(***************************************************************************)
(* Attach points.                                                          *)
(***************************************************************************)
ProgramTypeSet == NetTypes \cup UprobeTypes \cup {"kprobe", "kretprobe", "tracepoint", "fentry", "fexit"}

LEMMA StoredType ==
  ASSUME NEW s \in StoredSpecs
  PROVE  s.type \in ProgramTypeSet /\ (s.type \notin NetTypes \cup UprobeTypes => s.scope = "cluster")
<1>1. PICK r \in Specs : Admitted(r) /\ s.type = r.type /\ s.scope = r.scope
  BY StoredFacts
<1>2. r.type \in ProgramTypeSet
  BY <1>1 DEF Admitted, ClBpfApplicationProgram, BpfApplicationProgram, ProgramTypeSet, NetTypes, UprobeTypes
<1>3. r.type \notin NetTypes \cup UprobeTypes => r.scope = "cluster"
  BY <1>1 DEF Admitted, BpfApplicationProgram, NetTypes, UprobeTypes
<1>4. QED
  BY <1>1, <1>2, <1>3

\* Where entry l of a program of type t is attached, when it is.
AtOf(tgt, t, l) ==
  IF t \in NetTypes THEN Target(tgt, l.path)
  ELSE IF l.containerPid = None THEN Host ELSE l.containerPid

\* What entry l does there.
Does(s, l) == Behaviour(getProgramLoadInfo(s), getAttachRequest(s, l))

\* The requests of network types, of user space probes and of the others.
LEMMA NetRequest ==
  ASSUME NEW s, NEW l, s.type \in NetTypes
  PROVE  \E p : /\ p = l.path \/ (p = None /\ l.path = HostPath)
                /\ s.type = "xdp" => getAttachRequest(s, l) = xdpInfo(l, p)
                /\ s.type = "tc"  => getAttachRequest(s, l) = tcInfo(l, p)
                /\ s.type = "tcx" => getAttachRequest(s, l) = tcxInfo(l, p)
BY DEF NetTypes, getAttachRequest, clXdpAttachRequest, clTcAttachRequest, clTcxAttachRequest,
       nsXdpAttachRequest, nsTcAttachRequest, nsTcxAttachRequest, netnsOrNil

LEMMA UprobeRequest ==
  ASSUME NEW s, NEW l, s.type \in UprobeTypes
  PROVE  getAttachRequest(s, l) = uprobeInfo(l)
BY DEF UprobeTypes, getAttachRequest, clUprobeAttachRequest, nsUprobeAttachRequest

LEMMA KernelRequest ==
  ASSUME NEW s, NEW l
  PROVE  /\ s.type = "kprobe" => getAttachRequest(s, l) =
              [info |-> "Kprobe", function |-> l.attrs.function, offset |-> l.attrs.offset]
         /\ s.type = "kretprobe" => getAttachRequest(s, l) =
              [info |-> "Kprobe", function |-> l.attrs.function, offset |-> 0]
         /\ s.type = "tracepoint" => getAttachRequest(s, l) = [info |-> "Tracepoint",
              tracepoint |-> l.attrs.name]
         /\ s.type = "fentry" => getAttachRequest(s, l) = [info |-> "Fentry"]
         /\ s.type = "fexit" => getAttachRequest(s, l) = [info |-> "Fexit"]
BY DEF getAttachRequest, clKprobeAttachRequest, clKretprobeAttachRequest, clTracepointAttachRequest,
       clFentryAttachRequest, clFexitAttachRequest

\* bpfman resolves the path of the entry, or finds its process.
LEMMA NetPlace ==
  ASSUME NodeOK, NEW s, NEW l, s.type \in NetTypes, ProperPath(nextPid, l.path)
  PROVE  Place(getAttachRequest(s, l)) = Stat(l.path)
<1> DEFINE req == getAttachRequest(s, l)
<1>1. PICK p : /\ p = l.path \/ (p = None /\ l.path = HostPath)
               /\ s.type = "xdp" => req = xdpInfo(l, p)
               /\ s.type = "tc"  => req = tcInfo(l, p)
               /\ s.type = "tcx" => req = tcxInfo(l, p)
  BY NetRequest
<1>2. "netns" \in DOMAIN req /\ "containerPid" \notin DOMAIN req /\ req.netns = p
  BY <1>1 DEF NetTypes, xdpInfo, tcInfo, tcxInfo
<1> HIDE DEF req
<1>3. Place(req) = IF p = None THEN Host ELSE Stat(p)
  BY <1>2 DEF Place
<1>4. p = None => l.path = HostPath
  <2>1. CASE l.path = HostPath
    BY <2>1
  <2>2. CASE l.path # HostPath
    <3>1. l.path \in {"ns", "pid"} \X (Nat \cup {key.netns : key \in IfaceKeys})
      <4>1. \A n \in 0..(nextPid - 1) : n \in Nat
        BY DEF NodeOK
      <4>2. QED
        BY <2>2, <4>1 DEF ProperPath
    <3>2. QED
      BY <1>1, <2>2, <3>1, BpfLinksAssumption
  <2>3. QED
    BY <2>1, <2>2
<1>5. QED
  BY <1>1, <1>3, <1>4, StatOf DEF req

LEMMA ProbePlace ==
  ASSUME NEW s, NEW l, s.type \in ProgramTypeSet \ NetTypes, l.containerPid = None \/ s.type \in UprobeTypes
  PROVE  Place(getAttachRequest(s, l)) \in {None, IF l.containerPid = None THEN Host ELSE l.containerPid}
<1> DEFINE req == getAttachRequest(s, l)
<1>1. CASE s.type \in UprobeTypes
  <2>1. req = uprobeInfo(l)
    BY <1>1, UprobeRequest
  <2>2. "netns" \notin DOMAIN req /\ "containerPid" \in DOMAIN req /\ req.containerPid = l.containerPid
    BY <2>1 DEF uprobeInfo
  <2> HIDE DEF req
  <2>3. Place(req) = IF req.containerPid = None THEN Host ELSE
                     IF Running(req.containerPid) THEN req.containerPid ELSE None
    BY <2>2 DEF Place
  <2>4. QED
    BY <2>2, <2>3 DEF req
<1>2. CASE s.type \notin UprobeTypes
  <2>1. s.type \in {"kprobe", "kretprobe", "tracepoint", "fentry", "fexit"}
    BY <1>2 DEF ProgramTypeSet
  <2>2. "netns" \notin DOMAIN req /\ "containerPid" \notin DOMAIN req
    BY <2>1, KernelRequest
  <2> HIDE DEF req
  <2>3. Place(req) = Host
    BY <2>2 DEF Place
  <2>4. QED
    BY <1>2, <2>3 DEF req
<1>3. QED
  BY <1>1, <1>2

LEMMA AcceptedPlace ==
  ASSUME NodeOK, NEW tgt, Tells(tgt), NEW s \in StoredSpecs, NEW l, EntryOK(s.type, nextPid, l), Accepted(s, l)
  PROVE  /\ PointOf(s, l) = [at |-> AtOf(tgt, s.type, l), does |-> Does(s, l)]
         /\ s.type \in NetTypes => Rev(l.path)
<1> DEFINE pl == Place(getAttachRequest(s, l))
<1>1. pl # None
  BY DEF Accepted
<1>2. PointOf(s, l) = [at |-> pl, does |-> Does(s, l)]
  BY DEF PointOf, Does
<1> HIDE DEF pl
<1>3. CASE s.type \in NetTypes
  <2>1. ProperPath(nextPid, l.path) /\ pl = Stat(l.path)
    BY <1>3, NetPlace DEF EntryOK, pl
  <2>2. pl = Target(tgt, l.path) /\ Rev(l.path)
    BY <1>1, <2>1, StatIsTarget
  <2>3. QED
    BY <1>2, <1>3, <2>2 DEF AtOf
<1>4. CASE s.type \notin NetTypes
  <2>1. s.type \in ProgramTypeSet \ NetTypes /\ (l.containerPid = None \/ s.type \in UprobeTypes)
    BY <1>4, StoredType DEF EntryOK
  <2>2. pl = IF l.containerPid = None THEN Host ELSE l.containerPid
    BY <1>1, <2>1, ProbePlace DEF pl
  <2>3. QED
    BY <1>2, <1>4, <2>2 DEF AtOf
<1>5. QED
  BY <1>3, <1>4

\* What an entry does depends on the kind of the program and on the entry's
\* interface and parameters.
LEMMA DoesStays ==
  ASSUME NEW s, NEW r, s.type = r.type, s.scope = r.scope, s.function = r.function,
         NEW a, NEW b, Static(a, b)
  PROVE  Does(s, a) = Does(r, b)
<1>1. getProgramLoadInfo(s) = getProgramLoadInfo(r)
  BY DEF getProgramLoadInfo, getProgramReconciler
<1>2. getAttachRequest(s, a) = getAttachRequest(r, b)
  <2>1. xdpInfo(a, a.path) = xdpInfo(b, b.path) /\ xdpInfo(a, netnsOrNil(a)) = xdpInfo(b, netnsOrNil(b))
    BY DEF Static, xdpInfo, netnsOrNil
  <2>2. tcInfo(a, a.path) = tcInfo(b, b.path) /\ tcInfo(a, netnsOrNil(a)) = tcInfo(b, netnsOrNil(b))
    BY DEF Static, tcInfo, netnsOrNil
  <2>3. tcxInfo(a, a.path) = tcxInfo(b, b.path) /\ tcxInfo(a, netnsOrNil(a)) = tcxInfo(b, netnsOrNil(b))
    BY DEF Static, tcxInfo, netnsOrNil
  <2>4. uprobeInfo(a) = uprobeInfo(b)
    BY DEF Static, uprobeInfo
  <2>5. QED
    BY <2>1, <2>2, <2>3, <2>4
       DEF Static, getAttachRequest, clXdpAttachRequest, clTcAttachRequest, clTcxAttachRequest,
         clUprobeAttachRequest,
           nsXdpAttachRequest, nsTcAttachRequest, nsTcxAttachRequest, nsUprobeAttachRequest,
             clKprobeAttachRequest,
           clKretprobeAttachRequest, clTracepointAttachRequest, clFentryAttachRequest, clFexitAttachRequest
<1>3. QED
  BY <1>1, <1>2 DEF Does

\* The directions bpfman knows are told apart.
LEMMA DirectionsDiffer ==
  ASSUME NEW d \in TCDirectionType, NEW e \in TCDirectionType,
         Directions[directionToStr(d)] = Directions[directionToStr(e)]
  PROVE  d = e
<1>1. directionToStr("Ingress") = "ingress" /\ directionToStr("Egress") = "egress"
  BY DEF directionToStr
<1>2. Directions["ingress"] = "Ingress" /\ Directions["egress"] = "Egress"
  BY DEF Directions
<1>3. QED
  BY <1>1, <1>2 DEF TCDirectionType

\* The API server leaves the direction as it is, and admits two.
LEMMA StoredDirection ==
  ASSUME NEW s \in StoredSpecs, s.type \in {"tc", "tcx"}, NEW j \in DOMAIN s.links
  PROVE  s.links[j].attrs.direction \in TCDirectionType
<1>1. PICK r \in Specs : /\ Admitted(r) /\ s.type = r.type /\ s.scope = r.scope
                            /\ DOMAIN s.links = DOMAIN r.links
                         /\ \A k \in DOMAIN s.links : Fills(s.type, s.links[k], r.links[k])
  BY StoredLinks
<1> DEFINE ai == r.links[j]
<1>2. IsAttachInfo(s.type, ai) /\ s.links[j].attrs = FilledAttrs(s.type, ai.attrs)
  <2>1. Fills(s.type, s.links[j], ai)
    BY <1>1
  <2> HIDE DEF ai
  <2>2. QED
    BY <2>1 DEF Fills
<1>3. ai.attrs.direction \in TCDirectionType
  <2>1. CASE r.type = "tc"
    BY <1>1, <2>1 DEF Admitted, ClBpfApplicationProgram, BpfApplicationProgram, AllLinks, ClTcAttachInfo,
                      TcAttachInfo, tcMarkers, UprobeTypes
  <2>2. CASE r.type = "tcx"
    BY <1>1, <2>2 DEF Admitted, ClBpfApplicationProgram, BpfApplicationProgram, AllLinks, ClTcxAttachInfo,
                      TcxAttachInfo, tcxMarkers, UprobeTypes
  <2>3. QED
    BY <1>1, <2>1, <2>2
<1>4. {"priority", "proceedOn", "direction"} \subseteq DOMAIN ai.attrs
  BY <1>2 DEF IsAttachInfo, NetTypes
<1>5. tcDefaults(ai.attrs).direction = ai.attrs.direction
  BY <1>4 DEF tcDefaults
<1>6. FilledAttrs(s.type, ai.attrs) \in {tcDefaults(ai.attrs), ai.attrs}
  BY DEF FilledAttrs
<1>7. QED
  BY <1>2, <1>3, <1>5, <1>6

\* What the link of each type does, in terms of its fields.
LEMMA xdpBehaviour ==
  ASSUME NEW s, NEW l, s.type = "xdp"
  PROVE  Does(s, l) = [iface |-> l.iface, priority |-> l.attrs.priority,
                                proceedOn |-> {XdpActions[n] : n \in Range(xdpProceedOnToInt(l.attrs.proceedOn))}]
<1>1. PICK p : getAttachRequest(s, l) = xdpInfo(l, p)
  BY NetRequest DEF NetTypes
<1> DEFINE req == xdpInfo(l, p)
<1>2. /\ req.info = "Xdp" /\ req.iface = l.iface /\ req.priority = l.attrs.priority
      /\ req.proceedOn = xdpProceedOnToInt(l.attrs.proceedOn)
  BY DEF xdpInfo
<1> HIDE DEF req
<1>3. Behaviour(getProgramLoadInfo(s), req) =
        [iface |-> req.iface, priority |-> req.priority,
         proceedOn |-> {XdpActions[n] : n \in Range(req.proceedOn)}]
  BY <1>2 DEF Behaviour
<1>4. QED
  BY <1>1, <1>2, <1>3 DEF Does, req

LEMMA tcBehaviour ==
  ASSUME NEW s, NEW l, s.type = "tc"
  PROVE  Does(s, l) = [iface |-> l.iface, priority |-> l.attrs.priority,
                                direction |-> Directions[directionToStr(l.attrs.direction)],
                                proceedOn |-> {TcActions[n] : n \in Range(tcProceedOnToInt(l.attrs.proceedOn))}]
<1>1. PICK p : getAttachRequest(s, l) = tcInfo(l, p)
  BY NetRequest DEF NetTypes
<1> DEFINE req == tcInfo(l, p)
<1>2. /\ req.info = "Tc" /\ req.iface = l.iface /\ req.priority = l.attrs.priority
      /\ req.direction = directionToStr(l.attrs.direction)
      /\ req.proceedOn = tcProceedOnToInt(l.attrs.proceedOn)
  BY DEF tcInfo
<1> HIDE DEF req
<1>3. Behaviour(getProgramLoadInfo(s), req) =
        [iface |-> req.iface, priority |-> req.priority, direction |-> Directions[req.direction],
         proceedOn |-> {TcActions[n] : n \in Range(req.proceedOn)}]
  BY <1>2 DEF Behaviour
<1>4. QED
  BY <1>1, <1>2, <1>3 DEF Does, req

LEMMA tcxBehaviour ==
  ASSUME NEW s, NEW l, s.type = "tcx"
  PROVE  Does(s, l) = [iface |-> l.iface, priority |-> l.attrs.priority,
                                direction |-> Directions[directionToStr(l.attrs.direction)]]
<1>1. PICK p : getAttachRequest(s, l) = tcxInfo(l, p)
  BY NetRequest DEF NetTypes
<1> DEFINE req == tcxInfo(l, p)
<1>2. /\ req.info = "Tcx" /\ req.iface = l.iface /\ req.priority = l.attrs.priority
      /\ req.direction = directionToStr(l.attrs.direction)
  BY DEF tcxInfo
<1> HIDE DEF req
<1>3. Behaviour(getProgramLoadInfo(s), req) =
        [iface |-> req.iface, priority |-> req.priority, direction |-> Directions[req.direction]]
  BY <1>2 DEF Behaviour
<1>4. QED
  BY <1>1, <1>2, <1>3 DEF Does, req

LEMMA uprobeBehaviour ==
  ASSUME NEW s, NEW l, s.type \in UprobeTypes
  PROVE  Does(s, l) = [function |-> l.attrs.function, offset |-> l.attrs.offset,
                                target |-> l.attrs.target, pid |-> l.attrs.pid]
<1> DEFINE req == getAttachRequest(s, l)
<1>1. req.info = "Uprobe" /\ req.function = l.attrs.function /\ req.offset = l.attrs.offset
        /\ req.target = l.attrs.target /\ req.pid = l.attrs.pid
  BY UprobeRequest DEF uprobeInfo
<1> HIDE DEF req
<1>2. QED
  BY <1>1 DEF Behaviour, Does, req

LEMMA kprobeBehaviour ==
  ASSUME NEW s, NEW l, s.type = "kprobe"
  PROVE  Does(s, l) = [function |-> l.attrs.function, offset |-> l.attrs.offset]
<1> DEFINE req == getAttachRequest(s, l)
<1>1. req.info = "Kprobe" /\ req.function = l.attrs.function /\ req.offset = l.attrs.offset
  BY KernelRequest
<1> HIDE DEF req
<1>2. QED
  BY <1>1 DEF Behaviour, Does, req

LEMMA kretprobeBehaviour ==
  ASSUME NEW s, NEW l, s.type = "kretprobe"
  PROVE  Does(s, l) = [function |-> l.attrs.function, offset |-> 0]
<1> DEFINE req == getAttachRequest(s, l)
<1>1. req.info = "Kprobe" /\ req.function = l.attrs.function /\ req.offset = 0
  BY KernelRequest
<1> HIDE DEF req
<1>2. QED
  BY <1>1 DEF Behaviour, Does, req

LEMMA tracepointBehaviour ==
  ASSUME NEW s, NEW l, s.type = "tracepoint"
  PROVE  Does(s, l) = [name |-> l.attrs.name]
<1> DEFINE req == getAttachRequest(s, l)
<1>1. req.info = "Tracepoint" /\ req.tracepoint = l.attrs.name
  BY KernelRequest
<1> HIDE DEF req
<1>2. QED
  BY <1>1 DEF Behaviour, Does, req

\* Entries of one program that do the same have the same interface and parameters.
LEMMA xdpDoes ==
  ASSUME DistinctProceedOn, NEW s \in StoredSpecs, s.type = "xdp", NEW m,
         NEW a, EntryOK("xdp", m, a), NEW b, EntryOK("xdp", m, b), Does(s, a) = Does(s, b)
  PROVE  a.iface = b.iface /\ a.attrs = b.attrs
<1> DEFINE acts(l) == {XdpActions[n] : n \in Range(xdpProceedOnToInt(l.attrs.proceedOn))}
           dir(l) == None
<1>1. ASSUME NEW l
      PROVE  Does(s, l) = [iface |-> l.iface, priority |-> l.attrs.priority, proceedOn |-> acts(l)]
  BY xdpBehaviour
<1>2. PICK x : FromInfo("xdp", a, x)
  BY DEF EntryOK
<1>3. PICK y : FromInfo("xdp", b, y)
  BY DEF EntryOK
<1>4. a.attrs = xdpAttrs(x.attrs) /\ b.attrs = xdpAttrs(y.attrs)
  BY <1>2, <1>3 DEF FromInfo, AttrsOf, UprobeTypes
<1>5. acts(a) = acts(b) /\ dir(a) = dir(b) /\ a.iface = b.iface /\ a.attrs.priority = b.attrs.priority
  <2> DEFINE ra == [iface |-> a.iface, priority |-> a.attrs.priority, proceedOn |-> acts(a)]
             rb == [iface |-> b.iface, priority |-> b.attrs.priority, proceedOn |-> acts(b)]
  <2>1. ra = rb
    BY <1>1
  <2>2. ra.iface = a.iface /\ ra.priority = a.attrs.priority /\ ra.proceedOn = acts(a)
    OBVIOUS
  <2>3. rb.iface = b.iface /\ rb.priority = b.attrs.priority /\ rb.proceedOn = acts(b)
    OBVIOUS
  <2> HIDE DEF ra, rb, acts
  <2>4. QED
    BY <2>1, <2>2, <2>3
<1> PICK u \in StoredSpecs : u.type = "xdp" /\ \E i \in DOMAIN u.links : x = u.links[i]
  BY <1>2 DEF FromInfo
<1> PICK v \in StoredSpecs : v.type = "xdp" /\ \E j \in DOMAIN v.links : y = v.links[j]
  BY <1>3 DEF FromInfo
<1>6. PICK i \in DOMAIN u.links : x = u.links[i]
  OBVIOUS
<1>7. PICK j \in DOMAIN v.links : y = v.links[j]
  OBVIOUS
<1>8. a.attrs.proceedOn = x.attrs.proceedOn /\ b.attrs.proceedOn = y.attrs.proceedOn
  BY <1>4 DEF xdpAttrs
<1>9. a.attrs.proceedOn = b.attrs.proceedOn
  <2>1. \A p, q : p = u.links[i].attrs.proceedOn /\ q = v.links[j].attrs.proceedOn
              /\ {XdpActions[n] : n \in Range(xdpProceedOnToInt(p))}
                   = {XdpActions[n] : n \in Range(xdpProceedOnToInt(q))} => p = q
    BY <1>6, <1>7 DEF DistinctProceedOn
  <2>2. QED
    BY <1>5, <1>6, <1>7, <1>8, <2>1
<1>10. a.attrs.priority = b.attrs.priority /\ a.iface = b.iface
  BY <1>5
<1> HIDE DEF acts, dir
<1>11. QED
  BY <1>4, <1>9, <1>10 DEF xdpAttrs

LEMMA tcDoes ==
  ASSUME DistinctProceedOn, NEW s \in StoredSpecs, s.type = "tc", NEW m,
         NEW a, EntryOK("tc", m, a), NEW b, EntryOK("tc", m, b), Does(s, a) = Does(s, b)
  PROVE  a.iface = b.iface /\ a.attrs = b.attrs
<1> DEFINE acts(l) == {TcActions[n] : n \in Range(tcProceedOnToInt(l.attrs.proceedOn))}
           dir(l) == Directions[directionToStr(l.attrs.direction)]
<1>1. ASSUME NEW l
      PROVE  Does(s, l) = [iface |-> l.iface, priority |-> l.attrs.priority, direction |-> dir(l),
               proceedOn |-> acts(l)]
  BY tcBehaviour
<1>2. PICK x : FromInfo("tc", a, x)
  BY DEF EntryOK
<1>3. PICK y : FromInfo("tc", b, y)
  BY DEF EntryOK
<1>4. a.attrs = tcAttrs(x.attrs) /\ b.attrs = tcAttrs(y.attrs)
  BY <1>2, <1>3 DEF FromInfo, AttrsOf, UprobeTypes
<1>5. acts(a) = acts(b) /\ dir(a) = dir(b) /\ a.iface = b.iface /\ a.attrs.priority = b.attrs.priority
  <2> DEFINE ra == [iface |-> a.iface, priority |-> a.attrs.priority, direction |-> dir(a),
               proceedOn |-> acts(a)]
             rb == [iface |-> b.iface, priority |-> b.attrs.priority, direction |-> dir(b),
               proceedOn |-> acts(b)]
  <2>1. ra = rb
    BY <1>1
  <2>2. ra.iface = a.iface /\ ra.priority = a.attrs.priority /\ ra.direction = dir(a) /\ ra.proceedOn = acts(a)
    OBVIOUS
  <2>3. rb.iface = b.iface /\ rb.priority = b.attrs.priority /\ rb.direction = dir(b) /\ rb.proceedOn = acts(b)
    OBVIOUS
  <2> HIDE DEF ra, rb, acts, dir
  <2>4. QED
    BY <2>1, <2>2, <2>3
<1> PICK u \in StoredSpecs : u.type = "tc" /\ \E i \in DOMAIN u.links : x = u.links[i]
  BY <1>2 DEF FromInfo
<1> PICK v \in StoredSpecs : v.type = "tc" /\ \E j \in DOMAIN v.links : y = v.links[j]
  BY <1>3 DEF FromInfo
<1>6. PICK i \in DOMAIN u.links : x = u.links[i]
  OBVIOUS
<1>7. PICK j \in DOMAIN v.links : y = v.links[j]
  OBVIOUS
<1>8. a.attrs.proceedOn = x.attrs.proceedOn /\ b.attrs.proceedOn = y.attrs.proceedOn
  BY <1>4 DEF tcAttrs
<1>9. a.attrs.proceedOn = b.attrs.proceedOn
  <2>1. \A p, q : p = u.links[i].attrs.proceedOn /\ q = v.links[j].attrs.proceedOn
              /\ {TcActions[n] : n \in Range(tcProceedOnToInt(p))}
                   = {TcActions[n] : n \in Range(tcProceedOnToInt(q))} => p = q
    BY <1>6, <1>7 DEF DistinctProceedOn
  <2>2. QED
    BY <1>5, <1>6, <1>7, <1>8, <2>1
<1>10. a.attrs.direction = x.attrs.direction /\ b.attrs.direction = y.attrs.direction
  BY <1>4 DEF tcAttrs
<1>11. a.attrs.direction = b.attrs.direction
  <2>1. a.attrs.direction \in TCDirectionType /\ b.attrs.direction \in TCDirectionType
    BY <1>6, <1>7, <1>10, StoredDirection
  <2>2. QED
    BY <1>5, <2>1, DirectionsDiffer
<1>12. a.attrs.priority = b.attrs.priority /\ a.iface = b.iface
  BY <1>5
<1> HIDE DEF acts, dir
<1>13. QED
  BY <1>4, <1>9, <1>11, <1>12 DEF tcAttrs

LEMMA tcxDoes ==
  ASSUME DistinctProceedOn, NEW s \in StoredSpecs, s.type = "tcx", NEW m,
         NEW a, EntryOK("tcx", m, a), NEW b, EntryOK("tcx", m, b), Does(s, a) = Does(s, b)
  PROVE  a.iface = b.iface /\ a.attrs = b.attrs
<1> DEFINE acts(l) == None
           dir(l) == Directions[directionToStr(l.attrs.direction)]
<1>1. ASSUME NEW l
      PROVE  Does(s, l) = [iface |-> l.iface, priority |-> l.attrs.priority, direction |-> dir(l)]
  BY tcxBehaviour
<1>2. PICK x : FromInfo("tcx", a, x)
  BY DEF EntryOK
<1>3. PICK y : FromInfo("tcx", b, y)
  BY DEF EntryOK
<1>4. a.attrs = tcxAttrs(x.attrs) /\ b.attrs = tcxAttrs(y.attrs)
  BY <1>2, <1>3 DEF FromInfo, AttrsOf, UprobeTypes
<1>5. acts(a) = acts(b) /\ dir(a) = dir(b) /\ a.iface = b.iface /\ a.attrs.priority = b.attrs.priority
  <2> DEFINE ra == [iface |-> a.iface, priority |-> a.attrs.priority, direction |-> dir(a)]
             rb == [iface |-> b.iface, priority |-> b.attrs.priority, direction |-> dir(b)]
  <2>1. ra = rb
    BY <1>1
  <2>2. ra.iface = a.iface /\ ra.priority = a.attrs.priority /\ ra.direction = dir(a)
    OBVIOUS
  <2>3. rb.iface = b.iface /\ rb.priority = b.attrs.priority /\ rb.direction = dir(b)
    OBVIOUS
  <2> HIDE DEF ra, rb, dir
  <2>4. QED
    BY <2>1, <2>2, <2>3
<1> PICK u \in StoredSpecs : u.type = "tcx" /\ \E i \in DOMAIN u.links : x = u.links[i]
  BY <1>2 DEF FromInfo
<1> PICK v \in StoredSpecs : v.type = "tcx" /\ \E j \in DOMAIN v.links : y = v.links[j]
  BY <1>3 DEF FromInfo
<1>6. PICK i \in DOMAIN u.links : x = u.links[i]
  OBVIOUS
<1>7. PICK j \in DOMAIN v.links : y = v.links[j]
  OBVIOUS
<1>8. a.attrs.direction = x.attrs.direction /\ b.attrs.direction = y.attrs.direction
  BY <1>4 DEF tcxAttrs
<1>9. a.attrs.direction = b.attrs.direction
  <2>1. a.attrs.direction \in TCDirectionType /\ b.attrs.direction \in TCDirectionType
    BY <1>6, <1>7, <1>8, StoredDirection
  <2>2. QED
    BY <1>5, <2>1, DirectionsDiffer
<1>10. a.attrs.priority = b.attrs.priority /\ a.iface = b.iface
  BY <1>5
<1> HIDE DEF acts, dir
<1>11. QED
  BY <1>4, <1>9, <1>10 DEF tcxAttrs

LEMMA uprobeDoes ==
  ASSUME NEW s, s.type \in UprobeTypes, NEW m,
         NEW a, EntryOK(s.type, m, a), NEW b, EntryOK(s.type, m, b), Does(s, a) = Does(s, b)
  PROVE  a.iface = b.iface /\ a.attrs = b.attrs
<1>1. ASSUME NEW l
      PROVE  Does(s, l) = [function |-> l.attrs.function, offset |-> l.attrs.offset,
               target |-> l.attrs.target, pid |-> l.attrs.pid]
  BY uprobeBehaviour
<1>2. a.attrs.function = b.attrs.function /\ a.attrs.offset = b.attrs.offset
        /\ a.attrs.target = b.attrs.target /\ a.attrs.pid = b.attrs.pid
  <2> DEFINE ra == [function |-> a.attrs.function, offset |-> a.attrs.offset, target |-> a.attrs.target,
               pid |-> a.attrs.pid]
             rb == [function |-> b.attrs.function, offset |-> b.attrs.offset, target |-> b.attrs.target,
               pid |-> b.attrs.pid]
  <2>1. ra = rb
    BY <1>1
  <2>2. ra.function = a.attrs.function /\ rb.function = b.attrs.function /\ ra.offset = a.attrs.offset
          /\ rb.offset = b.attrs.offset /\ ra.target = a.attrs.target /\ rb.target = b.attrs.target
               /\ ra.pid = a.attrs.pid /\ rb.pid = b.attrs.pid
    OBVIOUS
  <2> HIDE DEF ra, rb
  <2>3. QED
    BY <2>1, <2>2
<1>3. PICK x, y : a.attrs = uprobeAttrs(x) /\ b.attrs = uprobeAttrs(y)
  BY DEF EntryOK, FromInfo, AttrsOf, UprobeTypes
<1>4. a.iface = b.iface
  BY DEF EntryOK, NetTypes, UprobeTypes
<1>5. QED
  BY <1>2, <1>3, <1>4 DEF uprobeAttrs

LEMMA kprobeDoes ==
  ASSUME NEW s, s.type = "kprobe", NEW m,
         NEW a, EntryOK(s.type, m, a), NEW b, EntryOK(s.type, m, b), Does(s, a) = Does(s, b)
  PROVE  a.iface = b.iface /\ a.attrs = b.attrs
<1>1. ASSUME NEW l
      PROVE  Does(s, l) = [function |-> l.attrs.function, offset |-> l.attrs.offset]
  BY kprobeBehaviour
<1>2. a.attrs.function = b.attrs.function /\ a.attrs.offset = b.attrs.offset
  <2> DEFINE ra == [function |-> a.attrs.function, offset |-> a.attrs.offset]
             rb == [function |-> b.attrs.function, offset |-> b.attrs.offset]
  <2>1. ra = rb
    BY <1>1
  <2>2. ra.function = a.attrs.function /\ rb.function = b.attrs.function /\ ra.offset = a.attrs.offset
          /\ rb.offset = b.attrs.offset
    OBVIOUS
  <2> HIDE DEF ra, rb
  <2>3. QED
    BY <2>1, <2>2
<1>3. PICK x, y : a.attrs = kprobeAttrs(x) /\ b.attrs = kprobeAttrs(y)
  BY DEF EntryOK, FromInfo, AttrsOf, UprobeTypes
<1>4. a.iface = b.iface
  BY DEF EntryOK, NetTypes, UprobeTypes
<1>5. QED
  BY <1>2, <1>3, <1>4 DEF kprobeAttrs

LEMMA kretprobeDoes ==
  ASSUME NEW s, s.type = "kretprobe", NEW m,
         NEW a, EntryOK(s.type, m, a), NEW b, EntryOK(s.type, m, b), Does(s, a) = Does(s, b)
  PROVE  a.iface = b.iface /\ a.attrs = b.attrs
<1>1. ASSUME NEW l
      PROVE  Does(s, l) = [function |-> l.attrs.function, offset |-> 0]
  BY kretprobeBehaviour
<1>2. a.attrs.function = b.attrs.function
  <2> DEFINE ra == [function |-> a.attrs.function, offset |-> 0]
             rb == [function |-> b.attrs.function, offset |-> 0]
  <2>1. ra = rb
    BY <1>1
  <2>2. ra.function = a.attrs.function /\ rb.function = b.attrs.function
    OBVIOUS
  <2> HIDE DEF ra, rb
  <2>3. QED
    BY <2>1, <2>2
<1>3. PICK x, y : a.attrs = kretprobeAttrs(x) /\ b.attrs = kretprobeAttrs(y)
  BY DEF EntryOK, FromInfo, AttrsOf, UprobeTypes
<1>4. a.iface = b.iface
  BY DEF EntryOK, NetTypes, UprobeTypes
<1>5. QED
  BY <1>2, <1>3, <1>4 DEF kretprobeAttrs

LEMMA tracepointDoes ==
  ASSUME NEW s, s.type = "tracepoint", NEW m,
         NEW a, EntryOK(s.type, m, a), NEW b, EntryOK(s.type, m, b), Does(s, a) = Does(s, b)
  PROVE  a.iface = b.iface /\ a.attrs = b.attrs
<1>1. ASSUME NEW l
      PROVE  Does(s, l) = [name |-> l.attrs.name]
  BY tracepointBehaviour
<1>2. a.attrs.name = b.attrs.name
  <2> DEFINE ra == [name |-> a.attrs.name]
             rb == [name |-> b.attrs.name]
  <2>1. ra = rb
    BY <1>1
  <2>2. ra.name = a.attrs.name /\ rb.name = b.attrs.name
    OBVIOUS
  <2> HIDE DEF ra, rb
  <2>3. QED
    BY <2>1, <2>2
<1>3. PICK x, y : a.attrs = tracepointAttrs(x) /\ b.attrs = tracepointAttrs(y)
  BY DEF EntryOK, FromInfo, AttrsOf, UprobeTypes
<1>4. a.iface = b.iface
  BY DEF EntryOK, NetTypes, UprobeTypes
<1>5. QED
  BY <1>2, <1>3, <1>4 DEF tracepointAttrs

LEMMA SameDoes ==
  ASSUME DistinctProceedOn, NEW s \in StoredSpecs, NEW m,
         NEW a, EntryOK(s.type, m, a), NEW b, EntryOK(s.type, m, b), Does(s, a) = Does(s, b)
  PROVE  a.iface = b.iface /\ a.attrs = b.attrs
<1>1. CASE s.type \in {"fentry", "fexit"}
  BY <1>1 DEF EntryOK, FromInfo, AttrsOf, NetTypes, UprobeTypes
<1>2. CASE s.type \notin {"fentry", "fexit"}
  <2>1. s.type \in {"xdp", "tc", "tcx", "kprobe", "kretprobe", "tracepoint"} \/ s.type \in UprobeTypes
    BY <1>2, StoredType DEF ProgramTypeSet, NetTypes
  <2>2. QED
    BY <2>1, xdpDoes, tcDoes, tcxDoes, uprobeDoes, kprobeDoes, kretprobeDoes, tracepointDoes
<1>3. QED
  BY <1>1, <1>2

(***************************************************************************)
(* No attach point twice.  Two entries of one list may stand for one       *)
(* attach point when the path of the first could not be read while the     *)
(* second was looked up.  Then the first is a path of an exited process,   *)
(* nothing marks it again, and processLinks detaches it before it comes to *)
(* the second.  A failed Get, a lost reply or a cache reset by the other   *)
(* controller defeats this, but no entry is ever taken for another one's   *)
(* link (WhereOK).                                                         *)
(***************************************************************************)
\* Path x is no path of a process that has exited, when C are the containers.
RevIn(C, x) == x[1] = "pid" => \E c \in C : c.pid = x[2] /\ c.up

\* Entries a and b of a program of type t stand for one attach point.
Same(tgt, t, a, b) ==
  /\ a.iface = b.iface /\ a.attrs = b.attrs /\ a.containerPid = b.containerPid
  /\ t \in NetTypes => Target(tgt, a.path) = Target(tgt, b.path)

\* The entry is attached, or may be once more.
Live(C, l) == l.id # None \/ RevIn(C, l.path)

\* Entry a comes before entry b, and c is the cache.
PairOK(tgt, t, C, a, b, c) ==
  Same(tgt, t, a, b) =>
    /\ t \in NetTypes
    /\ Live(C, b) => ~RevIn(C, a.path) /\ ~a.should /\ a.path \notin DOMAIN c
    /\ a.id # None /\ b.id # None => a.status = "DetachError"

PairsOK(tgt) ==
  Undisturbed => \A i, j \in DOMAIN links : i < j => PairOK(tgt, spec.type, ctrs, links[i], links[j], cache)

\* An entry is marked only after its path was read.
MarkedRead ==
  Undisturbed /\ pc = "update" /\ spec.type \in NetTypes =>
    \A j \in DOMAIN links : links[j].should => links[j].path \in DOMAIN cache

CacheOK(tgt) ==
  \A x \in DOMAIN cache : ProperPath(nextPid, x) /\ cache[x] = Target(tgt, x) /\ cache[x] # None

\* Entries processLinks has passed are detached when they are not wanted.
PassedGone ==
  Undisturbed /\ pc = "process" =>
    \A j \in DOMAIN links :
      j < pos /\ links[j].id # None /\ ~links[j].should => links[j].status = "DetachError"

\* bpfman's link of an entry is where the entry says and does what it says.
WhereOK(tgt) ==
  \A j \in DOMAIN links : HasLink(links[j]) =>
    attached[links[j].id] = [at |-> AtOf(tgt, spec.type, links[j]), does |-> Does(spec, links[j])]

OnceInv(tgt) ==
  Tells(tgt) /\ CacheOK(tgt) /\ MarkedRead /\ PairsOK(tgt) /\ PassedGone /\ WhereOK(tgt)

LEMMA RevIsRevIn == \A x : Rev(x) <=> RevIn(ctrs, x)
BY DEF Rev, RevIn, Running

\* What an entry stands for does not depend on its marks, its id and its status.
LEMMA SameStays ==
  ASSUME NEW tgt, NEW t, NEW a, NEW b, NEW x, NEW y, Static(x, a), Static(y, b), Same(tgt, t, x, y)
  PROVE  Same(tgt, t, a, b)
BY DEF Same, Static

LEMMA WhereStays ==
  ASSUME NEW tgt, NEW t, NEW a, NEW b, Static(a, b), NEW s
  PROVE  AtOf(tgt, t, a) = AtOf(tgt, t, b) /\ Does(s, a) = Does(s, b)
BY DoesStays DEF AtOf, Static

\* Of a pair, the marks, the cache and the containers become fewer.
LEMMA PairStays ==
  ASSUME NEW tgt, NEW t, NEW C, NEW a, NEW b, NEW c, PairOK(tgt, t, C, a, b, c),
         NEW D, NEW x, NEW y, NEW d, Static(x, a), Static(y, b), x.id = a.id, y.id = b.id, x.status = a.status,
         RevIn(D, a.path) => RevIn(C, a.path), RevIn(D, b.path) => RevIn(C, b.path),
         x.should => a.should, DOMAIN d \subseteq DOMAIN c
  PROVE  PairOK(tgt, t, D, x, y, d)
<1>1. SUFFICES ASSUME Same(tgt, t, x, y)
               PROVE  /\ t \in NetTypes
                      /\ Live(D, y) => ~RevIn(D, x.path) /\ ~x.should /\ x.path \notin DOMAIN d
                      /\ x.id # None /\ y.id # None => x.status = "DetachError"
  BY DEF PairOK
<1>2. Same(tgt, t, a, b) /\ x.path = a.path /\ y.path = b.path
  BY <1>1, SameStays DEF Static
<1>3. Live(D, y) => Live(C, b)
  BY <1>2 DEF Live
<1>4. /\ t \in NetTypes
      /\ Live(C, b) => ~RevIn(C, a.path) /\ ~a.should /\ a.path \notin DOMAIN c
      /\ a.id # None /\ b.id # None => a.status = "DetachError"
  BY <1>2 DEF PairOK
<1>5. Live(D, y) => ~RevIn(D, x.path) /\ ~x.should /\ x.path \notin DOMAIN d
  BY <1>2, <1>3, <1>4, Zenon
<1>6. QED
  BY <1>4, <1>5

(***************************************************************************)
(* Reading paths.                                                          *)
(***************************************************************************)
LEMMA ReadIsTarget ==
  ASSUME NodeOK, NEW tgt, Tells(tgt), CacheOK(tgt), NEW x, ProperPath(nextPid, x), GetNetNsId(cache, x) # None
  PROVE  GetNetNsId(cache, x) = Target(tgt, x) /\ (x \in DOMAIN cache \/ Rev(x))
<1>1. CASE x \in DOMAIN cache
  BY <1>1 DEF GetNetNsId, CacheOK
<1>2. CASE x \notin DOMAIN cache
  BY <1>2, StatIsTarget DEF GetNetNsId
<1>3. QED
  BY <1>1, <1>2

LEMMA Remembered ==
  ASSUME NEW P
  PROVE  /\ DOMAIN Remember(cache, P) = DOMAIN cache \cup {x \in P : GetNetNsId(cache, x) # None}
         /\ \A x \in DOMAIN Remember(cache, P) : Remember(cache, P)[x] = GetNetNsId(cache, x)
BY DEF Remember

\* The cache stays true, and a dead path does not enter it.
LEMMA RememberOK ==
  ASSUME NodeOK, NEW tgt, Tells(tgt), CacheOK(tgt), NEW P, \A x \in P : ProperPath(nextPid, x)
  PROVE  /\ \A x \in DOMAIN Remember(cache, P) :
              /\ ProperPath(nextPid, x) /\ Remember(cache, P)[x] = Target(tgt, x)
              /\ Remember(cache, P)[x] # None
         /\ \A x : x \notin DOMAIN cache /\ ~Rev(x) => x \notin DOMAIN Remember(cache, P)
<1>1. ASSUME NEW x \in DOMAIN Remember(cache, P)
      PROVE  ProperPath(nextPid, x) /\ GetNetNsId(cache, x) # None
  BY <1>1, Remembered DEF CacheOK, GetNetNsId
<1>2. QED
  BY <1>1, Remembered, ReadIsTarget

(***************************************************************************)
(* The steps.                                                              *)
(***************************************************************************)
LEMMA OnceStart ==
  ASSUME Init
  PROVE  \E tgt \in [Nat -> Nets] : OnceInv(tgt)
<1> DEFINE D(n) == {c \in ctrs : c.pid = n}
           f == [n \in Nat |-> IF D(n) = {} THEN Host ELSE PodNet((CHOOSE c \in D(n) : TRUE).pod)]
<1>1. NodeOK
  BY InitNode
<1>2. \A n \in Nat : D(n) # {} => (CHOOSE c \in D(n) : TRUE) \in D(n)
  OBVIOUS
<1>3. f \in [Nat -> Nets]
  <2>1. \A n \in Nat : D(n) # {} => (CHOOSE c \in D(n) : TRUE).pod \in Pods
    BY <1>1, <1>2 DEF NodeOK
  <2>2. QED
    BY <2>1, PodNets DEF Nets
<1>4. Tells(f)
  <2>1. ASSUME NEW c \in ctrs PROVE f[c.pid] = PodNet(c.pod)
    <3>1. c.pid \in Nat /\ c \in D(c.pid)
      BY <1>1 DEF NodeOK
    <3>2. (CHOOSE d \in D(c.pid) : TRUE) = c
      BY <1>1, <1>2, <3>1 DEF NodeOK
    <3>3. QED
      BY <3>1, <3>2
  <2>2. QED
    BY <2>1 DEF Tells
<1> HIDE DEF f
<1>5. DOMAIN links = {} /\ DOMAIN cache = {}
  <2>1. DOMAIN links = {}
    BY DEF Init
  <2>2. QED
    BY <2>1 DEF Init, NoPaths
<1>6. OnceInv(f)
  BY <1>4, <1>5 DEF OnceInv, CacheOK, MarkedRead, PairsOK, PassedGone, WhereOK
<1>7. QED
  BY <1>3, <1>6

\* The list keeps its entries, ids and status, with fewer marks; the cache is
\* emptied; the node is left alone.
LEMMA OnceReset ==
  ASSUME Undisturbed' => Undisturbed,
         NEW tgt, OnceInv(tgt), UNCHANGED <<spec, nodeVars, attached>>, DOMAIN links' = DOMAIN links,
         \A j \in DOMAIN links : /\ Static(links'[j], links[j]) /\ links'[j].id = links[j].id
                                 /\ links'[j].status = links[j].status
                                 /\ links'[j].should => links[j].should,
         cache' = NoPaths,
         pc' = "update" => \A j \in DOMAIN links : ~links'[j].should,
         pc' = "process" => pos' = 1 /\ \A j \in DOMAIN links : ~(j < 1)
  PROVE  OnceInv(tgt)'
<1>1. ctrs' = ctrs /\ DOMAIN cache' = {} /\ nextPid' = nextPid /\ spec' = spec /\ attached' = attached
  BY DEF nodeVars, NoPaths
<1>2. Tells(tgt)' /\ CacheOK(tgt)'
  BY <1>1 DEF OnceInv, Tells, CacheOK, PodNet
<1>3. MarkedRead' /\ PassedGone'
  BY <1>1 DEF MarkedRead, PassedGone
<1>4. PairsOK(tgt)'
  <2>1. ASSUME Undisturbed, NEW i \in DOMAIN links, NEW j \in DOMAIN links, i < j
        PROVE  PairOK(tgt, spec.type, ctrs, links'[i], links'[j], cache')
    <3>1. PairOK(tgt, spec.type, ctrs, links[i], links[j], cache)
      BY <2>1 DEF OnceInv, PairsOK
    <3>2. DOMAIN cache' \subseteq DOMAIN cache
      BY <1>1
    <3>3. QED
      BY <3>1, <3>2, PairStays
  <2>2. QED
    BY <1>1, <2>1 DEF PairsOK
<1>5. WhereOK(tgt)'
  <2>1. ASSUME NEW j \in DOMAIN links, HasLink(links'[j])
        PROVE  attached[links'[j].id] = [at |-> AtOf(tgt, spec.type, links'[j]), does |-> Does(spec, links'[j])]
    BY <2>1, WhereStays DEF OnceInv, WhereOK, HasLink
  <2>2. QED
    BY <1>1, <2>1 DEF WhereOK, HasLink
<1>6. QED
  BY <1>2, <1>3, <1>4, <1>5 DEF OnceInv

\* Before and after the loops of updateLinks.
LEMMA OnceReconcileStart ==
  ASSUME BaseInv, NEW tgt, OnceInv(tgt), ReconcileStart, Undisturbed' => Undisturbed
  PROVE  OnceInv(tgt)'
<1>1. PICK b \in [DOMAIN links -> BOOLEAN] :
        Marks(ClearShouldAttach(links), links, b) /\ \A j \in DOMAIN links : ~b[j]
  BY ClearedLinks DEF BaseInv, EntriesOK
<1>2. Marks(links', links, b)
  BY <1>1 DEF ReconcileStart
<1>3. DOMAIN links' = DOMAIN links
  BY <1>2 DEF Marks
<1>4. \A j \in DOMAIN links : /\ Static(links'[j], links[j]) /\ links'[j].id = links[j].id
                              /\ links'[j].status = links[j].status
  BY <1>2 DEF Marks
<1>5. \A j \in DOMAIN links : ~links'[j].should
  BY <1>1, <1>2, Zenon DEF Marks
<1>6. /\ \A j \in DOMAIN links : links'[j].should => links[j].should
      /\ pc' = "update" => \A j \in DOMAIN links : ~links'[j].should
  BY <1>5, Zenon
<1>7. cache' = NoPaths /\ pc' # "process" /\ UNCHANGED <<spec, nodeVars, attached>>
  BY DEF ReconcileStart
<1>8. QED
  BY <1>3, <1>4, <1>6, <1>7, OnceReset

LEMMA OnceUpdateEnd ==
  ASSUME BaseInv, NEW tgt, OnceInv(tgt), updateLinksFails \/ updateLinksDone, Undisturbed' => Undisturbed
  PROVE  OnceInv(tgt)'
<1>1. /\ links' = links /\ cache' = NoPaths /\ pc' # "update" /\ pos' = 1
      /\ UNCHANGED <<spec, nodeVars, attached>>
  BY DEF updateLinksFails, updateLinksDone
<1>2. \A j \in DOMAIN links : ~(j < 1)
  <2>1. Len(links) \in Nat /\ DOMAIN links = 1..Len(links)
    BY ListFacts DEF BaseInv, EntriesOK
  <2>2. QED
    BY <2>1
<1>3. \A j \in DOMAIN links : /\ Static(links'[j], links[j]) /\ links'[j].id = links[j].id
                              /\ links'[j].status = links[j].status
  BY <1>1 DEF Static
<1>4. \A j \in DOMAIN links : links'[j].should => links[j].should
  BY <1>1, Zenon
<1>5. QED
  BY <1>1, <1>2, <1>3, <1>4, OnceReset

\* removeLinks leaves the entries it keeps as they are, in their order.
LEMMA OnceProcess ==
  ASSUME BaseInv, NEW tgt, OnceInv(tgt), ProcessEffect, Undisturbed' => Undisturbed
  PROVE  OnceInv(tgt)'
<1> DEFINE kept == {j \in DOMAIN links : ~Unused(links[j])}
<1>1. IsList(links) /\ Len(links) \in Nat /\ DOMAIN links = 1..Len(links)
  BY ListFacts DEF BaseInv, EntriesOK
<1>2. kept \in SUBSET (1..Len(links))
  BY <1>1
<1>3. links' = Keep(links, kept)
  BY DEF ProcessEffect, removeLinks
<1> HIDE DEF kept
<1>4. PICK ord : Reorders(ord, Keep(links, kept), links, kept)
  BY <1>1, <1>2, KeepIsReordering
<1>5. /\ DOMAIN links' = 1..Cardinality(kept)
      /\ \A j \in DOMAIN links' : ord[j] \in DOMAIN links /\ links'[j] = links[ord[j]]
      /\ \A i, j \in DOMAIN links' : i < j => ord[i] < ord[j]
  BY <1>1, <1>2, <1>3, <1>4 DEF Reorders
<1>6. UNCHANGED <<spec, ctrs, nextPid, attached, cache>> /\ pc' = "idle"
  BY DEF ProcessEffect, nodeVars
<1>7. Tells(tgt)' /\ CacheOK(tgt)' /\ MarkedRead' /\ PassedGone'
  BY <1>6 DEF OnceInv, Tells, CacheOK, MarkedRead, PassedGone, PodNet
<1>8. PairsOK(tgt)'
  BY <1>5, <1>6 DEF OnceInv, PairsOK
<1>9. WhereOK(tgt)'
  BY <1>5, <1>6 DEF OnceInv, WhereOK, HasLink
<1>10. QED
  BY <1>7, <1>8, <1>9 DEF OnceInv

\* The entry at hand is detached before any later one at its place is attached.
LEMMA OnceVisitPairs ==
  ASSUME Undisturbed, Undisturbed', BaseInv, RecordInv, NEW tgt, OnceInv(tgt), NEW m, LinkEffect(m),
         NEW i \in DOMAIN links, NEW j \in DOMAIN links, i < j
  PROVE  PairOK(tgt, spec.type, ctrs, links'[i], links'[j], cache)
<1> DEFINE l == links[pos]
           t == spec.type
<1>1. /\ pc = "process" /\ pos \in DOMAIN links /\ links' = [links EXCEPT ![pos] = m] /\ Static(m, l)
      /\ pos \in Nat
  BY DEF LinkEffect, LinkVisited, AtLink, BaseInv
<1>2. m.should <=> l.should
  BY Zenon DEF LinkEffect
<1>3. PairOK(tgt, t, ctrs, links[i], links[j], cache)
  BY DEF OnceInv, PairsOK
<1>4. \A h \in DOMAIN links : links'[h] = IF h = pos THEN m ELSE links[h]
  BY <1>1
<1>5. (l.id # None => HasLink(l)) /\ ~Broken
  BY <1>1 DEF Undisturbed, RecordInv, Matches, HasLink, Broken
<1>6. i \in Int /\ j \in Int
  <2>1. DOMAIN links = 1..Len(links)
    BY ListFacts DEF RecordInv
  <2>2. QED
    BY <2>1
<1>7. CASE i # pos /\ j # pos
  BY <1>3, <1>4, <1>7
<1>8. CASE i = pos
  <2> DEFINE b == links[j]
  <2>1. links'[i] = m /\ links'[j] = b /\ links[i] = l
    BY <1>4, <1>6, <1>8
  <2>2. SUFFICES ASSUME Same(tgt, t, m, b)
                 PROVE  /\ t \in NetTypes
                        /\ Live(ctrs, b) => ~RevIn(ctrs, m.path) /\ ~m.should /\ m.path \notin DOMAIN cache
                        /\ m.id # None /\ b.id # None => m.status = "DetachError"
    BY <2>1 DEF PairOK
  <2>3. Same(tgt, t, l, b)
    BY <1>1, <2>2 DEF Same, Static
  <2>4. /\ t \in NetTypes
        /\ Live(ctrs, b) => ~RevIn(ctrs, l.path) /\ ~l.should /\ l.path \notin DOMAIN cache
    BY <1>3, <2>1, <2>3 DEF PairOK
  <2>5. m.path = l.path
    BY <1>1 DEF Static
  <2> HIDE DEF l, b
  <2>6. Live(ctrs, b) => ~RevIn(ctrs, m.path) /\ ~m.should /\ m.path \notin DOMAIN cache
    BY <1>2, <2>4, <2>5, Zenon
  <2>7. ASSUME m.id # None, b.id # None PROVE m.status = "DetachError"
    <3>1. ~l.should
      BY <2>4, <2>7, Zenon DEF Live
    <3>2. m.id = l.id /\ (HasLink(l) /\ ~l.should => m.status = "DetachError")
      BY <1>5, <2>7, <3>1, Zenon DEF LinkEffect, l
    <3>3. QED
      BY <1>5, <2>7, <3>1, <3>2, Zenon
  <2>8. QED
    BY <2>4, <2>6, <2>7
<1>9. CASE j = pos
  <2> DEFINE a == links[i]
  <2>1. links'[i] = a /\ links'[j] = m /\ links[j] = l /\ i < pos
    BY <1>4, <1>6, <1>9
  <2>2. SUFFICES ASSUME Same(tgt, t, a, m)
                 PROVE  /\ t \in NetTypes
                        /\ Live(ctrs, m) => ~RevIn(ctrs, a.path) /\ ~a.should /\ a.path \notin DOMAIN cache
                        /\ a.id # None /\ m.id # None => a.status = "DetachError"
    BY <2>1 DEF PairOK
  <2>3. Same(tgt, t, a, l)
    BY <1>1, <2>2 DEF Same, Static
  <2>4. /\ t \in NetTypes
        /\ Live(ctrs, l) => ~RevIn(ctrs, a.path) /\ ~a.should /\ a.path \notin DOMAIN cache
        /\ a.id # None /\ l.id # None => a.status = "DetachError"
    BY <1>3, <2>1, <2>3 DEF PairOK
  <2>5. m.path = l.path
    BY <1>1 DEF Static
  <2>6. CASE m.id = l.id \/ m.id = None
    <3>1. Live(ctrs, m) => Live(ctrs, l)
      BY <2>5, <2>6 DEF Live
    <3> HIDE DEF a, l
    <3>2. QED
      BY <2>4, <2>6, <3>1, Zenon
  <2>7. CASE Accepted(cur, l)
    <3>1. Rev(l.path)
      <4>1. EntryOK(cur.type, nextPid, l) /\ cur \in StoredSpecs /\ cur.type = t /\ NodeOK /\ Tells(tgt)
        BY <1>1 DEF BaseInv, EntriesOK, KindOK, OnceInv
      <4>2. QED
        BY <2>4, <2>7, <4>1, AcceptedPlace
    <3>2. Live(ctrs, l)
      BY <3>1, RevIsRevIn DEF Live
    <3>3. ~a.should
      BY <2>4, <3>2, Zenon
    <3>4. a.id # None => a.status = "DetachError"
      BY <1>1, <2>1, <3>3 DEF OnceInv, PassedGone
    <3> HIDE DEF a, l
    <3>5. QED
      BY <2>4, <3>2, <3>4, Zenon
  <2>8. QED
    BY <1>5, <2>6, <2>7 DEF LinkEffect
<1>10. QED
  BY <1>7, <1>8, <1>9

LEMMA OnceVisit ==
  ASSUME BaseInv, RecordInv, NEW tgt, OnceInv(tgt), NEW m, LinkEffect(m)
  PROVE  OnceInv(tgt)'
<1> DEFINE l == links[pos]
<1>1. /\ pc = "process" /\ pc' = pc /\ pos \in DOMAIN links /\ links' = [links EXCEPT ![pos] = m]
           /\ Static(m, l)
      /\ pos' = pos + 1 /\ UNCHANGED <<spec, ctrs, nextPid, cache>>
  BY DEF LinkEffect, LinkVisited, AtLink, nodeVars
<1>2. DOMAIN links' = DOMAIN links /\ \A h \in DOMAIN links : links'[h] = IF h = pos THEN m ELSE links[h]
  BY <1>1
<1>3. Undisturbed' => Undisturbed /\ (l.id # None => HasLink(l)) /\ ~Broken
  BY <1>1, FaultsStay DEF LinkEffect, Undisturbed, RecordInv, Matches, HasLink, Broken
<1>4. Tells(tgt)' /\ CacheOK(tgt)' /\ MarkedRead'
  BY <1>1 DEF OnceInv, Tells, CacheOK, MarkedRead, PodNet
<1>5. PairsOK(tgt)'
  BY <1>1, <1>2, <1>3, OnceVisitPairs DEF PairsOK
<1>6. PassedGone'
  <2>1. SUFFICES ASSUME Undisturbed', NEW j \in DOMAIN links, j < pos + 1, links'[j].id # None,
                        ~links'[j].should
                 PROVE  links'[j].status = "DetachError"
    BY <1>1, <1>2 DEF PassedGone
  <2>2. CASE j = pos
    <3>1. links'[j] = m /\ ~m.should /\ m.id # None
      BY <1>2, <2>1, <2>2
    <3>2. ~l.should
      BY <3>1, Zenon DEF LinkEffect
    <3> HIDE DEF l
    <3>3. m.id = l.id /\ (HasLink(l) /\ ~l.should => m.status = "DetachError")
      BY <1>3, <2>1, <3>1, <3>2, Zenon DEF LinkEffect, l
    <3>4. m.status = "DetachError"
      BY <1>3, <2>1, <3>1, <3>2, <3>3, Zenon
    <3>5. QED
      BY <3>1, <3>4
  <2>3. CASE j # pos
    <3>1. j \in Int /\ pos \in Int
      <4>1. DOMAIN links = 1..Len(links)
        BY ListFacts DEF RecordInv
      <4>2. QED
        BY <1>1, <4>1
    <3>2. j < pos /\ links'[j] = links[j]
      BY <1>2, <2>1, <2>3, <3>1
    <3>3. QED
      BY <1>1, <1>3, <2>1, <3>2 DEF OnceInv, PassedGone
  <2>4. QED
    BY <2>2, <2>3
<1>7. WhereOK(tgt)'
  <2> DEFINE P(k) == [at |-> AtOf(tgt, spec.type, k), does |-> Does(spec, k)]
  <2>1. SUFFICES ASSUME NEW j \in DOMAIN links, links'[j].id \in DOMAIN attached'
                 PROVE  attached'[links'[j].id] = P(links'[j])
    BY <1>1, <1>2 DEF WhereOK, HasLink
  <2>2. \A h \in DOMAIN links : links[h].id \in DOMAIN attached => attached[links[h].id] = P(links[h])
    BY DEF OnceInv, WhereOK, HasLink
  <2>3. P(m) = P(l)
    BY <1>1, WhereStays
  <2>4. CASE m.id = l.id /\ attached' = attached
    BY <1>1, <1>2, <2>1, <2>2, <2>3, <2>4
  <2>5. CASE Accepted(cur, l) /\ FreshId(m.id) /\ OneMore(m.id)
    <3>1. PointOf(cur, l) = P(l)
      <4>1. EntryOK(cur.type, nextPid, l) /\ cur \in StoredSpecs /\ cur.type = spec.type /\ NodeOK /\ Tells(tgt)
        BY <1>1 DEF BaseInv, EntriesOK, KindOK, OnceInv
      <4>2. PointOf(cur, l) = [at |-> AtOf(tgt, cur.type, l), does |-> Does(cur, l)]
        BY <2>5, <4>1, AcceptedPlace
      <4>3. Static(l, l)
        BY DEF Static
      <4>4. Does(cur, l) = Does(spec, l)
        BY <4>3, DoesStays DEF BaseInv, KindOK
      <4>5. QED
        BY <4>1, <4>2, <4>4
    <3> HIDE DEF P, l
    <3>2. CASE j = pos
      <4>1. links'[j] = m
        BY <1>2, <3>2
      <4>2. attached'[m.id] = PointOf(cur, l)
        BY <2>5 DEF OneMore, l
      <4>3. QED
        BY <2>3, <3>1, <4>1, <4>2
    <3>3. CASE j # pos
      <4>1. links'[j] = links[j]
        BY <1>2, <3>3
      <4>2. links[j].id \in DOMAIN attached /\ links[j].id # m.id
        BY <2>1, <2>5, <4>1 DEF FreshId, OneMore
      <4>3. attached'[links[j].id] = attached[links[j].id]
        BY <2>5, <4>2 DEF OneMore
      <4>4. QED
        BY <2>2, <4>1, <4>2, <4>3
    <3>4. QED
      BY <3>2, <3>3
  <2>6. CASE m.id \in {None, l.id} /\ OneLess(l.id)
    <3>1. links'[j].id # None
      BY <2>1, <2>6, BpfLinksAssumption DEF OneLess, RecordInv
    <3>2. j # pos /\ links'[j] = links[j]
      BY <1>2, <2>1, <2>6, <3>1 DEF OneLess
    <3>3. links[j].id \in DOMAIN attached /\ attached'[links[j].id] = attached[links[j].id]
      BY <2>1, <2>6, <3>2 DEF OneLess
    <3>4. QED
      BY <2>2, <3>2, <3>3
  <2>7. CASE m.id = l.id /\ \E id : FreshId(id) /\ OneMore(id)
    <3>1. PICK id : FreshId(id) /\ OneMore(id)
      BY <2>7
    <3>2. links'[j].id = links[j].id
      BY <1>2, <2>7
    <3>3. links[j].id \in DOMAIN attached /\ links[j].id # id
      BY <2>1, <3>1, <3>2 DEF FreshId, OneMore
    <3>4. attached'[links[j].id] = attached[links[j].id]
      BY <3>1, <3>3 DEF OneMore
    <3>5. P(links'[j]) = P(links[j])
      BY <1>2, <2>3
    <3>6. QED
      BY <2>2, <3>2, <3>3, <3>4, <3>5
  <2>8. QED
    BY <2>4, <2>5, <2>6, <2>7 DEF LinkEffect
<1>8. QED
  BY <1>4, <1>5, <1>6, <1>7 DEF OnceInv

\* An entry is marked only when its path can be read, and no dead path enters the
\* cache.
LEMMA PairGrows ==
  ASSUME NEW tgt, NEW t, NEW a, NEW b, PairOK(tgt, t, ctrs, a, b, cache),
         NEW x, NEW y, NEW d, Static(x, a), Static(y, b), x.id = a.id, y.id = b.id, x.status = a.status,
         t \in NetTypes /\ x.should => a.should \/ a.path \in DOMAIN cache \/ Rev(a.path),
         \A p : p \notin DOMAIN cache /\ ~Rev(p) => p \notin DOMAIN d
  PROVE  PairOK(tgt, t, ctrs, x, y, d)
<1>1. SUFFICES ASSUME Same(tgt, t, x, y)
               PROVE  /\ t \in NetTypes
                      /\ Live(ctrs, y) => ~RevIn(ctrs, x.path) /\ ~x.should /\ x.path \notin DOMAIN d
                      /\ x.id # None /\ y.id # None => x.status = "DetachError"
  BY DEF PairOK
<1>2. Same(tgt, t, a, b) /\ x.path = a.path /\ y.path = b.path
  BY <1>1, SameStays DEF Static
<1>3. Live(ctrs, y) => Live(ctrs, b)
  BY <1>2 DEF Live
<1>4. /\ t \in NetTypes
      /\ Live(ctrs, b) => ~RevIn(ctrs, a.path) /\ ~a.should /\ a.path \notin DOMAIN cache
      /\ a.id # None /\ b.id # None => a.status = "DetachError"
  BY <1>2 DEF PairOK
<1>5. Rev(a.path) <=> RevIn(ctrs, a.path)
  BY RevIsRevIn
<1>6. Live(ctrs, y) => ~RevIn(ctrs, x.path) /\ ~x.should /\ x.path \notin DOMAIN d
  BY <1>2, <1>3, <1>4, <1>5, Zenon
<1>7. QED
  BY <1>4, <1>6

\* The cache after a lookup that does not fail.
LEMMA LookUpCache ==
  ASSUME BaseInv, NEW tgt, OnceInv(tgt), NEW l \in expected, LookedUp(l), ~findLinkFails(l)
  PROVE  /\ DOMAIN cache \subseteq DOMAIN cache'
         /\ \A x \in DOMAIN cache' : ProperPath(nextPid, x) /\ cache'[x] = Target(tgt, x) /\ cache'[x] # None
         /\ \A x : x \notin DOMAIN cache /\ ~Rev(x) => x \notin DOMAIN cache'
         /\ spec.type \in NetTypes =>
              /\ ProperPath(nextPid, l.path) /\ GetNetNsId(cache, l.path) # None
              /\ \A x \in Asked(l, FoundFor(l)) : GetNetNsId(cache, x) # None => x \in DOMAIN cache'
<1> DEFINE P == Asked(l, FoundFor(l))
<1>1. NodeOK /\ cur.type = spec.type /\ Tells(tgt) /\ CacheOK(tgt)
  BY DEF BaseInv, KindOK, OnceInv
<1>2. ProperPath(nextPid, l.path) /\ \A j \in DOMAIN links : ProperPath(nextPid, links[j].path)
  BY DEF BaseInv, EntriesOK, ExpectedOK, EntryOK
<1>3. \A x \in P : ProperPath(nextPid, x)
  BY <1>2 DEF Asked
<1> HIDE DEF P
<1>4. CASE spec.type \notin NetTypes
  <2>1. cache' = cache
    BY <1>1, <1>4 DEF LookedUp
  <2>2. QED
    BY <1>1, <1>4, <2>1 DEF CacheOK
<1>5. CASE spec.type \in NetTypes
  <2>1. cache' = Remember(cache, P)
    BY <1>1, <1>5 DEF LookedUp, P
  <2>2. GetNetNsId(cache, l.path) # None
    BY <1>1, <1>5 DEF findLinkFails
  <2>3. QED
    BY <1>1, <1>2, <1>3, <1>5, <2>1, <2>2, RememberOK, Remembered DEF P
<1>6. QED
  BY <1>4, <1>5

\* A link that is appended: an earlier entry at its place could not be read.
LEMMA AppendedPair ==
  ASSUME Undisturbed, BaseInv, NEW tgt, OnceInv(tgt), pc = "update", NEW l \in expected, LookedUp(l),
         ~findLinkFails(l), FoundFor(l) = {}, NEW j \in DOMAIN links
  PROVE  PairOK(tgt, spec.type, ctrs, links[j], l, cache')
<1> DEFINE a == links[j]
           t == spec.type
<1>1. NodeOK /\ cur.type = t /\ Tells(tgt) /\ CacheOK(tgt) /\ l.id = None
  BY DEF BaseInv, KindOK, OnceInv, EntriesOK, ExpectedOK
<1>2. SUFFICES ASSUME Same(tgt, t, a, l)
               PROVE  /\ t \in NetTypes
                      /\ RevIn(ctrs, l.path) => ~RevIn(ctrs, a.path) /\ ~a.should /\ a.path \notin DOMAIN cache'
  BY <1>1 DEF PairOK, Live
<1>3. ~Agree(t, a, l, cache)
  BY <1>1 DEF FoundFor
<1>4. t \in NetTypes /\ GetNetNsId(cache, a.path) # GetNetNsId(cache, l.path)
        /\ Target(tgt, a.path) = Target(tgt, l.path)
  BY <1>2, <1>3 DEF Same, Agree
<1>5. ProperPath(nextPid, a.path) /\ ProperPath(nextPid, l.path)
  BY DEF BaseInv, EntriesOK, ExpectedOK, EntryOK
<1>6. GetNetNsId(cache, l.path) # None
  BY <1>4, LookUpCache
<1>7. GetNetNsId(cache, a.path) = None
  BY <1>1, <1>4, <1>5, <1>6, ReadIsTarget
<1>8. a.path \notin DOMAIN cache /\ Stat(a.path) = None
  BY <1>1, <1>7 DEF GetNetNsId, CacheOK
<1>9. ~a.should
  BY <1>4, <1>8, Zenon DEF OnceInv, MarkedRead
<1>10. RevIn(ctrs, l.path) => ~RevIn(ctrs, a.path)
  <2>1. Rev(l.path) => ~Rev(a.path)
    BY <1>1, <1>4, <1>5, <1>8, UnreadIsDead
  <2>2. QED
    BY <2>1, RevIsRevIn
<1>11. ~Rev(a.path) => a.path \notin DOMAIN cache'
  BY <1>8, LookUpCache
<1> HIDE DEF a
<1>12. QED
  BY <1>4, <1>9, <1>10, <1>11, RevIsRevIn, Zenon

LEMMA OnceAppend ==
  ASSUME BaseInv, RecordInv, NEW tgt, OnceInv(tgt), UpdateEffect, NEW l \in expected, LookedUp(l),
           ~findLinkFails(l),
         FoundFor(l) = {}, Undisturbed' => Undisturbed
  PROVE  PairsOK(tgt)' /\ MarkedRead' /\ WhereOK(tgt)'
<1> DEFINE t == spec.type
           n == Len(links) + 1
<1>1. UNCHANGED <<spec, ctrs, nextPid, attached, pc>> /\ pc = "update"
  BY DEF UpdateEffect, nodeVars
<1>2. IsList(links) /\ Len(links) \in Nat /\ DOMAIN links = 1..Len(links) /\ IsLink(l) /\ l.id = None
  BY ListFacts DEF BaseInv, EntriesOK, ExpectedOK, EntryOK
<1>3. links' = Append(links, l)
  BY DEF LookedUp, AddExpected
<1>4. DOMAIN links' = 1..n /\ (\A j \in DOMAIN links : links'[j] = links[j]) /\ links'[n] = l
  BY <1>2, <1>3, AppendList
<1>5. \A j \in DOMAIN links' : j \in DOMAIN links \/ j = n
  BY <1>2, <1>4
<1>6. PairsOK(tgt)'
  <2>1. ASSUME Undisturbed, NEW i \in DOMAIN links', NEW j \in DOMAIN links', i < j
        PROVE  PairOK(tgt, t, ctrs, links'[i], links'[j], cache')
    <3>1. i \in DOMAIN links
      BY <1>2, <1>4, <1>5, <2>1
    <3>2. CASE j = n
      BY <1>1, <1>4, <2>1, <3>1, <3>2, AppendedPair
    <3>3. CASE j \in DOMAIN links
      <4>1. PairOK(tgt, t, ctrs, links[i], links[j], cache)
        BY <2>1, <3>1, <3>3 DEF OnceInv, PairsOK
      <4>2. \A p : p \notin DOMAIN cache /\ ~Rev(p) => p \notin DOMAIN cache'
        BY LookUpCache
      <4>3. Static(links[i], links[i]) /\ Static(links[j], links[j])
        BY DEF Static
      <4>4. PairOK(tgt, t, ctrs, links[i], links[j], cache')
        BY <4>1, <4>2, <4>3, PairGrows
      <4>5. QED
        BY <1>4, <3>1, <3>3, <4>4
    <3>4. QED
      BY <1>5, <3>2, <3>3
  <2>2. QED
    BY <1>1, <2>1 DEF PairsOK
<1>7. MarkedRead'
  <2>1. SUFFICES ASSUME Undisturbed, t \in NetTypes, NEW j \in DOMAIN links', links'[j].should
                 PROVE  links'[j].path \in DOMAIN cache'
    BY <1>1 DEF MarkedRead
  <2>2. CASE j = n
    <3>1. l.path \in Asked(l, FoundFor(l))
      BY DEF Asked
    <3>2. QED
      BY <1>4, <2>1, <2>2, <3>1, LookUpCache
  <2>3. CASE j \in DOMAIN links
    <3>1. links[j].should
      BY <1>4, <2>1, <2>3
    <3>2. links[j].path \in DOMAIN cache
      BY <1>1, <2>1, <2>3, <3>1 DEF OnceInv, MarkedRead
    <3>3. QED
      BY <1>4, <2>3, <3>2, LookUpCache
  <2>4. QED
    BY <1>5, <2>2, <2>3
<1>8. WhereOK(tgt)'
  <2>1. None \notin DOMAIN attached
    BY BpfLinksAssumption DEF RecordInv
  <2>2. QED
    BY <1>1, <1>2, <1>4, <1>5, <2>1 DEF OnceInv, WhereOK, HasLink
<1>9. QED
  BY <1>6, <1>7, <1>8

LEMMA OnceMark ==
  ASSUME BaseInv, NEW tgt, OnceInv(tgt), UpdateEffect, NEW l \in expected, LookedUp(l), ~findLinkFails(l),
         FoundFor(l) # {}, Undisturbed' => Undisturbed
  PROVE  PairsOK(tgt)' /\ MarkedRead' /\ WhereOK(tgt)'
<1> DEFINE t == spec.type
           first(j) == j \in FoundFor(l) /\ \A f \in FoundFor(l) : j <= f
<1>1. UNCHANGED <<spec, ctrs, nextPid, attached, pc>> /\ pc = "update"
  BY DEF UpdateEffect, nodeVars
<1>2. NodeOK /\ cur.type = t /\ Tells(tgt) /\ CacheOK(tgt) /\ IsList(links)
  BY DEF BaseInv, KindOK, OnceInv, EntriesOK
<1>3. PICK b \in [DOMAIN links -> BOOLEAN] :
        /\ Marks(AddExpected(l, FoundFor(l)), links, b)
        /\ \A j \in DOMAIN links : b[j] <=> links[j].should \/ first(j)
  BY <1>2, FoundMarked
<1>4. Marks(links', links, b)
  BY <1>3 DEF LookedUp
<1>5. DOMAIN links' = DOMAIN links
  BY <1>4 DEF Marks
<1>6. \A j \in DOMAIN links : /\ Static(links'[j], links[j]) /\ links'[j].id = links[j].id
                              /\ links'[j].status = links[j].status
  BY <1>4 DEF Marks
<1>7. \A j \in DOMAIN links : links'[j].should => links[j].should \/ first(j)
  BY <1>3, <1>4, Zenon DEF Marks
<1>8. ASSUME t \in NetTypes, NEW j \in DOMAIN links, first(j)
      PROVE  /\ links[j].path \in DOMAIN cache \/ Rev(links[j].path)
             /\ links[j].path \in DOMAIN cache'
  <2>1. Agree(t, links[j], l, cache)
    BY <1>2, <1>8 DEF FoundFor
  <2>2. GetNetNsId(cache, links[j].path) # None
    BY <1>8, <2>1, LookUpCache DEF Agree
  <2>3. ProperPath(nextPid, links[j].path)
    BY DEF BaseInv, EntriesOK, EntryOK
  <2>4. links[j].path \in Asked(l, FoundFor(l))
    BY <1>8, <2>1 DEF Agree, Asked
  <2>5. QED
    BY <1>2, <1>8, <2>2, <2>3, <2>4, ReadIsTarget, LookUpCache
<1> HIDE DEF first
<1>9. PairsOK(tgt)'
  <2>1. ASSUME Undisturbed, NEW i \in DOMAIN links, NEW j \in DOMAIN links, i < j
        PROVE  PairOK(tgt, t, ctrs, links'[i], links'[j], cache')
    <3>1. PairOK(tgt, t, ctrs, links[i], links[j], cache)
      BY <2>1 DEF OnceInv, PairsOK
    <3>2. \A p : p \notin DOMAIN cache /\ ~Rev(p) => p \notin DOMAIN cache'
      BY LookUpCache
    <3>3. t \in NetTypes /\ links'[i].should =>
            links[i].should \/ links[i].path \in DOMAIN cache \/ Rev(links[i].path)
      BY <1>7, <1>8, Zenon
    <3>4. QED
      BY <1>6, <3>1, <3>2, <3>3, PairGrows
  <2>2. QED
    BY <1>1, <1>5, <2>1 DEF PairsOK
<1>10. MarkedRead'
  <2>1. SUFFICES ASSUME Undisturbed, t \in NetTypes, NEW j \in DOMAIN links, links'[j].should
                 PROVE  links[j].path \in DOMAIN cache'
    BY <1>1, <1>5, <1>6 DEF MarkedRead, Static
  <2>2. CASE first(j)
    BY <1>8, <2>1, <2>2
  <2>3. CASE links[j].should
    <3>1. links[j].path \in DOMAIN cache
      BY <1>1, <2>1, <2>3 DEF OnceInv, MarkedRead
    <3>2. QED
      BY <3>1, LookUpCache
  <2>4. QED
    BY <1>7, <2>1, <2>2, <2>3, Zenon
<1>11. WhereOK(tgt)'
  <2>1. ASSUME NEW j \in DOMAIN links, HasLink(links'[j])
        PROVE  attached[links'[j].id] = [at |-> AtOf(tgt, spec.type, links'[j]), does |-> Does(spec, links'[j])]
    BY <1>6, <2>1, WhereStays DEF OnceInv, WhereOK, HasLink
  <2>2. QED
    BY <1>1, <1>5, <2>1 DEF WhereOK, HasLink
<1>12. QED
  BY <1>9, <1>10, <1>11

LEMMA OnceUpdate ==
  ASSUME BaseInv, RecordInv, NEW tgt, OnceInv(tgt), UpdateEffect, Undisturbed' => Undisturbed
  PROVE  OnceInv(tgt)'
<1>1. UNCHANGED <<spec, ctrs, nextPid, attached, pc>> /\ pc = "update"
  BY DEF UpdateEffect, nodeVars
<1>2. Tells(tgt)' /\ PassedGone'
  BY <1>1 DEF OnceInv, Tells, PassedGone, PodNet
<1>3. ASSUME links' = links, cache' = cache PROVE OnceInv(tgt)'
  BY <1>1, <1>2, <1>3 DEF OnceInv, CacheOK, MarkedRead, PairsOK, WhereOK, HasLink
<1>4. ASSUME NEW l \in expected, LookedUp(l), ~findLinkFails(l) PROVE OnceInv(tgt)'
  <2>1. CacheOK(tgt)'
    BY <1>1, <1>4, LookUpCache DEF CacheOK
  <2>2. PairsOK(tgt)' /\ MarkedRead' /\ WhereOK(tgt)'
    BY <1>4, OnceAppend, OnceMark
  <2>3. QED
    BY <1>2, <2>1, <2>2 DEF OnceInv
<1>5. QED
  BY <1>3, <1>4 DEF UpdateEffect, Expanded, LookedUp

\* Whatever the node and the user do: exited processes do not come back, and
\* paths lead where they led.
LEMMA OnceOthers ==
  ASSUME BaseInv, NodeOK', CtrsGrow, NEW tgt \in [Nat -> Nets], OnceInv(tgt),
         UNCHANGED <<agentVars, attached>>, Undisturbed' => Undisturbed,
         spec'.type = spec.type, spec'.scope = spec.scope, spec'.function = spec.function
  PROVE  \E t \in [Nat -> Nets] : OnceInv(t)'
<1>1. NodeOK /\ Tells(tgt) /\ CacheOK(tgt)
  BY DEF BaseInv, OnceInv
<1>2. PICK t \in [Nat -> Nets] :
        Tells(t)' /\ \A x : ProperPath(nextPid, x) => Target(t, x) = Target(tgt, x)
  BY <1>1, TargetStays
<1>3. UNCHANGED <<links, pc, pos, cache, attached>>
  BY DEF agentVars
<1>4. \A j \in DOMAIN links : ProperPath(nextPid, links[j].path)
  BY DEF BaseInv, EntriesOK, EntryOK
<1>5. \A x : ProperPath(nextPid, x) => ProperPath(nextPid', x)
  <2>1. 0..(nextPid - 1) \subseteq 0..(nextPid' - 1)
    BY <1>1 DEF NodeOK, CtrsGrow
  <2>2. QED
    BY <2>1 DEF ProperPath
<1>6. CacheOK(t)'
  BY <1>1, <1>2, <1>3, <1>5 DEF CacheOK
<1>7. MarkedRead' /\ PassedGone'
  BY <1>3 DEF OnceInv, MarkedRead, PassedGone
<1>8. PairsOK(t)'
  <2>1. ASSUME Undisturbed, NEW i \in DOMAIN links, NEW j \in DOMAIN links, i < j
        PROVE  PairOK(t, spec.type, ctrs', links[i], links[j], cache)
    <3>1. PairOK(tgt, spec.type, ctrs, links[i], links[j], cache)
      BY <2>1 DEF OnceInv, PairsOK
    <3>2. Same(t, spec.type, links[i], links[j]) <=> Same(tgt, spec.type, links[i], links[j])
      BY <1>2, <1>4 DEF Same
    <3>3. PairOK(t, spec.type, ctrs, links[i], links[j], cache)
      BY <3>1, <3>2 DEF PairOK
    <3>4. ASSUME NEW x, ProperPath(nextPid, x), RevIn(ctrs', x) PROVE RevIn(ctrs, x)
      <4>1. Rev(x)'
        BY <3>4 DEF Rev, RevIn, Running
      <4>2. QED
        BY <1>1, <3>4, <4>1, RevStays, RevIsRevIn
    <3>5. /\ RevIn(ctrs', links[i].path) => RevIn(ctrs, links[i].path)
          /\ RevIn(ctrs', links[j].path) => RevIn(ctrs, links[j].path)
      BY <1>4, <3>4
    <3>6. Static(links[i], links[i]) /\ Static(links[j], links[j])
      BY DEF Static
    <3>7. QED
      BY <3>3, <3>5, <3>6, PairStays
  <2>2. QED
    BY <1>3, <2>1 DEF PairsOK
<1>9. WhereOK(t)'
  <2>1. ASSUME NEW j \in DOMAIN links, HasLink(links[j])
        PROVE  attached[links[j].id] = [at |-> AtOf(t, spec.type, links[j]), does |-> Does(spec', links[j])]
    <3>1. AtOf(t, spec.type, links[j]) = AtOf(tgt, spec.type, links[j])
      BY <1>2, <1>4 DEF AtOf
    <3>2. Static(links[j], links[j])
      BY DEF Static
    <3>3. Does(spec', links[j]) = Does(spec, links[j])
      BY <3>2, DoesStays
    <3>4. QED
      BY <2>1, <3>1, <3>3 DEF OnceInv, WhereOK
  <2>2. QED
    BY <1>3, <2>1 DEF WhereOK, HasLink
<1>10. OnceInv(t)'
  BY <1>2, <1>6, <1>7, <1>8, <1>9 DEF OnceInv
<1>11. QED
  BY <1>10

\* The other controller: what it reads is true, and after a reset nothing is
\* promised of pairs.
LEMMA OnceOtherController ==
  ASSUME BaseInv, NEW tgt, OnceInv(tgt), OtherEffect
  PROVE  OnceInv(tgt)'
<1>1. UNCHANGED <<spec, ctrs, nextPid, links, attached, pc>> /\ pc = "update"
        /\ (Undisturbed' => Undisturbed)
  BY FaultsStay DEF OtherEffect, nodeVars
<1>2. Tells(tgt)' /\ PassedGone' /\ WhereOK(tgt)'
  BY <1>1 DEF OnceInv, Tells, PassedGone, PodNet, WhereOK, HasLink
<1>3. CASE "reset" \in faults'.kinds /\ cache' = NoPaths
  <2>1. DOMAIN cache' = {} /\ ~Undisturbed'
    BY <1>3 DEF NoPaths, Undisturbed
  <2>2. CacheOK(tgt)' /\ MarkedRead' /\ PairsOK(tgt)'
    BY <2>1 DEF CacheOK, MarkedRead, PairsOK
  <2>3. QED
    BY <1>2, <2>2 DEF OnceInv
<1>4. ASSUME NEW x, ProperPath(nextPid, x), cache' = Remember(cache, {x})
      PROVE  OnceInv(tgt)'
  <2>1. NodeOK /\ Tells(tgt) /\ CacheOK(tgt)
    BY DEF BaseInv, OnceInv
  <2>2. /\ \A y \in DOMAIN cache' :
             ProperPath(nextPid, y) /\ cache'[y] = Target(tgt, y) /\ cache'[y] # None
        /\ \A y : y \notin DOMAIN cache /\ ~Rev(y) => y \notin DOMAIN cache'
    BY <1>4, <2>1, RememberOK
  <2>3. DOMAIN cache \subseteq DOMAIN cache'
    BY <1>4, Remembered
  <2>4. CacheOK(tgt)'
    BY <1>1, <2>2 DEF CacheOK
  <2>5. MarkedRead'
    BY <1>1, <2>3 DEF OnceInv, MarkedRead
  <2>6. PairsOK(tgt)'
    <3>1. ASSUME Undisturbed, NEW i \in DOMAIN links, NEW j \in DOMAIN links, i < j
          PROVE  PairOK(tgt, spec.type, ctrs, links[i], links[j], cache')
      <4>1. PairOK(tgt, spec.type, ctrs, links[i], links[j], cache)
        BY <3>1 DEF OnceInv, PairsOK
      <4>2. Static(links[i], links[i]) /\ Static(links[j], links[j])
        BY DEF Static
      <4>3. QED
        BY <2>2, <4>1, <4>2, PairGrows
    <3>2. QED
      BY <1>1, <3>1 DEF PairsOK
  <2>7. QED
    BY <1>2, <2>4, <2>5, <2>6 DEF OnceInv
<1>5. QED
  BY <1>3, <1>4 DEF OtherEffect

LEMMA OnceStep ==
  ASSUME BaseInv, RecordInv, [Next]_vars, NEW tgt \in [Nat -> Nets], OnceInv(tgt)
  PROVE  \E t \in [Nat -> Nets] : OnceInv(t)'
<1>0. Undisturbed' => Undisturbed
  BY FaultsGrow, FaultsStay
<1>1. NodeOK' /\ CtrsGrow
  BY BaseStep DEF BaseInv
<1>2. CASE ReconcileStart
  BY <1>0, <1>2, OnceReconcileStart
<1>3. CASE updateLinks
  BY <1>0, <1>3, UpdateLinksEffect, OnceUpdate
<1>4. CASE updateLinksFails \/ updateLinksDone
  BY <1>0, <1>4, OnceUpdateEnd
<1>5. CASE reconcileBpfLink
  BY <1>5, LinkStepEffect, OnceVisit
<1>6. CASE processLinks
  BY <1>0, <1>6, ProcessLinksEffect, OnceProcess
<1>7. CASE Node
  <2>1. UNCHANGED <<agentVars, attached>> /\ spec' = spec
    BY <1>7, OthersLeaveAgent
       DEF Node, SchedulePod, StartSandbox, DeletePod, RemoveSandbox, StartContainer, ExitContainer,
           RemoveContainer, InterfaceAdded, InterfaceDeleted
  <2>2. QED
    BY <1>0, <1>1, <2>1, OnceOthers
<1>8. CASE \E s \in StoredSpecs : EditLinks(s)
  <2>1. UNCHANGED <<agentVars, attached>>
    BY <1>8, OthersLeaveAgent
  <2>2. spec'.type = spec.type /\ spec'.scope = spec.scope /\ spec'.function = spec.function
    BY <1>8 DEF EditLinks
  <2>3. QED
    BY <1>0, <1>1, <2>1, <2>2, OnceOthers
<1>9. CASE UNCHANGED vars
  <2>1. UNCHANGED <<agentVars, attached, spec>>
    BY <1>9 DEF vars
  <2>2. QED
    BY <1>0, <1>1, <2>1, OnceOthers
<1>10. CASE OtherController
  <2>1. OnceInv(tgt)'
    BY <1>10, OtherControllerEffect, OnceOtherController DEF BaseInv
  <2>2. QED
    BY <2>1
<1>11. QED
  BY <1>2, <1>3, <1>4, <1>5, <1>6, <1>7, <1>8, <1>9, <1>10 DEF Next, Reconcile

\* Entries attached at one place that do the same stand for one attach point.
LEMMA SamePoint ==
  ASSUME DistinctProceedOn, BaseInv, NEW tgt, NEW i \in DOMAIN links, NEW j \in DOMAIN links,
         AtOf(tgt, spec.type, links[i]) = AtOf(tgt, spec.type, links[j]),
         Does(spec, links[i]) = Does(spec, links[j])
  PROVE  Same(tgt, spec.type, links[i], links[j])
<1> DEFINE a == links[i]
           b == links[j]
<1>1. spec \in StoredSpecs /\ EntryOK(spec.type, nextPid, a) /\ EntryOK(spec.type, nextPid, b)
  BY DEF BaseInv, KindOK, EntriesOK
<1> HIDE DEF a, b
<1>2. a.iface = b.iface /\ a.attrs = b.attrs
  BY <1>1, SameDoes DEF a, b
<1>3. CASE spec.type \in NetTypes
  <2>1. a.containerPid = None /\ b.containerPid = None
    BY <1>1, <1>3 DEF EntryOK, NetTypes, UprobeTypes
  <2>2. QED
    BY <1>2, <1>3, <2>1 DEF Same, AtOf, a, b
<1>4. CASE spec.type \notin NetTypes
  <2>1. /\ a.containerPid = None \/ a.containerPid \in Nat
        /\ b.containerPid = None \/ b.containerPid \in Nat
    BY <1>1 DEF EntryOK
  <2>2. Host \notin Nat
    BY BpfLinksAssumption
  <2>3. a.containerPid = b.containerPid
    BY <1>4, <2>1, <2>2 DEF AtOf, a, b
  <2>4. QED
    BY <1>2, <1>4, <2>3 DEF Same, a, b
<1>5. QED
  BY <1>3, <1>4

LEMMA OnceGives ==
  ASSUME DistinctProceedOn, BaseInv, RecordInv, NEW tgt, OnceInv(tgt)
  PROVE  OncePerPoint
<1>1. SUFFICES ASSUME Undisturbed,
                      NEW l \in DOMAIN attached, NEW m \in DOMAIN attached, l # m, attached[l] = attached[m]
               PROVE  \E j \in DOMAIN links : links[j].id \in {l, m} /\ links[j].status = "DetachError"
  BY DEF OncePerPoint
<1>2. l # None /\ m # None
  BY BpfLinksAssumption DEF RecordInv
<1>3. PICK i \in DOMAIN links : links[i].id = l
  BY <1>1 DEF RecordInv, Matches, Undisturbed
<1>4. PICK j \in DOMAIN links : links[j].id = m
  BY <1>1 DEF RecordInv, Matches, Undisturbed
<1>5. /\ AtOf(tgt, spec.type, links[i]) = AtOf(tgt, spec.type, links[j])
      /\ Does(spec, links[i]) = Does(spec, links[j])
  <2>1. /\ attached[l] = [at |-> AtOf(tgt, spec.type, links[i]), does |-> Does(spec, links[i])]
        /\ attached[m] = [at |-> AtOf(tgt, spec.type, links[j]), does |-> Does(spec, links[j])]
    BY <1>3, <1>4 DEF OnceInv, WhereOK, HasLink
  <2>2. /\ attached[l].at = AtOf(tgt, spec.type, links[i]) /\ attached[l].does = Does(spec, links[i])
        /\ attached[m].at = AtOf(tgt, spec.type, links[j]) /\ attached[m].does = Does(spec, links[j])
    BY <2>1
  <2>3. QED
    BY <1>1, <2>2, Zenon
<1>6. Same(tgt, spec.type, links[i], links[j]) /\ Same(tgt, spec.type, links[j], links[i])
  BY <1>5, SamePoint
<1>7. i # j /\ i \in Int /\ j \in Int
  <2>1. DOMAIN links = 1..Len(links)
    BY ListFacts DEF RecordInv
  <2>2. QED
    BY <1>1, <1>3, <1>4, <2>1
<1>8. CASE i < j
  BY <1>1, <1>2, <1>3, <1>4, <1>6, <1>8 DEF OnceInv, PairsOK, PairOK
<1>9. CASE j < i
  BY <1>1, <1>2, <1>3, <1>4, <1>6, <1>9 DEF OnceInv, PairsOK, PairOK
<1>10. QED
  BY <1>7, <1>8, <1>9

(***************************************************************************)
(* What the API server admits of the entries the agent writes.             *)
(***************************************************************************)
LEMMA AdmittedInfo ==
  ASSUME NEW r, Admitted(r), NEW j \in DOMAIN r.links
  PROVE  LET ai == r.links[j] IN
         /\ r.type = "xdp" => InterfaceSelector(ai.ifs) /\ xdpMarkers(ai.attrs)
         /\ r.type = "tc"  => InterfaceSelector(ai.ifs) /\ tcMarkers(ai.attrs)
         /\ r.type = "tcx" => InterfaceSelector(ai.ifs) /\ tcxMarkers(ai.attrs)
         /\ r.type \in UprobeTypes => ai.attrs.target # None
         /\ r.type \in {"kprobe", "kretprobe"} => ai.attrs.function # None
         /\ r.type = "tracepoint" => ai.attrs.name # None
         /\ r.type \in NetTypes \cup UprobeTypes /\ r.scope # "cluster" => ai.sel # None
<1>1. CASE r.scope = "cluster"
  BY <1>1 DEF Admitted, ClBpfApplicationProgram, AllLinks, ClXdpAttachInfo, ClTcAttachInfo, ClTcxAttachInfo,
     ClUprobeAttachInfo, ClKprobeAttachInfo, ClKretprobeAttachInfo, ClTracepointAttachInfo, UprobeTypes
<1>2. CASE r.scope # "cluster"
  BY <1>2 DEF Admitted, BpfApplicationProgram, AllLinks, XdpAttachInfo, TcAttachInfo, TcxAttachInfo,
     UprobeAttachInfo, ClXdpAttachInfo, ClTcAttachInfo, ClTcxAttachInfo, ClUprobeAttachInfo, UprobeTypes,
       NetTypes
<1>3. QED
  BY <1>1, <1>2

\* The defaults keep the markers.
LEMMA MarkersFilled ==
  ASSUME NEW a, {"priority", "proceedOn", "direction"} \subseteq DOMAIN a
  PROVE  /\ xdpMarkers(a) => xdpMarkers(xdpDefaults(a))
         /\ tcMarkers(a) => tcMarkers(tcDefaults(a))
<1>1. ASSUME xdpMarkers(a) PROVE xdpMarkers(xdpDefaults(a))
  <2> DEFINE d == xdpDefaults(a)
             p == <<"Pass", "DispatcherReturn">>
  <2>1. d.priority = a.priority /\ d.proceedOn = IF a.proceedOn = None THEN p ELSE a.proceedOn
    BY DEF xdpDefaults, OrElse
  <2>2. Range(p) \subseteq XdpProceedOnValue
    BY DEF Range, XdpProceedOnValue
  <2> HIDE DEF d, p
  <2>3. QED
    BY <1>1, <2>1, <2>2 DEF xdpMarkers, d
<1>2. ASSUME tcMarkers(a) PROVE tcMarkers(tcDefaults(a))
  <2> DEFINE d == tcDefaults(a)
             p == <<"Pipe", "DispatcherReturn">>
  <2>1. /\ d.priority = a.priority /\ d.proceedOn = IF a.proceedOn = None THEN p ELSE a.proceedOn
        /\ d.direction = a.direction
    BY DEF tcDefaults, OrElse
  <2>2. Range(p) \subseteq TcProceedOnValue
    BY DEF Range, TcProceedOnValue
  <2> HIDE DEF d, p
  <2>3. QED
    BY <1>2, <2>1, <2>2 DEF tcMarkers, d
<1>3. QED
  BY <1>1, <1>2

\* The attachInfos of a stored program satisfy the markers of their type.
LEMMA StoredMarkers ==
  ASSUME NEW s \in StoredSpecs, NEW j \in DOMAIN s.links
  PROVE  LET b == s.links[j] IN
         /\ s.type = "xdp" => xdpMarkers(b.attrs)
         /\ s.type = "tc"  => tcMarkers(b.attrs)
         /\ s.type = "tcx" => tcxMarkers(b.attrs)
         /\ s.type \in UprobeTypes => b.attrs.target # None
         /\ s.type \in {"kprobe", "kretprobe"} => b.attrs.function # None
         /\ s.type = "tracepoint" => b.attrs.name # None
         /\ s.type \in NetTypes /\ b.ifs.names # None => None \notin b.ifs.names
<1> DEFINE b == s.links[j]
           t == s.type
<1>1. PICK r \in Specs : /\ Admitted(r) /\ t = r.type /\ s.scope = r.scope /\ DOMAIN s.links = DOMAIN r.links
                         /\ \A k \in DOMAIN s.links : Fills(t, s.links[k], r.links[k])
  BY StoredLinks
<1> DEFINE ai == r.links[j]
<1>2. /\ t = "xdp" => xdpMarkers(ai.attrs)
      /\ t = "tc"  => tcMarkers(ai.attrs)
      /\ t = "tcx" => tcxMarkers(ai.attrs)
      /\ t \in UprobeTypes => ai.attrs.target # None
      /\ t \in {"kprobe", "kretprobe"} => ai.attrs.function # None
      /\ t = "tracepoint" => ai.attrs.name # None
  BY <1>1, AdmittedInfo
<1>3. Fills(t, b, ai)
  BY <1>1
<1> HIDE DEF b, ai, t
<1>4. IsAttachInfo(t, ai) /\ b.attrs = FilledAttrs(t, ai.attrs) /\ b.ifs = FilledIfs(t, ai.ifs)
  BY <1>3 DEF Fills
<1>5. CASE t \in NetTypes
  <2>1. {"priority", "proceedOn", "direction"} \subseteq DOMAIN ai.attrs
    BY <1>4, <1>5 DEF IsAttachInfo
  <2>2. /\ t = "xdp" => xdpMarkers(b.attrs)
        /\ t = "tc"  => tcMarkers(b.attrs)
        /\ t = "tcx" => tcxMarkers(b.attrs)
    BY <1>2, <1>4, <2>1, MarkersFilled DEF FilledAttrs
  <2>3. b.ifs.names = ai.ifs.names
    BY <1>4, <1>5 DEF IsAttachInfo, FilledIfs, InterfaceDefaults
  <2>4. QED
    BY <1>4, <1>5, <2>2, <2>3 DEF IsAttachInfo, b, t, NetTypes, UprobeTypes
<1>6. CASE t \in UprobeTypes
  <2>1. b.attrs = probeDefaults(ai.attrs) /\ "target" \in DOMAIN ai.attrs
    BY <1>4, <1>6 DEF FilledAttrs, IsAttachInfo, UprobeTypes
  <2>2. b.attrs.target = ai.attrs.target
    BY <2>1 DEF probeDefaults
  <2>3. QED
    BY <1>2, <1>6, <2>2 DEF b, t, NetTypes, UprobeTypes
<1>7. CASE t \notin NetTypes \cup UprobeTypes
  <2>1. t = "kprobe" => b.attrs.function = ai.attrs.function
    BY <1>4 DEF FilledAttrs, IsAttachInfo, probeDefaults
  <2>2. t \in {"kretprobe", "tracepoint"} => b.attrs = ai.attrs
    BY <1>4 DEF FilledAttrs
  <2>3. QED
    BY <1>2, <1>7, <2>1, <2>2 DEF b, t, NetTypes, UprobeTypes
<1>8. QED
  BY <1>5, <1>6, <1>7

\* So do the entries made of them; the default priority is one.
LEMMA EntryMarkers ==
  ASSUME NEW t, NEW m, NEW l, EntryOK(t, m, l)
  PROVE  /\ t = "xdp" => l.attrs.priority # None /\ xdpMarkers(l.attrs)
         /\ t = "tc"  => l.attrs.priority # None /\ tcMarkers(l.attrs)
         /\ t = "tcx" => l.attrs.priority # None /\ tcxMarkers(l.attrs)
         /\ t \in UprobeTypes => l.attrs.target # None
         /\ t \in {"kprobe", "kretprobe"} => l.attrs.function # None
         /\ t = "tracepoint" => l.attrs.name # None
<1>1. PICK ai : FromInfo(t, l, ai)
  BY DEF EntryOK
<1>2. PICK s \in StoredSpecs : s.type = t /\ \E j \in DOMAIN s.links : ai = s.links[j]
  BY <1>1 DEF FromInfo
<1>3. PICK j \in DOMAIN s.links : ai = s.links[j]
  BY <1>2
<1> DEFINE a == ai.attrs
<1>4. l.attrs = AttrsOf(t, a)
  BY <1>1 DEF FromInfo
<1>5. /\ t = "xdp" => xdpMarkers(a)
      /\ t = "tc"  => tcMarkers(a)
      /\ t = "tcx" => tcxMarkers(a)
      /\ t \in UprobeTypes => a.target # None
      /\ t \in {"kprobe", "kretprobe"} => a.function # None
      /\ t = "tracepoint" => a.name # None
  BY <1>2, <1>3, StoredMarkers
<1> HIDE DEF a
<1>6. ASSUME Optional(a.priority, PriorityRange)
      PROVE  GetPriority(a.priority) # None /\ Optional(GetPriority(a.priority), PriorityRange)
  <2>1. None \notin Nat
    BY BpfLinksAssumption
  <2>2. QED
    BY <1>6, <2>1 DEF Optional, PriorityRange, GetPriority, DefaultAttachPriority
<1>7. t = "xdp" => l.attrs.priority # None /\ xdpMarkers(l.attrs)
  BY <1>4, <1>5, <1>6 DEF AttrsOf, UprobeTypes, xdpAttrs, xdpMarkers
<1>8. t = "tc" => l.attrs.priority # None /\ tcMarkers(l.attrs)
  BY <1>4, <1>5, <1>6 DEF AttrsOf, UprobeTypes, tcAttrs, tcMarkers
<1>9. t = "tcx" => l.attrs.priority # None /\ tcxMarkers(l.attrs)
  BY <1>4, <1>5, <1>6 DEF AttrsOf, UprobeTypes, tcxAttrs, tcxMarkers
<1>10. t \in UprobeTypes => l.attrs.target # None
  BY <1>4, <1>5 DEF AttrsOf, UprobeTypes, uprobeAttrs
<1>11. t \in {"kprobe", "kretprobe"} => l.attrs.function # None
  BY <1>4, <1>5 DEF AttrsOf, UprobeTypes, kprobeAttrs, kretprobeAttrs
<1>12. t = "tracepoint" => l.attrs.name # None
  BY <1>4, <1>5 DEF AttrsOf, UprobeTypes, tracepointAttrs
<1>13. QED
  BY <1>7, <1>8, <1>9, <1>10, <1>11, <1>12

\* What else the API server asks of an entry of program s.
Shape(s, l) ==
  /\ s.type \in NetTypes => l.iface # None
  /\ s.scope # "cluster" /\ s.type \in NetTypes => l.path # HostPath
  /\ s.scope # "cluster" /\ s.type \in UprobeTypes => l.containerPid # None

LEMMA InterfacesNamed ==
  ASSUME NEW s \in StoredSpecs, s.type \in NetTypes, NEW j \in DOMAIN s.links
  PROVE  None \notin getInterfaces(s.links[j].ifs)
<1>1. s.links[j].ifs.names # None => None \notin s.links[j].ifs.names
  BY StoredMarkers
<1>2. QED
  BY <1>1, BpfLinksAssumption DEF getInterfaces

LEMMA PodLinksShaped ==
  ASSUME NodeOK, NEW attrs, NEW ifs, NEW sel, None \notin getInterfaces(ifs),
         NEW E \in LinksInPods(attrs, ifs, sel), NEW l \in E
  PROVE  l.iface # None /\ l.path # HostPath
<1>1. PICK d \in UNION {GetOneContainerPerPod(cs) : cs \in GetContainers(sel)} :
        E = {createLinkEntry(attrs, x, netnsPathFromPID(extractPIDFromInspectInfo(c))) :
               x \in getInterfaces(ifs), c \in d}
  BY DEF LinksInPods
<1>2. PICK x \in getInterfaces(ifs), c \in d :
        l = createLinkEntry(attrs, x, netnsPathFromPID(extractPIDFromInspectInfo(c)))
  BY <1>1
<1>3. l.iface = x /\ l.path = <<"pid", extractPIDFromInspectInfo(c)>>
  BY <1>2, EntryFacts DEF netnsPathFromPID
<1>4. QED
  BY <1>2, <1>3 DEF HostPath

LEMMA ContainerLinksShaped ==
  ASSUME NodeOK, NEW attrs, NEW sel, NEW E \in LinksInContainers(attrs, sel), NEW l \in E
  PROVE  l.containerPid # None
<1>1. PICK cs \in GetContainers(sel) :
        E = {[NewLink(attrs) EXCEPT !.containerPid = extractPIDFromInspectInfo(c)] : c \in cs}
  BY DEF LinksInContainers
<1>2. PICK c \in cs : l = [NewLink(attrs) EXCEPT !.containerPid = extractPIDFromInspectInfo(c)]
  BY <1>1
<1>3. extractPIDFromInspectInfo(c) \in 0..(nextPid - 1) /\ nextPid \in Nat
  BY <1>1, <1>2, ContainersListed, PidsGiven DEF NodeOK
<1> DEFINE pid == extractPIDFromInspectInfo(c)
           n == NewLink(attrs)
<1>4. pid \in Nat /\ l = [n EXCEPT !.containerPid = pid] /\ IsNew(n)
  BY <1>2, <1>3, NewLinkFacts
<1> HIDE DEF pid, n
<1>5. l.containerPid = pid
  BY <1>4 DEF IsNew, IsLink
<1>6. QED
  BY <1>4, <1>5, BpfLinksAssumption

LEMMA ExpansionsShaped ==
  ASSUME NodeOK, NEW s \in StoredSpecs, NEW j \in DOMAIN s.links, NEW E \in Expansions(s, s.links[j]),
           NEW l \in E
  PROVE  Shape(s, l)
<1> DEFINE ai == s.links[j]
           a == AttrsOf(s.type, ai.attrs)
<1>1. CASE s.type \in NetTypes
  <2>1. None \notin getInterfaces(ai.ifs)
    BY <1>1, InterfacesNamed
  <2>2. s.type \notin UprobeTypes
    BY <1>1 DEF NetTypes, UprobeTypes
  <2>3. ASSUME NEW sel, E \in LinksInPods(a, ai.ifs, sel) PROVE Shape(s, l)
    BY <2>1, <2>2, <2>3, PodLinksShaped DEF Shape
  <2> HIDE DEF ai, a
  <2>4. CASE s.scope = "cluster" /\ E \in clNetLinks(a, ai)
    <3>1. ASSUME E = {createLinkEntry(a, x[1], x[2]) : x \in getDiscoveredInterfaces(ai.ifs.discovery)}
          PROVE  l.iface # None
      <4>1. PICK x \in getDiscoveredInterfaces(ai.ifs.discovery) : l = createLinkEntry(a, x[1], x[2])
        BY <3>1
      <4>2. PICK key \in ifmap : x = <<key.name, NamedPath(key.netns)>>
        BY <4>1 DEF getDiscoveredInterfaces
      <4>3. l.iface = key.name
        BY <4>1, <4>2, EntryFacts
      <4>4. QED
        BY <4>3, BpfLinksAssumption DEF NodeOK
    <3>2. ASSUME E = {createLinkEntry(a, x, HostPath) : x \in getInterfaces(ai.ifs)}
          PROVE  l.iface # None
      BY <2>1, <3>2, EntryFacts
    <3>3. (\E sel : E \in LinksInPods(a, ai.ifs, sel)) \/ l.iface # None
      BY <2>4, <3>1, <3>2 DEF clNetLinks
    <3>4. QED
      BY <2>2, <2>3, <2>4, <3>3 DEF Shape
  <2>5. CASE s.scope # "cluster" /\ E \in nsNetLinks(a, ai)
    BY <2>3, <2>5 DEF nsNetLinks
  <2>6. QED
    BY <1>1, <2>4, <2>5 DEF Expansions, ai, a
<1>2. CASE s.type \in UprobeTypes /\ s.scope # "cluster" /\ s.type \notin NetTypes
  <2>1. PICK sel : E \in LinksInContainers(a, sel)
    BY <1>2 DEF Expansions
  <2>2. QED
    BY <1>2, <2>1, ContainerLinksShaped DEF Shape
<1>3. QED
  BY <1>1, <1>2 DEF Shape

(***************************************************************************)
(* The type invariant.                                                     *)
(***************************************************************************)
NodeTypes ==
  /\ stage \in [Pods -> {"new", "listed", "deleted"}]
  /\ \A c \in ctrs : c.name \in CtrNames /\ c.up \in BOOLEAN

ShapeInv ==
  /\ \A j \in DOMAIN links : Shape(spec, links[j])
  /\ \A l \in expected : Shape(spec, l)

OneLink == spec.type \in {"fentry", "fexit"} => Len(links) <= 1

IndexOK ==
  /\ pc = "idle" => pos = 1
  /\ pc = "update" => pos <= Len(cur.links) + 1
  /\ pc = "process" => pos <= Len(links) + 1

CacheNets == \A x \in DOMAIN cache : cache[x] \in Nets

FaultsOK == faults \in [count : 0..MaxFaults, kinds : SUBSET Faults]

FlagsOK ==
  /\ linkStatus \in {"Pending", "Success", "Error", "UpdateAttachInfoError"}
  /\ pc \in {"idle", "update", "process"}
  /\ dirty \in BOOLEAN /\ changes \in 0..MaxChanges /\ FaultsOK

TypeInv == NodeTypes /\ ShapeInv /\ OneLink /\ IndexOK /\ CacheNets /\ FlagsOK

LEMMA StartTypes ==
  ASSUME Init
  PROVE  TypeInv
<1>1. PICK b \in Starts :
        /\ stage = [p \in Pods |-> IF p \in b.run  THEN "listed"  ELSE
                                   IF p \in b.gone THEN "deleted" ELSE "new"]
        /\ ctrs = InitCtrs(b)
  BY DEF Init
<1>2. NodeTypes
  <2>1. stage \in [Pods -> {"new", "listed", "deleted"}]
    BY <1>1
  <2>2. ASSUME NEW c \in ctrs PROVE c.name \in CtrNames /\ c.up \in BOOLEAN
    <3> DEFINE order == SetToSeq(b.run \cup b.gone)
               name == CHOOSE n \in CtrNames : TRUE
    <3>1. PICK j \in DOMAIN order : c = [pid |-> j, pod |-> order[j], name |-> name, up |-> order[j] \in b.run]
      BY <1>1 DEF InitCtrs
    <3>2. name \in CtrNames
      BY BpfLinksAssumption
    <3> DEFINE up == order[j] \in b.run
    <3>3. up \in BOOLEAN
      <4> HIDE DEF order
      <4>1. QED
        OBVIOUS
    <3>4. c = [pid |-> j, pod |-> order[j], name |-> name, up |-> up]
      BY <3>1
    <3> HIDE DEF order, name, up
    <3>5. QED
      BY <3>2, <3>3, <3>4
  <2>3. QED
    BY <2>1, <2>2 DEF NodeTypes
<1>3. DOMAIN links = {} /\ Len(links) = 0 /\ expected = {} /\ pc = "idle" /\ pos = 1
  BY DEF Init
<1>4. DOMAIN cache = {}
  BY DEF Init, NoPaths
<1>5. FlagsOK
  <2>1. dirty \in BOOLEAN
    BY Zenon DEF Init
  <2>2. FaultsOK
    BY BpfLinksAssumption DEF Init, FaultsOK
  <2>3. QED
    BY <2>1, <2>2, BpfLinksAssumption DEF Init, FlagsOK
<1>6. QED
  BY <1>2, <1>3, <1>4, <1>5 DEF TypeInv, ShapeInv, OneLink, IndexOK, CacheNets

LEMMA TypeGives ==
  ASSUME BaseInv, TypeInv
  PROVE  TypeOK
<1>1. {spec, cur} \subseteq StoredSpecs /\ IsList(links) /\ nextPid \in Nat /\ pos \in Nat \ {0}
  BY DEF BaseInv, KindOK, EntriesOK, NodeOK
<1>2. \A c \in ctrs : c.pid \in 1..(nextPid - 1) /\ c.pod \in sandbox
  BY DEF BaseInv, NodeOK
<1>3. StateAdmitted(spec, links)
  <2> DEFINE t == spec.type
  <2>1. ASSUME NEW j \in DOMAIN links
        PROVE  EntryOK(t, nextPid, links[j]) /\ AttachInfoStateCommon(links[j]) /\ Shape(spec, links[j])
    BY DEF BaseInv, EntriesOK, EntryOK, IsLink, AttachInfoStateCommon, TypeInv, ShapeInv
  <2>2. t \in ProgramTypeSet /\ (t \notin NetTypes \cup UprobeTypes => spec.scope = "cluster")
    BY <1>1, StoredType
  <2>3. t \in NetTypes =>
          \A j \in DOMAIN links : /\ links[j].iface # None
                                  /\ spec.scope # "cluster" => links[j].path # HostPath
    BY <2>1 DEF Shape
  <2>4. /\ t = "xdp" => AllEntries(links, ClXdpAttachInfoState)
        /\ t = "xdp" /\ spec.scope # "cluster" => AllEntries(links, XdpAttachInfoState)
    BY <2>1, <2>3, EntryMarkers DEF AllEntries, ClXdpAttachInfoState, XdpAttachInfoState, NetTypes
  <2>5. /\ t = "tc" => AllEntries(links, ClTcAttachInfoState)
        /\ t = "tc" /\ spec.scope # "cluster" => AllEntries(links, TcAttachInfoState)
    BY <2>1, <2>3, EntryMarkers DEF AllEntries, ClTcAttachInfoState, TcAttachInfoState, NetTypes
  <2>6. /\ t = "tcx" => AllEntries(links, ClTcxAttachInfoState)
        /\ t = "tcx" /\ spec.scope # "cluster" => AllEntries(links, TcxAttachInfoState)
    BY <2>1, <2>3, EntryMarkers DEF AllEntries, ClTcxAttachInfoState, TcxAttachInfoState, NetTypes
  <2>7. /\ t \in UprobeTypes => AllEntries(links, ClUprobeAttachInfoState)
        /\ t \in UprobeTypes /\ spec.scope # "cluster" => AllEntries(links, UprobeAttachInfoState)
    BY <2>1, EntryMarkers DEF AllEntries, ClUprobeAttachInfoState, UprobeAttachInfoState, Shape
  <2>8. /\ t = "kprobe" => AllEntries(links, ClKprobeAttachInfoState)
        /\ t = "kretprobe" => AllEntries(links, ClKretprobeAttachInfoState)
        /\ t = "tracepoint" => AllEntries(links, ClTracepointAttachInfoState)
    BY <2>1, EntryMarkers DEF AllEntries, ClKprobeAttachInfoState, ClKretprobeAttachInfoState,
                              ClTracepointAttachInfoState
  <2>9. t \in {"fentry", "fexit"} => Len(links) <= 1 /\ AllEntries(links, AttachInfoStateCommon)
    BY <2>1 DEF AllEntries, TypeInv, OneLink
  <2> HIDE DEF t
  <2>10. CASE spec.scope = "cluster"
    <3>1. ClBpfApplicationProgramState(t, links)
      BY <2>2, <2>4, <2>5, <2>6, <2>7, <2>8, <2>9
         DEF ClBpfApplicationProgramState, ClFentryProgramInfoState, ClFexitProgramInfoState, ProgramTypeSet,
             NetTypes, UprobeTypes
    <3>2. QED
      BY <2>10, <3>1 DEF StateAdmitted, t
  <2>11. CASE spec.scope # "cluster"
    <3>1. BpfApplicationProgramState(t, links)
      BY <2>2, <2>4, <2>5, <2>6, <2>7, <2>11 DEF BpfApplicationProgramState, NetTypes, UprobeTypes
    <3>2. QED
      BY <2>11, <3>1 DEF StateAdmitted, t
  <2>12. QED
    BY <2>10, <2>11
<1>4. pos \in 1..((IF pc = "update" THEN Len(cur.links) ELSE Len(links)) + 1)
  <2>1. Len(links) \in Nat /\ Len(cur.links) \in Nat
    BY <1>1, ListFacts, StoredFacts
  <2>2. QED
    BY <1>1, <2>1 DEF TypeInv, IndexOK, FlagsOK
<1>5. \A j \in DOMAIN links : links[j].id \in LinkIds \cup {None}
  BY <1>1 DEF IsList, IsLink
<1>6. \A x \in DOMAIN cache : cache[x] \in Pods \cup {Host}
  BY DEF TypeInv, CacheNets, Nets
<1>7. sandbox \subseteq Pods /\ ifmap \subseteq IfaceKeys
  BY DEF BaseInv, NodeOK
<1>8. QED
  BY <1>1, <1>2, <1>3, <1>4, <1>5, <1>6, <1>7, Zenon DEF TypeOK, TypeInv, NodeTypes, FlagsOK, FaultsOK

\* One step of the node.
LEMMA NodeTypesStep ==
  ASSUME NodeOK, NodeTypes, Node
  PROVE  NodeTypes'
<1>1. ASSUME NEW p \in Pods, NEW n \in CtrNames, StartContainer(p, n) PROVE NodeTypes'
  <2> DEFINE yes == TRUE
             new == [pid |-> nextPid, pod |-> p, name |-> n, up |-> yes]
  <2>1. stage' = stage /\ ctrs' = ctrs \cup {new}
    BY <1>1 DEF StartContainer
  <2>2. yes \in BOOLEAN
    OBVIOUS
  <2> HIDE DEF yes
  <2>3. new.name = n /\ new.up = yes
    OBVIOUS
  <2> HIDE DEF new
  <2>4. QED
    BY <2>1, <2>2, <2>3, Zenon DEF NodeTypes
<1>2. ASSUME NEW c \in ctrs, ExitContainer(c) PROVE NodeTypes'
  <2> DEFINE no == FALSE
             new == [c EXCEPT !.up = no]
  <2>1. stage' = stage /\ ctrs' = (ctrs \ {c}) \cup {new}
    BY <1>2 DEF ExitContainer
  <2>2. no \in BOOLEAN
    OBVIOUS
  <2> HIDE DEF no
  <2>3. new.name = c.name /\ new.up = no
    BY DEF NodeOK
  <2> HIDE DEF new
  <2>4. QED
    BY <2>1, <2>2, <2>3, Zenon DEF NodeTypes
<1>3. ASSUME NEW p \in Pods, SchedulePod(p) \/ DeletePod(p) PROVE NodeTypes'
  <2>1. ctrs' = ctrs /\ stage' \in [Pods -> {"new", "listed", "deleted"}]
    BY <1>3 DEF SchedulePod, DeletePod, NodeTypes
  <2>2. QED
    BY <2>1, Zenon DEF NodeTypes
<1>4. ASSUME stage' = stage, ctrs' \subseteq ctrs PROVE NodeTypes'
  BY <1>4, Zenon DEF NodeTypes
<1>5. ASSUME NEW p \in Pods, StartSandbox(p) \/ RemoveSandbox(p) PROVE NodeTypes'
  <2>1. stage' = stage /\ ctrs' \subseteq ctrs
    BY <1>5 DEF StartSandbox, RemoveSandbox
  <2>2. QED
    BY <1>4, <2>1
<1>6. ASSUME NEW c \in ctrs, RemoveContainer(c) PROVE NodeTypes'
  <2>1. stage' = stage /\ ctrs' \subseteq ctrs
    BY <1>6 DEF RemoveContainer
  <2>2. QED
    BY <1>4, <2>1
<1>7. ASSUME NEW key \in IfaceKeys, InterfaceAdded(key) \/ InterfaceDeleted(key) PROVE NodeTypes'
  <2>1. stage' = stage /\ ctrs' \subseteq ctrs
    BY <1>7 DEF InterfaceAdded, InterfaceDeleted
  <2>2. QED
    BY <1>4, <2>1
<1>8. QED
  BY <1>1, <1>2, <1>3, <1>5, <1>6, <1>7 DEF Node

LEMMA ShapeStays ==
  ASSUME NEW s, NEW a, NEW b, Shape(s, b), Static(a, b), NEW r, r.type = s.type, r.scope = s.scope
  PROVE  Shape(r, a)
BY DEF Shape, Static

LEMMA ShapesStay ==
  ASSUME ShapeInv, Stems, expected' \subseteq expected, spec'.type = spec.type, spec'.scope = spec.scope
  PROVE  ShapeInv'
<1>1. ASSUME NEW l \in expected PROVE Shape(spec', l)
  <2>1. Shape(spec, l) /\ Static(l, l)
    BY DEF ShapeInv, Static
  <2>2. QED
    BY <2>1, ShapeStays
<1>2. ASSUME NEW j \in DOMAIN links' PROVE Shape(spec', links'[j])
  <2>1. ASSUME NEW i \in DOMAIN links, Static(links'[j], links[i]) PROVE Shape(spec', links'[j])
    <3>1. Shape(spec, links[i])
      BY DEF ShapeInv
    <3>2. QED
      BY <2>1, <3>1, ShapeStays
  <2>2. QED
    BY <1>1, <2>1 DEF Stems
<1>3. QED
  BY <1>1, <1>2 DEF ShapeInv, Shape

\* What a path the agent recorded leads to is a network.
LEMMA PathsLeadToNets ==
  ASSUME NodeOK, NEW x, ProperPath(nextPid, x), Stat(x) # None
  PROVE  Stat(x) \in Nets
<1>1. CASE x = HostPath
  BY <1>1, StatOf DEF Nets
<1>2. ASSUME NEW n, x = <<"ns", n>> PROVE Stat(x) \in Nets
  <2>1. n \in sandbox /\ Stat(x) = n
    BY <1>2, StatOf
  <2>2. QED
    BY <2>1 DEF NodeOK, Nets
<1>3. ASSUME NEW n, x = <<"pid", n>> PROVE Stat(x) \in Nets
  <2> DEFINE d == CHOOSE c \in ctrs : c.pid = n
  <2>1. Running(n) /\ Stat(x) = PodNet(d.pod)
    BY <1>3, StatOf
  <2>2. d \in ctrs
    BY <2>1 DEF Running
  <2>3. d.pod \in Pods
    BY <2>2 DEF NodeOK
  <2> HIDE DEF d
  <2>4. QED
    BY <2>1, <2>3, PodNets
<1>4. QED
  BY <1>1, <1>2, <1>3 DEF ProperPath

LEMMA RememberNets ==
  ASSUME BaseInv, CacheNets, NEW P, \A x \in P : ProperPath(nextPid, x), cache' = Remember(cache, P)
  PROVE  CacheNets'
<1>1. ASSUME NEW x \in DOMAIN Remember(cache, P) PROVE Remember(cache, P)[x] \in Nets
  <2>1. /\ Remember(cache, P)[x] = GetNetNsId(cache, x)
        /\ x \in DOMAIN cache \/ (x \in P /\ GetNetNsId(cache, x) # None)
    BY Remembered
  <2>2. CASE x \in DOMAIN cache
    BY <2>1, <2>2 DEF GetNetNsId, CacheNets
  <2>3. CASE x \notin DOMAIN cache
    <3>1. Stat(x) # None /\ GetNetNsId(cache, x) = Stat(x) /\ ProperPath(nextPid, x)
      BY <2>1, <2>3 DEF GetNetNsId
    <3>2. QED
      BY <2>1, <3>1, PathsLeadToNets DEF BaseInv
  <2>4. QED
    BY <2>2, <2>3
<1>2. QED
  BY <1>1 DEF CacheNets

LEMMA CacheStep ==
  ASSUME BaseInv, CacheNets, NEW l \in expected, LookedUp(l)
  PROVE  CacheNets'
<1> DEFINE P == Asked(l, FoundFor(l))
<1>1. ProperPath(nextPid, l.path) /\ \A j \in DOMAIN links : ProperPath(nextPid, links[j].path)
  BY DEF BaseInv, EntriesOK, ExpectedOK, EntryOK
<1>2. \A x \in P : ProperPath(nextPid, x)
  BY <1>1 DEF Asked
<1>3. cache' = cache \/ cache' = Remember(cache, P)
  BY DEF LookedUp
<1> HIDE DEF P
<1>4. QED
  BY <1>2, <1>3, RememberNets DEF CacheNets

\* updateLinks never gives a program of type fentry or fexit a second link.
LEMMA OneLinkFound ==
  ASSUME BaseInv, OneLink, NEW l \in expected, LookedUp(l), spec' = spec
  PROVE  OneLink' /\ Len(links') \in Nat
<1> DEFINE t == spec.type
<1>1. IsList(links) /\ Len(links) \in Nat /\ DOMAIN links = 1..Len(links) /\ IsLink(l) /\ cur.type = t
  BY ListFacts DEF BaseInv, EntriesOK, ExpectedOK, EntryOK, KindOK
<1>2. CASE links' = links
  BY <1>1, <1>2 DEF OneLink
<1>3. CASE FoundFor(l) # {} /\ links' = AddExpected(l, FoundFor(l))
  <2>1. PICK b \in [DOMAIN links -> BOOLEAN] : Marks(links', links, b)
    BY <1>1, <1>3, FoundMarked
  <2>2. IsList(links') /\ DOMAIN links' = DOMAIN links
    BY <2>1 DEF Marks
  <2>3. Len(links') \in Nat /\ 1..Len(links') = 1..Len(links)
    BY <1>1, <2>2, ListFacts
  <2>4. Len(links') = Len(links)
    BY <1>1, <2>3
  <2>5. QED
    BY <1>1, <2>4 DEF OneLink
<1>4. CASE FoundFor(l) = {} /\ links' = Append(links, l)
  <2>1. Len(links') = Len(links) + 1
    BY <1>1, <1>4, AppendList
  <2>2. ASSUME t \in {"fentry", "fexit"} PROVE DOMAIN links = {}
    <3>1. SUFFICES ASSUME NEW j \in DOMAIN links PROVE FALSE
      OBVIOUS
    <3>2. EntryOK(t, nextPid, links[j]) /\ EntryOK(t, nextPid, l)
      BY DEF BaseInv, EntriesOK, ExpectedOK
    <3>3. \A a : EntryOK(t, nextPid, a) => a.attrs = <<>> /\ a.iface = None /\ a.containerPid = None
      BY <2>2 DEF EntryOK, FromInfo, AttrsOf, NetTypes, UprobeTypes
    <3>4. Agree(t, links[j], l, cache)
      BY <2>2, <3>2, <3>3 DEF Agree, NetTypes
    <3>5. QED
      BY <1>1, <1>4, <3>4 DEF FoundFor
  <2>3. t \in {"fentry", "fexit"} => Len(links) = 0
    BY <1>1, <2>2
  <2>4. QED
    BY <1>1, <2>1, <2>3 DEF OneLink
<1>5. QED
  BY <1>2, <1>3, <1>4 DEF LookedUp, AddExpected

\* removeLinks makes no list longer.
LEMMA RemovedLen ==
  ASSUME IsList(links), ProcessEffect
  PROVE  Len(links') \in Nat /\ Len(links') <= Len(links)
<1> DEFINE kept == {j \in DOMAIN links : ~Unused(links[j])}
<1>1. Len(links) \in Nat /\ DOMAIN links = 1..Len(links)
  BY ListFacts
<1>2. kept \in SUBSET (1..Len(links))
  BY <1>1
<1>3. links' = Keep(links, kept)
  BY DEF ProcessEffect, removeLinks
<1> HIDE DEF kept
<1>4. PICK ord : Reorders(ord, Keep(links, kept), links, kept)
  BY <1>1, <1>2, KeepIsReordering
<1>5. Cardinality(kept) \in Nat /\ Cardinality(kept) <= Len(links)
  <2>1. \A n \in Nat : IsFiniteSet(1..n) /\ Cardinality(1..n) = n
    BY FS_Interval
  <2>2. Cardinality(kept) <= Cardinality(1..Len(links))
    BY <1>1, <1>2, <2>1, FS_Subset
  <2>3. QED
    BY <1>1, <1>2, <2>1, <2>2, KeepIsReordering
<1>6. /\ links' = [j \in 1..Cardinality(kept) |-> links'[j]]
      /\ \A j \in 1..Cardinality(kept) : ord[j] \in DOMAIN links /\ links'[j] = links[ord[j]]
  BY <1>1, <1>2, <1>3, <1>4 DEF Reorders
<1>7. \A j \in 1..Cardinality(kept) : IsLink(links'[j])
  BY <1>6 DEF IsList
<1>8. Len(links') = Cardinality(kept)
  BY <1>5, <1>6, <1>7, MakeList
<1>9. QED
  BY <1>5, <1>8

LEMMA VisitedLen ==
  ASSUME IsList(links), NEW m, LinkEffect(m)
  PROVE  Len(links') = Len(links)
<1>1. /\ Len(links) \in Nat /\ DOMAIN links = 1..Len(links) /\ pos \in DOMAIN links
      /\ IsLink(m) /\ links' = [links EXCEPT ![pos] = m]
  BY ListFacts DEF LinkEffect, LinkVisited
<1>2. links' = [j \in 1..Len(links) |-> links'[j]] /\ \A j \in 1..Len(links) : IsLink(links'[j])
  BY <1>1 DEF IsList
<1>3. QED
  BY <1>1, <1>2, MakeList

LEMMA ClearedLen ==
  ASSUME IsList(links), ReconcileStart
  PROVE  Len(links') = Len(links)
<1>1. PICK b \in [DOMAIN links -> BOOLEAN] : Marks(links', links, b)
  BY ClearedLinks DEF ReconcileStart
<1>2. IsList(links') /\ DOMAIN links' = DOMAIN links
  BY <1>1 DEF Marks
<1>3. Len(links') \in Nat /\ Len(links) \in Nat /\ 1..Len(links') = 1..Len(links)
  BY <1>2, ListFacts
<1>4. QED
  BY <1>3

\* Steps of the agent.
LEMMA UpdateTypes ==
  ASSUME BaseInv, TypeInv, UpdateEffect
  PROVE  ShapeInv' /\ OneLink' /\ IndexOK' /\ CacheNets'
<1>1. ShapeInv /\ OneLink /\ IndexOK /\ CacheNets /\ EntriesOK
  BY DEF TypeInv, BaseInv
<1>2. pc' = pc /\ cur' = cur /\ spec' = spec /\ pc = "update"
  BY DEF UpdateEffect
<1>3. CASE Expanded
  <2>1. UNCHANGED <<links, cache>> /\ pos \in DOMAIN cur.links /\ pos' = pos + 1
    BY <1>3 DEF Expanded
  <2>2. Len(cur.links) \in Nat /\ DOMAIN cur.links = 1..Len(cur.links)
    BY StoredFacts DEF BaseInv, KindOK
  <2>3. IndexOK'
    <3>1. pos + 1 <= Len(cur.links) + 1
      BY <2>1, <2>2
    <3>2. QED
      BY <1>2, <2>1, <3>1 DEF IndexOK
  <2>4. \A l \in expected' : Shape(cur, l)
    BY <1>3, <2>1, ExpansionsShaped DEF Expanded, BaseInv, KindOK
  <2>5. ShapeInv'
    <3>1. \A l \in expected' : Shape(spec, l)
      BY <2>4 DEF BaseInv, KindOK, Shape
    <3>2. QED
      BY <1>1, <1>2, <2>1, <3>1 DEF ShapeInv, Shape
  <2>6. QED
    BY <1>1, <1>2, <2>1, <2>3, <2>5 DEF OneLink, CacheNets
<1>4. ASSUME NEW l \in expected, LookedUp(l)
      PROVE  ShapeInv' /\ OneLink' /\ IndexOK' /\ CacheNets'
  <2>1. expected' \subseteq expected /\ pos' = pos
    BY <1>4 DEF LookedUp
  <2>2. ShapeInv'
    BY <1>1, <1>2, <1>4, <2>1, LookUpStems, ShapesStay
  <2>3. IndexOK'
    BY <1>1, <1>2, <2>1 DEF IndexOK
  <2>4. QED
    BY <1>1, <1>2, <1>4, <2>2, <2>3, OneLinkFound, CacheStep
<1>5. QED
  BY <1>3, <1>4 DEF UpdateEffect

LEMMA AgentTypes ==
  ASSUME BaseInv, TypeInv, Reconcile
  PROVE  ShapeInv' /\ OneLink' /\ IndexOK' /\ CacheNets'
<1>1. /\ ShapeInv /\ OneLink /\ IndexOK /\ CacheNets /\ EntriesOK /\ IsList(links) /\ KindOK
      /\ Len(links) \in Nat /\ pos \in Nat
  BY ListFacts DEF TypeInv, BaseInv, EntriesOK
<1>2. links' = links => Stems
  BY <1>1 DEF Stems, Static
<1>3. DOMAIN NoPaths = {}
  BY DEF NoPaths
<1>4. CASE ReconcileStart
  <2>1. spec' = spec /\ expected' = {} /\ pos' = 1 /\ pc' = "update" /\ cur' = spec /\ cache' = NoPaths
    BY <1>4 DEF ReconcileStart
  <2>2. ShapeInv'
    BY <1>1, <1>4, <2>1, StartStems, ShapesStay
  <2>3. OneLink'
    BY <1>1, <1>4, <2>1, ClearedLen DEF OneLink
  <2>4. IndexOK'
    <3>1. Len(spec.links) \in Nat
      BY <1>1, StoredFacts DEF KindOK
    <3>2. QED
      BY <2>1, <3>1 DEF IndexOK
  <2>5. QED
    BY <1>3, <2>1, <2>2, <2>3, <2>4 DEF CacheNets
<1>5. CASE updateLinks
  BY <1>5, UpdateLinksEffect, UpdateTypes
<1>6. CASE updateLinksFails \/ updateLinksDone
  <2>1. /\ spec' = spec /\ expected' = expected /\ pos' = 1 /\ links' = links /\ cache' = NoPaths
        /\ pc' \in {"idle", "process"}
    BY <1>6 DEF updateLinksFails, updateLinksDone
  <2>2. ShapeInv'
    BY <1>1, <1>2, <2>1, ShapesStay
  <2>3. QED
    BY <1>1, <1>3, <2>1, <2>2 DEF OneLink, IndexOK, CacheNets
<1>7. CASE reconcileBpfLink
  <2>1. PICK m : LinkEffect(m)
    BY <1>7, LinkStepEffect
  <2>2. /\ spec' = spec /\ expected' = expected /\ pos' = pos + 1 /\ cache' = cache /\ pc' = pc
        /\ pc = "process" /\ pos <= Len(links)
    BY <2>1 DEF LinkEffect, LinkVisited, AtLink
  <2>3. ShapeInv'
    BY <1>1, <2>1, <2>2, VisitStems, ShapesStay
  <2>4. Len(links') = Len(links)
    BY <1>1, <2>1, VisitedLen
  <2>5. QED
    BY <1>1, <2>2, <2>3, <2>4 DEF OneLink, IndexOK, CacheNets
<1>8. CASE processLinks
  <2>1. ProcessEffect
    BY <1>8, ProcessLinksEffect
  <2>2. spec' = spec /\ expected' = expected /\ pos' = 1 /\ cache' = cache /\ pc' = "idle"
    BY <2>1 DEF ProcessEffect
  <2>3. ShapeInv'
    BY <1>1, <2>1, <2>2, ProcessStems, ShapesStay
  <2>4. Len(links') \in Nat /\ Len(links') <= Len(links)
    BY <1>1, <2>1, RemovedLen
  <2>5. QED
    BY <1>1, <2>2, <2>3, <2>4 DEF OneLink, IndexOK, CacheNets
<1>9. QED
  BY <1>4, <1>5, <1>6, <1>7, <1>8 DEF Reconcile

LEMMA FaultsTyped ==
  ASSUME FaultsOK, FaultStep
  PROVE  FaultsOK'
<1>1. CASE faults' = faults
  BY <1>1 DEF FaultsOK
<1>2. CASE /\ faults.count < MaxFaults /\ faults'.kinds \ faults.kinds \subseteq Faults
           /\ faults' = [count |-> faults.count + 1, kinds |-> faults'.kinds]
  <2>1. faults.count \in 0..MaxFaults /\ faults.kinds \subseteq Faults /\ MaxFaults \in Nat
    BY BpfLinksAssumption DEF FaultsOK
  <2>2. faults.count + 1 \in 0..MaxFaults /\ faults'.kinds \in SUBSET Faults
    BY <1>2, <2>1
  <2>3. QED
    BY <1>2, <2>2 DEF FaultsOK
<1>3. QED
  BY <1>1, <1>2 DEF FaultStep

\* The status, the counters and the flag that something changed.
LEMMA FlagsStep ==
  ASSUME BaseInv, FlagsOK, Next
  PROVE  FlagsOK'
<1>1. /\ linkStatus \in {"Pending", "Success", "Error", "UpdateAttachInfoError"}
      /\ pc \in {"idle", "update", "process"} /\ dirty \in BOOLEAN
      /\ changes \in 0..MaxChanges /\ FaultsOK /\ MaxChanges \in Nat
  BY BpfLinksAssumption DEF FlagsOK
<1>2. FaultsOK'
  BY <1>1, FaultsGrow, FaultsTyped
<1>3. ASSUME UNCHANGED <<dirty, changes>>,
             linkStatus' \in {"Pending", "Success", "Error", "UpdateAttachInfoError"},
             pc' \in {"idle", "update", "process"}
      PROVE  FlagsOK'
  <2>1. dirty' \in BOOLEAN /\ changes' \in 0..MaxChanges
    BY <1>1, <1>3
  <2>2. QED
    BY <1>2, <1>3, <2>1, Zenon DEF FlagsOK
<1>4. CASE ReconcileStart
  <2>1. /\ linkStatus' = linkStatus /\ changes' = changes /\ pc' = "update"
    BY <1>4 DEF ReconcileStart
  <2>2. dirty' \in BOOLEAN
    BY <1>4 DEF ReconcileStart
  <2>3. changes' \in 0..MaxChanges
    BY <1>1, <2>1
  <2>4. QED
    BY <1>1, <1>2, <2>1, <2>2, <2>3, Zenon DEF FlagsOK
<1>5. CASE updateLinks
  BY <1>1, <1>3, <1>5, UpdateLinksEffect DEF UpdateEffect
<1>6. CASE updateLinksFails \/ updateLinksDone
  <2>1. /\ UNCHANGED <<dirty, changes>>
        /\ linkStatus' \in {linkStatus, "UpdateAttachInfoError"} /\ pc' \in {"idle", "process"}
    BY <1>6 DEF updateLinksFails, updateLinksDone
  <2>2. QED
    BY <1>1, <1>3, <2>1
<1>7. CASE reconcileBpfLink
  <2>1. /\ UNCHANGED <<dirty, changes, linkStatus, pc>>
    BY <1>7, LinkStepEffect DEF LinkEffect, LinkVisited
  <2>2. QED
    BY <1>1, <1>3, <2>1
<1>8. CASE processLinks
  BY <1>1, <1>3, <1>8, ProcessLinksEffect DEF ProcessEffect
<1>9. CASE Node \/ \E s \in StoredSpecs : EditLinks(s)
  <2>1. Change
    BY <1>9 DEF Node, EditLinks, SchedulePod, StartSandbox, DeletePod, RemoveSandbox, StartContainer,
              ExitContainer,
       RemoveContainer, InterfaceAdded, InterfaceDeleted
  <2>2. changes' \in 0..MaxChanges /\ linkStatus' = linkStatus /\ pc' = pc
    BY <1>1, <2>1 DEF Change, agentVars
  <2>3. dirty' \in BOOLEAN
    BY <2>1 DEF Change
  <2>4. QED
    BY <1>1, <1>2, <2>2, <2>3, Zenon DEF FlagsOK
<1>10. CASE OtherController
  BY <1>1, <1>3, <1>10, OtherControllerEffect DEF BaseInv, OtherEffect
<1>11. QED
  BY <1>4, <1>5, <1>6, <1>7, <1>8, <1>9, <1>10 DEF Next, Reconcile

LEMMA TypeStep ==
  ASSUME BaseInv, TypeInv, [Next]_vars
  PROVE  TypeInv'
<1>1. /\ NodeTypes /\ ShapeInv /\ OneLink /\ IndexOK /\ CacheNets /\ FlagsOK /\ NodeOK /\ KindOK
           /\ IsList(links)
  BY DEF TypeInv, BaseInv, EntriesOK
<1>2. ASSUME UNCHANGED nodeVars PROVE NodeTypes'
  BY <1>1, <1>2 DEF NodeTypes, nodeVars
<1>3. ASSUME UNCHANGED agentVars, spec'.type = spec.type, spec'.scope = spec.scope
      PROVE  ShapeInv' /\ OneLink' /\ IndexOK' /\ CacheNets'
  <2>1. UNCHANGED <<links, pc, cur, pos, expected, cache>>
    BY <1>3 DEF agentVars
  <2>2. Stems
    BY <1>1, <2>1 DEF Stems, Static
  <2>3. ShapeInv'
    BY <1>1, <1>3, <2>1, <2>2, ShapesStay
  <2>4. QED
    BY <1>1, <1>3, <2>1, <2>3 DEF OneLink, IndexOK, CacheNets
<1>4. CASE Reconcile
  <2>1. UNCHANGED nodeVars
    BY <1>4, UpdateLinksEffect, LinkStepEffect, ProcessLinksEffect
       DEF Reconcile, ReconcileStart, updateLinksFails, updateLinksDone, UpdateEffect, LinkEffect, LinkVisited,
           ProcessEffect
  <2>2. FlagsOK'
    BY <1>1, <1>4, FlagsStep DEF Next
  <2>3. QED
    BY <1>2, <1>4, <2>1, <2>2, AgentTypes DEF TypeInv
<1>5. CASE Node
  <2>1. UNCHANGED agentVars /\ spec' = spec
    BY <1>5, OthersLeaveAgent
       DEF Node, SchedulePod, StartSandbox, DeletePod, RemoveSandbox, StartContainer, ExitContainer,
           RemoveContainer, InterfaceAdded, InterfaceDeleted
  <2>2. FlagsOK' /\ NodeTypes'
    BY <1>1, <1>5, FlagsStep, NodeTypesStep DEF Next
  <2>3. QED
    BY <1>3, <2>1, <2>2 DEF TypeInv
<1>6. ASSUME NEW s \in StoredSpecs, EditLinks(s) PROVE TypeInv'
  <2>1. UNCHANGED agentVars
    BY <1>6, OthersLeaveAgent
  <2>2. UNCHANGED nodeVars /\ spec'.type = spec.type /\ spec'.scope = spec.scope
    BY <1>6 DEF EditLinks
  <2>3. FlagsOK'
    BY <1>1, <1>6, FlagsStep DEF Next
  <2>4. QED
    BY <1>2, <1>3, <2>1, <2>2, <2>3 DEF TypeInv
<1>7. CASE UNCHANGED vars
  <2>1. UNCHANGED <<spec, nodeVars, agentVars, linkStatus, pc, dirty, changes, faults>>
    BY <1>7 DEF vars, agentVars
  <2>2. FlagsOK'
    BY <1>1, <2>1 DEF FlagsOK, FaultsOK
  <2>3. QED
    BY <1>2, <1>3, <2>1, <2>2 DEF TypeInv
<1>8. CASE OtherController
  <2>1. OtherEffect
    BY <1>1, <1>8, OtherControllerEffect
  <2>2. UNCHANGED <<spec, nodeVars, links, pc, cur, pos, expected>>
    BY <2>1 DEF OtherEffect
  <2>3. ShapeInv' /\ OneLink' /\ IndexOK'
    BY <1>1, <2>2 DEF ShapeInv, Shape, OneLink, IndexOK
  <2>4. CacheNets'
    <3>1. CASE cache' = NoPaths
      BY <3>1 DEF NoPaths, CacheNets
    <3>2. ASSUME NEW x, ProperPath(nextPid, x), cache' = Remember(cache, {x})
          PROVE  CacheNets'
      BY <1>1, <3>2, RememberNets
    <3>3. QED
      BY <2>1, <3>1, <3>2 DEF OtherEffect
  <2>5. FlagsOK'
    BY <1>1, <1>8, FlagsStep DEF Next
  <2>6. QED
    BY <1>2, <2>2, <2>3, <2>4, <2>5 DEF TypeInv
<1>9. QED
  BY <1>4, <1>5, <1>6, <1>7, <1>8 DEF Next

(***************************************************************************)
(* The API server admits every list updateLinks, reconcileBpfLink and      *)
(* removeLinks leave behind, for every program type and scope, and the     *)
(* index of the running loop stays within the list it walks.               *)
(***************************************************************************)
THEOREM LinksTypeCorrect == Spec => []TypeOK
<1>1. Init => BaseInv /\ TypeInv
  BY BaseStart, StartTypes
<1>2. BaseInv /\ TypeInv /\ [Next]_vars => BaseInv' /\ TypeInv'
  BY BaseStep, TypeStep
<1>3. BaseInv /\ TypeInv => TypeOK
  BY TypeGives
<1>4. QED
  BY <1>1, <1>2, <1>3, PTL DEF Spec

(***************************************************************************)
(* Until a Get fails or a reply of bpfman is lost, the ids in the          *)
(* program's list and the links of bpfman are in bijection, whatever the   *)
(* attachInfos, the pods and the interfaces are, whatever bpfman refuses   *)
(* and however the node and the shared NetNsCache change while             *)
(* updateLinks, reconcileBpfLink and removeLinks work: no link is lost,    *)
(* and none belongs to two entries.                                        *)
(***************************************************************************)
THEOREM EveryLinkIsRecorded == Spec => []LinksRecorded
<1>1. Init => RecordInv /\ BaseInv
  BY StartRecords, BaseStart
<1>2. RecordInv /\ BaseInv /\ [Next]_vars => RecordInv' /\ BaseInv'
  BY StepRecords, BaseStep
<1>3. RecordInv => LinksRecorded
  BY RecordGives
<1>4. QED
  BY <1>1, <1>2, <1>3, PTL DEF Spec

\* What holds of every state, with the networks the processes ever were in.
OnceIInv == RecordInv /\ BaseInv /\ \E tgt \in [Nat -> Nets] : OnceInv(tgt)

LEMMA StepOnce ==
  ASSUME OnceIInv, [Next]_vars
  PROVE  OnceIInv'
<1>1. RecordInv /\ BaseInv
  BY DEF OnceIInv
<1>2. PICK tgt \in [Nat -> Nets] : OnceInv(tgt)
  BY DEF OnceIInv
<1>3. RecordInv' /\ BaseInv'
  BY <1>1, StepRecords, BaseStep
<1>4. \E t \in [Nat -> Nets] : OnceInv(t)'
  BY <1>1, <1>2, OnceStep
<1>5. QED
  BY <1>3, <1>4 DEF OnceIInv

(***************************************************************************)
(* The program is attached twice at no place, however selectors overlap,   *)
(* paths alias and containers restart under the running reconcile, unless  *)
(* bpfman refused to detach one of the two, until a Get fails, a reply is  *)
(* lost or the other controller resets NetNsCache under updateLinks (it    *)
(* may read paths through it).  findLink takes two proceedOn lists that    *)
(* differ only in their order, and that bpfman reads alike, for different  *)
(* parameters, so the submitted programs have no two such lists.           *)
(***************************************************************************)
THEOREM AttachedOncePerPoint ==
  ASSUME DistinctProceedOn
  PROVE  Spec => []OncePerPoint
<1>1. Init => OnceIInv
  BY StartRecords, BaseStart, OnceStart DEF OnceIInv
<1>2. OnceIInv /\ [Next]_vars => OnceIInv'
  BY StepOnce
<1>3. OnceIInv => OncePerPoint
  BY OnceGives DEF OnceIInv
<1>4. QED
  BY <1>1, <1>2, <1>3, PTL DEF Spec

(***************************************************************************)
(* What a link does at its place is what its attachInfo says.              *)
(***************************************************************************)
IsNames(p) == Len(p) \in Nat /\ DOMAIN p = 1..Len(p)

\* The conversion keeps the codes of the values it knows, and no others.
LEMMA Converted ==
  ASSUME NEW p, IsNames(p), NEW code
  PROVE  Range(Convert(p, code)) = {code[x] : x \in Range(p) \cap DOMAIN code}
<1> DEFINE kept == {j \in DOMAIN p : p[j] \in DOMAIN code}
           known == Keep(p, kept)
           N == Cardinality(kept)
<1>1. Len(p) \in Nat /\ kept \in SUBSET (1..Len(p))
  BY DEF IsNames
<1> HIDE DEF kept, known, N
<1>2. PICK ord : Reorders(ord, Keep(p, kept), p, kept)
  BY <1>1, KeepIsReordering
<1>3. /\ ord \in [1..N -> kept] /\ known = [j \in 1..N |-> p[ord[j]]]
      /\ \A h \in kept : \E j \in 1..N : ord[j] = h
  BY <1>2 DEF Reorders, known, N
<1>4. Convert(p, code) = [j \in 1..N |-> code[p[ord[j]]]]
  <2>1. Convert(p, code) = [j \in DOMAIN known |-> code[known[j]]]
    BY DEF Convert, known, kept
  <2>2. QED
    BY <1>3, <2>1
<1>5. Range(Convert(p, code)) = {code[p[ord[j]]] : j \in 1..N}
  BY <1>4 DEF Range
<1>6. ASSUME NEW j \in 1..N PROVE code[p[ord[j]]] \in {code[x] : x \in Range(p) \cap DOMAIN code}
  <2>1. ord[j] \in DOMAIN p /\ p[ord[j]] \in DOMAIN code
    BY <1>3 DEF kept
  <2>2. QED
    BY <2>1 DEF Range
<1>7. ASSUME NEW x \in Range(p) \cap DOMAIN code PROVE \E j \in 1..N : code[x] = code[p[ord[j]]]
  <2>1. PICK h \in DOMAIN p : x = p[h]
    BY DEF Range
  <2>2. h \in kept
    BY <2>1 DEF kept
  <2>3. PICK j \in 1..N : ord[j] = h
    BY <1>3, <2>2
  <2>4. QED
    BY <2>1, <2>3
<1>8. QED
  BY <1>5, <1>6, <1>7

LEMMA XdpMeant ==
  ASSUME NEW p, IsNames(p), Range(p) \subseteq XdpProceedOnValue
  PROVE  {XdpActions[n] : n \in Range(xdpProceedOnToInt(p))} = Range(p)
<1>1. ASSUME NEW v \in XdpProceedOnValue PROVE v \in DOMAIN xdpCodes /\ XdpActions[xdpCodes[v]] = v
  <2>1. XdpActions[0] = "Aborted" /\ XdpActions[1] = "Drop" /\ XdpActions[2] = "Pass" /\ XdpActions[3] = "TX"
        /\ XdpActions[4] = "ReDirect" /\ XdpActions[31] = "DispatcherReturn"
    BY DEF XdpActions
  <2>2. QED
    BY <2>1 DEF XdpProceedOnValue, xdpCodes
<1>2. Range(xdpProceedOnToInt(p)) = {xdpCodes[x] : x \in Range(p) \cap DOMAIN xdpCodes}
  BY Converted DEF xdpProceedOnToInt
<1>3. QED
  BY <1>1, <1>2

LEMMA TcMeant ==
  ASSUME NEW p, IsNames(p), Range(p) \subseteq TcProceedOnValue, "UnSpec" \notin Range(p)
  PROVE  {TcActions[n] : n \in Range(tcProceedOnToInt(p))} = Range(p)
<1>1. ASSUME NEW v \in TcProceedOnValue, v # "UnSpec" PROVE v \in DOMAIN tcCodes /\ TcActions[tcCodes[v]] = v
  <2>1. TcActions[0] = "OK" /\ TcActions[1] = "ReClassify" /\ TcActions[2] = "Shot" /\ TcActions[3] = "Pipe"
        /\ TcActions[4] = "Stolen" /\ TcActions[5] = "Queued" /\ TcActions[6] = "Repeat"
        /\ TcActions[7] = "ReDirect" /\ TcActions[8] = "Trap" /\ TcActions[30] = "DispatcherReturn"
    BY DEF TcActions
  <2>2. QED
    BY <1>1, <2>1 DEF TcProceedOnValue, tcCodes
<1>2. Range(tcProceedOnToInt(p)) = {tcCodes[x] : x \in Range(p) \cap DOMAIN tcCodes}
  BY Converted DEF tcProceedOnToInt
<1>3. QED
  BY <1>1, <1>2

\* A stored program lists values of its type, in a list.
LEMMA StoredProceedOn ==
  ASSUME NEW s \in StoredSpecs, NEW j \in DOMAIN s.links, NEW p, p = s.links[j].attrs.proceedOn
  PROVE  /\ s.type \in {"xdp", "tc"} => IsNames(p)
         /\ s.type = "xdp" => Range(p) \subseteq XdpProceedOnValue
         /\ s.type = "tc" => Range(p) \subseteq TcProceedOnValue
<1> DEFINE b == s.links[j]
           t == s.type
<1>1. PICK r \in Specs : /\ Admitted(r) /\ t = r.type /\ s.scope = r.scope /\ DOMAIN s.links = DOMAIN r.links
                         /\ \A k \in DOMAIN s.links : Fills(t, s.links[k], r.links[k])
  BY StoredLinks
<1> DEFINE ai == r.links[j]
           given == ai.attrs.proceedOn
           usual == IF t = "xdp" THEN <<"Pass", "DispatcherReturn">> ELSE <<"Pipe", "DispatcherReturn">>
<1>2. Fills(t, b, ai) /\ (t = "xdp" => xdpMarkers(ai.attrs)) /\ (t = "tc" => tcMarkers(ai.attrs))
  BY <1>1, AdmittedInfo
<1>3. SUFFICES ASSUME t \in {"xdp", "tc"}
               PROVE  /\ IsNames(p)
                      /\ t = "xdp" => Range(p) \subseteq XdpProceedOnValue
                      /\ t = "tc" => Range(p) \subseteq TcProceedOnValue
  OBVIOUS
<1>4. /\ IsNames(usual)
      /\ t = "xdp" => Range(usual) \subseteq XdpProceedOnValue
      /\ t = "tc" => Range(usual) \subseteq TcProceedOnValue
  <2>1. CASE t = "xdp"
    BY <2>1 DEF IsNames, Range, XdpProceedOnValue
  <2>2. CASE t = "tc"
    BY <2>2 DEF IsNames, Range, TcProceedOnValue
  <2>3. QED
    BY <1>3, <2>1, <2>2
<1>5. p = IF given = None THEN usual ELSE given
  <2> HIDE DEF t, ai
  <2>1. IsAttachInfo(t, ai) /\ b.attrs = FilledAttrs(t, ai.attrs)
    BY <1>2 DEF Fills
  <2>2. "proceedOn" \in DOMAIN ai.attrs
    BY <1>3, <2>1 DEF IsAttachInfo, NetTypes
  <2> HIDE DEF b
  <2>3. p = b.attrs.proceedOn
    BY DEF b
  <2>4. CASE t = "xdp"
    BY <2>1, <2>2, <2>3, <2>4 DEF FilledAttrs, xdpDefaults, OrElse
  <2>5. CASE t = "tc"
    BY <2>1, <2>2, <2>3, <2>5 DEF FilledAttrs, tcDefaults, OrElse
  <2>6. QED
    BY <1>3, <2>4, <2>5
<1>6. given # None => /\ IsNames(given)
                      /\ t = "xdp" => Range(given) \subseteq XdpProceedOnValue
                      /\ t = "tc" => Range(given) \subseteq TcProceedOnValue
  BY <1>2, <1>3 DEF Fills, IsAttachInfo, IsListOrNone, IsNames, xdpMarkers, tcMarkers, NetTypes
<1> HIDE DEF usual, given, t
<1>7. QED
  BY <1>4, <1>5, <1>6

\* What an attachInfo with parameters a asks the program to do at interface i.
Meant(s, i, a) ==
  CASE s.type = "xdp" -> [iface |-> i, priority |-> GetPriority(a.priority), proceedOn |-> Range(a.proceedOn)]
    [] s.type = "tc"  -> [iface |-> i, priority |-> GetPriority(a.priority), direction |-> a.direction,
                          proceedOn |-> Range(a.proceedOn)]
    [] s.type = "tcx" -> [iface |-> i, priority |-> GetPriority(a.priority), direction |-> a.direction]
    [] s.type \in UprobeTypes -> [function |-> a.function, offset |-> a.offset, target |-> a.target,
                                  pid |-> a.pid]
    [] s.type = "kprobe"      -> [function |-> a.function, offset |-> a.offset]
    [] s.type = "kretprobe"   -> [function |-> a.function, offset |-> 0]
    [] s.type = "tracepoint"  -> [name |-> a.name]
    [] OTHER                  -> [function |-> s.function]

\* <<interface, place>> of every attach point attachInfo ai asks for.
WantedPlaces(s, ai) ==
  IF s.type \in NetTypes THEN WantedInterfaces(s, ai)
  ELSE IF s.type \in UprobeTypes THEN {<<None, p>> : p \in WantedProcesses(s, ai)}
  ELSE {<<None, Host>>}

LEMMA WantedByPlace ==
  ASSUME NEW s, s.type \in ProgramTypeSet, NEW ai
  PROVE  WantedOf(s, ai) = {[at |-> x[2], does |-> Meant(s, x[1], ai.attrs)] : x \in WantedPlaces(s, ai)}
<1> DEFINE a == ai.attrs
           I == WantedInterfaces(s, ai)
           P == WantedProcesses(s, ai)
<1> HIDE DEF a, I, P
<1>1. (IF a.priority = None THEN 1000 ELSE a.priority) = GetPriority(a.priority)
  BY DEF GetPriority, DefaultAttachPriority
<1>2. CASE s.type = "xdp"
  <2>1. WantedOf(s, ai) = {[at |-> x[2], does |-> [iface |-> x[1], priority |-> GetPriority(a.priority),
                                                   proceedOn |-> Range(a.proceedOn)]] : x \in I}
    BY <1>1, <1>2 DEF WantedOf, a, I
  <2>2. WantedPlaces(s, ai) = I
    BY <1>2 DEF WantedPlaces, NetTypes, I
  <2>3. \A i : Meant(s, i, a) = [iface |-> i, priority |-> GetPriority(a.priority),
                                 proceedOn |-> Range(a.proceedOn)]
    BY <1>2 DEF Meant, UprobeTypes
  <2>4. QED
    BY <2>1, <2>2, <2>3 DEF a
<1>3. CASE s.type = "tc"
  <2>1. WantedOf(s, ai) = {[at |-> x[2], does |-> [iface |-> x[1], priority |-> GetPriority(a.priority),
                                                   direction |-> a.direction,
                                                   proceedOn |-> Range(a.proceedOn)]] : x \in I}
    BY <1>1, <1>3 DEF WantedOf, a, I
  <2>2. WantedPlaces(s, ai) = I
    BY <1>3 DEF WantedPlaces, NetTypes, I
  <2>3. \A i : Meant(s, i, a) = [iface |-> i, priority |-> GetPriority(a.priority), direction |-> a.direction,
                                 proceedOn |-> Range(a.proceedOn)]
    BY <1>3 DEF Meant, UprobeTypes
  <2>4. QED
    BY <2>1, <2>2, <2>3 DEF a
<1>4. CASE s.type = "tcx"
  <2>1. WantedOf(s, ai) = {[at |-> x[2], does |-> [iface |-> x[1], priority |-> GetPriority(a.priority),
                                                   direction |-> a.direction]] : x \in I}
    BY <1>1, <1>4 DEF WantedOf, a, I
  <2>2. WantedPlaces(s, ai) = I
    BY <1>4 DEF WantedPlaces, NetTypes, I
  <2>3. \A i : Meant(s, i, a) = [iface |-> i, priority |-> GetPriority(a.priority), direction |-> a.direction]
    BY <1>4 DEF Meant, UprobeTypes
  <2>4. QED
    BY <2>1, <2>2, <2>3 DEF a
<1>5. CASE s.type \in UprobeTypes
  <2> DEFINE does == [function |-> a.function, offset |-> a.offset, target |-> a.target, pid |-> a.pid]
  <2>1. WantedOf(s, ai) = {[at |-> p, does |-> does] : p \in P}
    BY <1>5 DEF WantedOf, a, P, UprobeTypes
  <2>2. WantedPlaces(s, ai) = {<<None, p>> : p \in P}
    BY <1>5 DEF WantedPlaces, NetTypes, UprobeTypes, P
  <2>3. \A i : Meant(s, i, a) = does
    BY <1>5 DEF Meant, UprobeTypes
  <2> HIDE DEF does
  <2>4. \A p \in P : [at |-> p, does |-> does] = [at |-> <<None, p>>[2], does |-> does]
    OBVIOUS
  <2>5. {[at |-> p, does |-> does] : p \in P} = {[at |-> x[2], does |-> does] : x \in {<<None, p>> : p \in P}}
    BY <2>4
  <2>6. QED
    BY <2>1, <2>2, <2>3, <2>5 DEF a
<1>6. CASE s.type \notin NetTypes \cup UprobeTypes
  <2>1. WantedOf(s, ai) = {[at |-> Host, does |-> Meant(s, None, a)]}
    BY <1>6 DEF WantedOf, Meant, ProgramTypeSet, NetTypes, UprobeTypes, a
  <2>2. WantedPlaces(s, ai) = {<<None, Host>>}
    BY <1>6 DEF WantedPlaces
  <2>3. QED
    BY <2>1, <2>2 DEF a
<1>7. QED
  BY <1>2, <1>3, <1>4, <1>5, <1>6 DEF NetTypes

LEMMA DoesAsMeant ==
  ASSUME NoUnSpec, NEW s \in StoredSpecs, NEW l, NEW ai, FromInfo(s.type, l, ai)
  PROVE  Does(s, l) = Meant(s, l.iface, ai.attrs)
<1> DEFINE t == s.type
           a == ai.attrs
<1>1. PICK r \in StoredSpecs : r.type = t /\ \E j \in DOMAIN r.links : ai = r.links[j]
  BY DEF FromInfo
<1>2. PICK j \in DOMAIN r.links : ai = r.links[j]
  BY <1>1
<1>3. l.attrs = AttrsOf(t, a) /\ t \in ProgramTypeSet
  BY StoredType DEF FromInfo
<1>4. t \in {"tc", "tcx"} => Directions[directionToStr(a.direction)] = a.direction
  <2>1. t \in {"tc", "tcx"} => a.direction \in TCDirectionType
    BY <1>1, <1>2, StoredDirection
  <2> HIDE DEF a, t
  <2>2. QED
    BY <2>1 DEF TCDirectionType, Directions, directionToStr
<1>5. /\ t = "xdp" => {XdpActions[n] : n \in Range(xdpProceedOnToInt(a.proceedOn))} = Range(a.proceedOn)
      /\ t = "tc" => {TcActions[n] : n \in Range(tcProceedOnToInt(a.proceedOn))} = Range(a.proceedOn)
  <2>1. t = "tc" => "UnSpec" \notin Range(a.proceedOn)
    BY <1>1, <1>2 DEF NoUnSpec
  <2>2. /\ t \in {"xdp", "tc"} => IsNames(a.proceedOn)
        /\ t = "xdp" => Range(a.proceedOn) \subseteq XdpProceedOnValue
        /\ t = "tc" => Range(a.proceedOn) \subseteq TcProceedOnValue
    BY <1>1, <1>2, StoredProceedOn
  <2> HIDE DEF a, t
  <2>3. QED
    BY <2>1, <2>2, XdpMeant, TcMeant
<1> HIDE DEF a
<1>6. CASE t = "xdp"
  <2>1. l.attrs = [priority |-> GetPriority(a.priority), proceedOn |-> a.proceedOn]
    BY <1>3, <1>6 DEF AttrsOf, xdpAttrs, UprobeTypes
  <2>2. l.attrs.priority = GetPriority(a.priority) /\ l.attrs.proceedOn = a.proceedOn
    BY <2>1
  <2>3. Does(s, l) = [iface |-> l.iface, priority |-> GetPriority(a.priority), proceedOn |-> Range(a.proceedOn)]
    BY <1>5, <1>6, <2>2, xdpBehaviour
  <2>4. QED
    BY <1>6, <2>3 DEF Meant, UprobeTypes, a
<1>7. CASE t = "tc"
  <2>1. l.attrs = [priority |-> GetPriority(a.priority), proceedOn |-> a.proceedOn, direction |-> a.direction]
    BY <1>3, <1>7 DEF AttrsOf, tcAttrs, UprobeTypes
  <2>2. l.attrs.priority = GetPriority(a.priority) /\ l.attrs.proceedOn = a.proceedOn
          /\ l.attrs.direction = a.direction
    BY <2>1
  <2>3. Does(s, l) = [iface |-> l.iface, priority |-> GetPriority(a.priority), direction |-> a.direction,
                      proceedOn |-> Range(a.proceedOn)]
    BY <1>4, <1>5, <1>7, <2>2, tcBehaviour
  <2>4. QED
    BY <1>7, <2>3 DEF Meant, UprobeTypes, a
<1>8. CASE t = "tcx"
  <2>1. l.attrs = [priority |-> GetPriority(a.priority), direction |-> a.direction]
    BY <1>3, <1>8 DEF AttrsOf, tcxAttrs, UprobeTypes
  <2>2. l.attrs.priority = GetPriority(a.priority) /\ l.attrs.direction = a.direction
    BY <2>1
  <2>3. Does(s, l) = [iface |-> l.iface, priority |-> GetPriority(a.priority), direction |-> a.direction]
    BY <1>4, <1>8, <2>2, tcxBehaviour
  <2>4. QED
    BY <1>8, <2>3 DEF Meant, UprobeTypes, a
<1>9. CASE t \in UprobeTypes
  <2>1. l.attrs = uprobeAttrs(a)
    BY <1>3, <1>9 DEF AttrsOf, UprobeTypes
  <2>2. /\ l.attrs.function = a.function /\ l.attrs.offset = a.offset /\ l.attrs.target = a.target
        /\ l.attrs.pid = a.pid
    BY <2>1 DEF uprobeAttrs
  <2>3. Does(s, l) = [function |-> a.function, offset |-> a.offset, target |-> a.target, pid |-> a.pid]
    BY <1>9, <2>2, uprobeBehaviour
  <2>4. QED
    BY <1>9, <2>3 DEF Meant, UprobeTypes, a
<1>10. CASE t = "kprobe"
  <2>1. l.attrs = kprobeAttrs(a)
    BY <1>3, <1>10 DEF AttrsOf, UprobeTypes
  <2>2. l.attrs.function = a.function /\ l.attrs.offset = a.offset
    BY <2>1 DEF kprobeAttrs
  <2>3. QED
    BY <1>10, <2>2, kprobeBehaviour DEF Meant, UprobeTypes, a
<1>11. CASE t = "kretprobe"
  <2>1. l.attrs = kretprobeAttrs(a)
    BY <1>3, <1>11 DEF AttrsOf, UprobeTypes
  <2>2. l.attrs.function = a.function
    BY <2>1 DEF kretprobeAttrs
  <2>3. QED
    BY <1>11, <2>2, kretprobeBehaviour DEF Meant, UprobeTypes, a
<1>12. CASE t = "tracepoint"
  <2>1. l.attrs = tracepointAttrs(a)
    BY <1>3, <1>12 DEF AttrsOf, UprobeTypes
  <2>2. l.attrs.name = a.name
    BY <2>1 DEF tracepointAttrs
  <2>3. QED
    BY <1>12, <2>2, tracepointBehaviour DEF Meant, UprobeTypes, a
<1>13. CASE t \in {"fentry", "fexit"}
  <2> DEFINE req == getAttachRequest(s, l)
             load == getProgramLoadInfo(s)
  <2>1. req.info \in {"Fentry", "Fexit"}
    BY <1>13, KernelRequest
  <2>2. load.function = s.function
    BY <1>13 DEF getProgramLoadInfo
  <2> HIDE DEF req, load
  <2>3. Behaviour(load, req) = [function |-> load.function]
    BY <2>1 DEF Behaviour
  <2>4. Meant(s, l.iface, a) = [function |-> s.function]
    BY <1>13 DEF Meant, UprobeTypes
  <2>5. QED
    BY <2>2, <2>3, <2>4 DEF Does, req, load, a
<1>14. QED
  BY <1>3, <1>6, <1>7, <1>8, <1>9, <1>10, <1>11, <1>12, <1>13 DEF ProgramTypeSet, NetTypes

(***************************************************************************)
(* What a stored program selects.                                          *)
(***************************************************************************)
LEMMA StoredSelector ==
  ASSUME NEW s \in StoredSpecs, NEW j \in DOMAIN s.links, NEW sel, sel = s.links[j].sel
  PROVE  /\ sel = None \/ sel = [ns |-> sel.ns, pods |-> sel.pods, names |-> sel.names]
         /\ s.scope \in {"cluster", "namespace"}
         /\ s.scope # "cluster" => sel # None
         /\ s.type \in NetTypes /\ sel # None => sel.names = {}
<1>1. PICK r \in Specs : /\ Admitted(r) /\ s.type = r.type /\ s.scope = r.scope
                            /\ DOMAIN s.links = DOMAIN r.links
                         /\ \A k \in DOMAIN s.links : Fills(s.type, s.links[k], r.links[k])
  BY StoredLinks
<1> DEFINE ai == r.links[j]
           b == s.links[j]
<1>2. Fills(s.type, b, ai)
  BY <1>1
<1>3. s.type \in NetTypes \cup UprobeTypes /\ s.scope # "cluster" => ai.sel # None
  BY <1>1, AdmittedInfo
<1>4. s.scope # "cluster" => s.type \in NetTypes \cup UprobeTypes
  BY StoredType
<1>5. s.scope \in {"cluster", "namespace"}
  BY <1>1, BpfLinksAssumption DEF IsProgram
<1> HIDE DEF ai, b
<1>6. sel = ai.sel
  BY <1>2 DEF Fills, b
<1>7. IsAttachInfo(s.type, ai)
  BY <1>2 DEF Fills
<1>8. QED
  BY <1>3, <1>4, <1>5, <1>6, <1>7 DEF IsAttachInfo

\* At most one of the three ways to select interfaces is used.
LEMMA StoredInterfaces ==
  ASSUME NEW s \in StoredSpecs, s.type \in NetTypes, NEW j \in DOMAIN s.links, NEW ifs, ifs = s.links[j].ifs
  PROVE  /\ ifs.discovery # None => ifs.names = None /\ ifs.primary = None /\ IsNames(ifs.discovery.allowed)
         /\ ifs.names # None => ifs.primary = None
<1>1. PICK r \in Specs : /\ Admitted(r) /\ s.type = r.type /\ s.scope = r.scope
                            /\ DOMAIN s.links = DOMAIN r.links
                         /\ \A k \in DOMAIN s.links : Fills(s.type, s.links[k], r.links[k])
  BY StoredLinks
<1> DEFINE ai == r.links[j]
           b == s.links[j]
<1>2. Fills(s.type, b, ai)
  BY <1>1
<1>3. InterfaceSelector(ai.ifs)
  BY <1>1, AdmittedInfo DEF NetTypes
<1> HIDE DEF ai, b
<1>4. IsAttachInfo(s.type, ai) /\ ifs = InterfaceDefaults(ai.ifs)
  BY <1>2 DEF Fills, FilledIfs, b
<1> DEFINE o == ai.ifs
<1>5. /\ o = [discovery |-> o.discovery, names |-> o.names, primary |-> o.primary]
      /\ o.discovery # None => IsListOrNone(o.discovery.allowed)
  BY <1>4 DEF IsAttachInfo
<1> HIDE DEF o
<1>6. /\ ifs.names = o.names /\ ifs.primary = o.primary
      /\ ifs.discovery = InterfaceDiscovery(o.discovery)
  <2>1. ifs = [o EXCEPT !.discovery = InterfaceDiscovery(o.discovery)]
    BY <1>4 DEF InterfaceDefaults, o
  <2>2. QED
    BY <1>5, <2>1
<1>7. /\ o.discovery # None => o.names = None /\ o.primary = None
      /\ o.names # None => o.primary = None
  <2>1. DOMAIN o = {"discovery", "names", "primary"}
    BY <1>5
  <2>2. Given(o) \subseteq {"discovery", "names", "primary"}
    BY <2>1 DEF Given
  <2>3. IsFiniteSet({"discovery", "names", "primary"})
    <3>1. IsFiniteSet({})
      BY FS_EmptySet
    <3>2. IsFiniteSet({} \cup {"discovery"})
      BY <3>1, FS_AddElement
    <3>3. IsFiniteSet(({} \cup {"discovery"}) \cup {"names"})
      BY <3>2, FS_AddElement
    <3>4. IsFiniteSet((({} \cup {"discovery"}) \cup {"names"}) \cup {"primary"})
      BY <3>3, FS_AddElement
    <3>5. (({} \cup {"discovery"}) \cup {"names"}) \cup {"primary"} = {"discovery", "names", "primary"}
      OBVIOUS
    <3>6. QED
      BY <3>4, <3>5
  <2>4. IsFiniteSet(Given(o))
    BY <2>2, <2>3, FS_Subset
  <2>5. PICK x : Given(o) = {x}
    BY <1>3, <2>4, FS_Singleton DEF InterfaceSelector, o
  <2>6. /\ o.discovery # None => "discovery" \in Given(o)
        /\ o.names # None => "names" \in Given(o)
        /\ o.primary # None => "primary" \in Given(o)
    BY <1>5, <2>1 DEF Given
  <2>7. QED
    BY <2>5, <2>6
<1>8. ifs.discovery # None => o.discovery # None /\ IsNames(ifs.discovery.allowed)
  <2>1. SUFFICES ASSUME ifs.discovery # None PROVE o.discovery # None /\ IsNames(ifs.discovery.allowed)
    OBVIOUS
  <2>2. o.discovery # None
    BY <1>6, <2>1 DEF InterfaceDiscovery
  <2>3. ifs.discovery.allowed = IF o.discovery.allowed = None THEN <<>> ELSE o.discovery.allowed
    BY <1>6, <2>2 DEF InterfaceDiscovery, OrElse
  <2>4. IsNames(<<>>)
    BY DEF IsNames
  <2>5. o.discovery.allowed # None => IsNames(o.discovery.allowed)
    BY <1>5, <2>2 DEF IsListOrNone, IsNames
  <2>6. QED
    BY <2>2, <2>3, <2>4, <2>5
<1>9. QED
  BY <1>6, <1>7, <1>8

LEMMA LeastOf ==
  ASSUME NEW n \in Nat, NEW S \in SUBSET (1..n), S # {}
  PROVE  \E m \in S : \A k \in S : m <= k
<1> DEFINE N == Cardinality(S)
<1>1. PICK ord : Reorders(ord, Keep(<<>>, S), <<>>, S)
  BY KeepIsReordering
<1>2. N \in Nat
  BY KeepIsReordering
<1>3. /\ ord \in [1..N -> S] /\ \A i, j \in 1..N : i < j => ord[i] < ord[j]
      /\ \A h \in S : \E j \in 1..N : ord[j] = h
  BY <1>1 DEF Reorders
<1> HIDE DEF N
<1>4. 1 \in 1..N
  <2>1. PICK h \in S : TRUE
    OBVIOUS
  <2>2. PICK j \in 1..N : ord[j] = h
    BY <1>3
  <2>3. QED
    BY <1>2, <2>2
<1>5. ASSUME NEW k \in S PROVE ord[1] <= k
  <2>1. PICK j \in 1..N : ord[j] = k
    BY <1>3
  <2>2. ord[1] \in S /\ (j = 1 \/ 1 < j)
    BY <1>2, <1>3, <1>4
  <2>3. ord[1] \in Int /\ k \in Int
    <3>1. \A x \in S : x \in 1..n
      OBVIOUS
    <3>2. ord[1] \in 1..n /\ k \in 1..n
      BY <2>2, <3>1
    <3>3. QED
      BY <3>2
  <2>4. QED
    BY <1>3, <1>4, <2>1, <2>2, <2>3
<1>6. QED
  BY <1>3, <1>4, <1>5

\* Discovery with a list that does not begin with a bad expression uses no
\* interface that is not allowed, and all of them if the list can be parsed.
LEMMA DiscoveredIsAllowed ==
  ASSUME NEW d, IsNames(d.allowed), d.allowed # <<>> => ~d.allowed[1].bad, NEW name,
         ~interfaceInExcludeList(name, d), interfaceInAllowedList(name, setupAllowedInterfacesLists(d.allowed))
  PROVE  Allowed(d, name)
<1> DEFINE ds == d.allowed
           bad == {j \in DOMAIN ds : ds[j].bad}
<1>1. name \notin d.exclude
  BY DEF interfaceInExcludeList
<1>2. CASE bad = {}
  BY <1>1, <1>2 DEF setupAllowedInterfacesLists, interfaceInAllowedList, Allowed
<1>3. CASE bad # {}
  <2>1. Len(ds) \in Nat /\ bad \subseteq 1..Len(ds) /\ bad \subseteq Nat /\ DOMAIN ds = 1..Len(ds)
    BY DEF IsNames
  <2>2. 1 \notin bad
    <3>1. ds = <<>> => DOMAIN ds = {}
      OBVIOUS
    <3>2. QED
      BY <2>1, <3>1
  <2> DEFINE m == Min(bad)
             ks == SubSeq(ds, 1, m - 1)
  <2>3. m \in bad
    <3>1. \E x \in bad : \A y \in bad : x <= y
      <4> HIDE DEF bad
      <4>1. QED
        BY <1>3, <2>1, LeastOf
    <3> HIDE DEF bad
    <3>2. QED
      BY <3>1 DEF Min
  <2> HIDE DEF bad, ds, m
  <2>4. m \in 2..Len(ds)
    BY <2>1, <2>2, <2>3
  <2>5. ks = [j \in 1..(m - 1) |-> ds[j]]
    BY <2>1, <2>4
  <2>6. DOMAIN ks = 1..(m - 1) /\ ks # <<>> /\ \A j \in DOMAIN ks : j \in DOMAIN ds /\ ks[j] = ds[j]
    <3>1. DOMAIN ks = 1..(m - 1) /\ \A j \in DOMAIN ks : j \in DOMAIN ds /\ ks[j] = ds[j]
      BY <2>1, <2>4, <2>5
    <3>2. 1 \in DOMAIN ks
      BY <2>4, <3>1
    <3> HIDE DEF ks
    <3>3. DOMAIN <<>> = {}
      OBVIOUS
    <3>4. QED
      BY <3>1, <3>2, <3>3
  <2>7. setupAllowedInterfacesLists(ds) = ks
    BY <1>3 DEF setupAllowedInterfacesLists, bad, m
  <2> HIDE DEF ks
  <2>8. \E j \in DOMAIN ds : name \in ds[j].matches
    BY <2>6, <2>7 DEF interfaceInAllowedList, ds
  <2>9. QED
    BY <1>1, <2>8 DEF Allowed, ds
<1>4. QED
  BY <1>2, <1>3

LEMMA AllowedIsDiscovered ==
  ASSUME NEW d, \A j \in DOMAIN d.allowed : ~d.allowed[j].bad, NEW name, Allowed(d, name)
  PROVE  /\ ~interfaceInExcludeList(name, d)
         /\ interfaceInAllowedList(name, setupAllowedInterfacesLists(d.allowed))
<1>1. {j \in DOMAIN d.allowed : d.allowed[j].bad} = {}
  OBVIOUS
<1>2. setupAllowedInterfacesLists(d.allowed) = d.allowed
  BY <1>1 DEF setupAllowedInterfacesLists
<1>3. QED
  BY <1>2 DEF Allowed, interfaceInExcludeList, interfaceInAllowedList

(***************************************************************************)
(* Pods and containers.                                                    *)
(***************************************************************************)
\* Containers run only in pods the API server lists, and of these no two share
\* namespace and name.
ListedOK ==
  /\ \A c \in ctrs : c.up => stage[c.pod] = "listed"
  /\ \A p, q \in Pods :
       stage[p] = "listed" /\ stage[q] = "listed" /\ PodNs[p] = PodNs[q] /\ PodName[p] = PodName[q] => p = q

\* The selector a reconciler of program s works with.
SelOf(s, sel) == IF s.scope = "cluster" THEN sel ELSE [sel EXCEPT !.ns = OwnNs]

LEMMA SelectedPods ==
  ASSUME NEW s, s.scope \in {"cluster", "namespace"}, NEW sel,
         sel = [ns |-> sel.ns, pods |-> sel.pods, names |-> sel.names]
  PROVE  getPodsForNode(SelOf(s, sel)) = Selected(s, sel) /\ SelOf(s, sel).names = sel.names
<1>1. CASE s.scope = "cluster"
  BY <1>1 DEF getPodsForNode, SelOf, Selected
<1>2. CASE s.scope = "namespace"
  <2> DEFINE m == SelOf(s, sel)
  <2>1. m = [sel EXCEPT !.ns = OwnNs]
    BY <1>2 DEF SelOf
  <2>2. m.ns = OwnNs /\ m.pods = sel.pods /\ m.names = sel.names
    BY <2>1
  <2> HIDE DEF m
  <2>3. OwnNs # None
    BY BpfLinksAssumption
  <2>4. getPodsForNode(m) = Selected(s, sel)
    BY <1>2, <2>2, <2>3 DEF getPodsForNode, Selected
  <2>5. QED
    BY <2>2, <2>4 DEF m
<1>3. QED
  BY <1>1, <1>2

\* A running container that GetContainers returns is one of a selected pod.
LEMMA ContainersSelected ==
  ASSUME NodeOK, ListedOK, NamesTellNamespaces, NEW sel, NEW cs \in GetContainers(sel), NEW c \in cs, c.up
  PROVE  c \in ctrs /\ c.pod \in getPodsForNode(sel) /\ (sel.names = {} \/ c.name \in sel.names)
<1> DEFINE pods == getPodsForNode(sel)
<1>1. PICK f \in [pods -> sandbox] : /\ \A p \in pods : f[p] \in findPodByNameWithNamespace(p)
                                     /\ cs = UNION {filterContainersByNames(f[p], sel.names) : p \in pods}
  BY DEF GetContainers
<1>2. PICK p \in pods : c \in filterContainersByNames(f[p], sel.names)
  BY <1>1
<1>3. c \in ctrs /\ c.pod = f[p] /\ (sel.names = {} \/ c.name \in sel.names)
  BY <1>2 DEF filterContainersByNames
<1>4. f[p] \in sandbox /\ PodName[f[p]] = PodName[p]
  BY <1>1 DEF findPodByNameWithNamespace
<1>5. f[p] \in Pods /\ p \in Pods /\ stage[p] = "listed"
  BY <1>4 DEF NodeOK, getPodsForNode
<1>6. stage[f[p]] = "listed" /\ PodNs[f[p]] = PodNs[p]
  BY <1>3, <1>4, <1>5 DEF ListedOK, NamesTellNamespaces
<1>7. f[p] = p
  BY <1>4, <1>5, <1>6 DEF ListedOK
<1>8. QED
  BY <1>3, <1>7

\* When the runtime lists each selected pod under a name of its own, all their
\* containers are returned.
LEMMA ContainersComplete ==
  ASSUME NEW sel, \A p \in getPodsForNode(sel) : findPodByNameWithNamespace(p) = {p},
         NEW cs \in GetContainers(sel)
  PROVE  cs = {c \in ctrs : c.pod \in getPodsForNode(sel) /\ (sel.names = {} \/ c.name \in sel.names)}
<1> DEFINE pods == getPodsForNode(sel)
<1>1. PICK f \in [pods -> sandbox] : /\ \A p \in pods : f[p] \in findPodByNameWithNamespace(p)
                                     /\ cs = UNION {filterContainersByNames(f[p], sel.names) : p \in pods}
  BY DEF GetContainers
<1>2. \A p \in pods : f[p] = p
  BY <1>1
<1> HIDE DEF pods
<1>3. cs = UNION {filterContainersByNames(p, sel.names) : p \in pods}
  BY <1>1, <1>2
<1>4. QED
  BY <1>3 DEF filterContainersByNames, pods

\* The process of a container, and the network its path leads to.
LEMMA ProcessOf ==
  ASSUME NodeOK, NEW c \in ctrs
  PROVE  /\ c.up => /\ extractPIDFromInspectInfo(c) = c.pid /\ c.pid \in Nat \ {0}
                    /\ Stat(netnsPathFromPID(c.pid)) = PodNet(c.pod) /\ PodNet(c.pod) # None
         /\ ~c.up => extractPIDFromInspectInfo(c) = 0
         /\ Stat(netnsPathFromPID(0)) = None
<1>1. c.pid \in 1..(nextPid - 1) /\ nextPid \in Nat /\ c.pod \in Pods
  BY DEF NodeOK
<1>2. c.up => extractPIDFromInspectInfo(c) = c.pid /\ c.pid \in Nat \ {0}
  BY <1>1 DEF extractPIDFromInspectInfo
<1>3. ~c.up => extractPIDFromInspectInfo(c) = 0
  BY DEF extractPIDFromInspectInfo
<1>4. PodNet(c.pod) # None
  BY <1>1, PodNets, NoneIsNoNet
<1>5. c.up => Stat(netnsPathFromPID(c.pid)) = PodNet(c.pod)
  <2>1. SUFFICES ASSUME c.up PROVE Stat(<<"pid", c.pid>>) = PodNet(c.pod)
    BY DEF netnsPathFromPID
  <2>2. Running(c.pid)
    BY <2>1 DEF Running
  <2>3. (CHOOSE d \in ctrs : d.pid = c.pid) = c
    BY DEF NodeOK
  <2>4. QED
    BY <2>2, <2>3, StatOf
<1>6. ~Running(0)
  <2>1. ASSUME NEW d \in ctrs PROVE d.pid # 0
    BY DEF NodeOK
  <2>2. QED
    BY <2>1 DEF Running
<1>7. QED
  BY <1>2, <1>3, <1>4, <1>5, <1>6, StatOf DEF netnsPathFromPID

(***************************************************************************)
(* The expansion of an attachInfo, without a step of the node since, asks  *)
(* for what the attachInfo means.                                          *)
(***************************************************************************)
\* Where the place of a link is now, and whether bpfman can find it.
PlaceNow(t, l) ==
  IF t \in NetTypes THEN Stat(l.path) ELSE IF l.containerPid = None THEN Host ELSE l.containerPid
Readable(t, l) == t \in NetTypes => Stat(l.path) # None
Reached(t, l) == Readable(t, l) /\ l.containerPid # 0

LEMMA NetLinkWanted ==
  ASSUME NodeOK, ListedOK, NamesTellNamespaces, MeantInterfaces,
         NEW s \in StoredSpecs, s.type \in NetTypes, NEW j \in DOMAIN s.links, NEW ai, ai = s.links[j],
           NEW attrs,
         NEW E \in IF s.scope = "cluster" THEN clNetLinks(attrs, ai) ELSE nsNetLinks(attrs, ai),
         NEW l \in E, Stat(l.path) # None
  PROVE  <<l.iface, Stat(l.path)>> \in WantedInterfaces(s, ai)
<1> DEFINE ifs == ai.ifs
           d == ifs.discovery
           names == (IF ifs.names # None THEN ifs.names ELSE {})
                    \cup (IF ifs.primary = TRUE THEN {PrimaryIface} ELSE {})
           found == IF d # None /\ d.auto
                    THEN {<<x.name, x.netns>> : x \in {y \in ifmap : /\ Allowed(d, y.name)
                                                                /\ y.netns \in sandbox \cup {Host}}}
                    ELSE {}
<1>1. WantedInterfaces(s, ai) = (names \X WantedNets(s, ai.sel)) \cup found
  BY DEF WantedInterfaces
<1>2. /\ d # None => IsNames(d.allowed) /\ (d.allowed # <<>> => ~d.allowed[1].bad)
      /\ ifs.primary \in {None, TRUE}
  BY StoredInterfaces DEF MeantInterfaces
<1>3. /\ ai.sel = None \/ ai.sel = [ns |-> ai.sel.ns, pods |-> ai.sel.pods, names |-> ai.sel.names]
      /\ s.scope \in {"cluster", "namespace"}
      /\ s.scope # "cluster" => ai.sel # None
  BY StoredSelector
<1>4. \A x \in getInterfaces(ifs) : x \in names
  <2>1. ASSUME NEW x \in getInterfaces(ifs) PROVE x \in names
    <3>1. CASE ifs.names \notin {None, {}}
      BY <3>1 DEF getInterfaces
    <3>2. CASE ~(ifs.names \notin {None, {}})
      <4>1. ifs.primary # None /\ x = PrimaryIface
        BY <3>2 DEF getInterfaces
      <4>2. ifs.primary = TRUE
        BY <1>2, <4>1, Zenon
      <4>3. QED
        BY <4>1, <4>2
    <3>3. QED
      BY <3>1, <3>2
  <2>2. QED
    BY <2>1
<1> HIDE DEF names
<1>5. CASE s.scope = "cluster" /\ isInterfacesDiscoveryEnabled(ifs)
  <2>1. d # None /\ d.auto
    BY <1>5 DEF isInterfacesDiscoveryEnabled
  <2>2. E = {createLinkEntry(attrs, x[1], x[2]) : x \in getDiscoveredInterfaces(d)}
    BY <1>5 DEF clNetLinks
  <2>3. PICK x \in getDiscoveredInterfaces(d) : l = createLinkEntry(attrs, x[1], x[2])
    BY <2>2
  <2>4. PICK key \in ifmap : /\ ~interfaceInExcludeList(key.name, d)
                             /\ interfaceInAllowedList(key.name, setupAllowedInterfacesLists(d.allowed))
                             /\ x = <<key.name, NamedPath(key.netns)>>
    BY <2>3 DEF getDiscoveredInterfaces
  <2>5. l.iface = key.name /\ l.path = NamedPath(key.netns)
    BY <2>3, <2>4, EntryFacts
  <2>6. Allowed(d, key.name)
    BY <1>2, <2>1, <2>4, DiscoveredIsAllowed
  <2>7. Stat(l.path) = key.netns /\ key.netns \in sandbox \cup {Host}
    BY <2>5, StatOf DEF NamedPath
  <2>8. <<l.iface, Stat(l.path)>> \in found
    BY <2>1, <2>5, <2>6, <2>7
  <2> HIDE DEF found
  <2>9. QED
    BY <1>1, <2>8
<1>6. CASE /\ ~(s.scope = "cluster" /\ isInterfacesDiscoveryEnabled(ifs))
           /\ ai.sel # None
  <2> DEFINE sel == SelOf(s, ai.sel)
  <2>1. E \in LinksInPods(attrs, ifs, sel)
    <3>1. CASE s.scope = "cluster"
      BY <1>6, <3>1 DEF clNetLinks, SelOf
    <3>2. CASE s.scope # "cluster"
      BY <1>6, <3>2 DEF nsNetLinks, SelOf
    <3>3. QED
      BY <3>1, <3>2
  <2>2. getPodsForNode(sel) = Selected(s, ai.sel)
    BY <1>3, <1>6, SelectedPods
  <2> HIDE DEF sel
  <2>3. PICK cs \in GetContainers(sel) : \E e \in GetOneContainerPerPod(cs) :
          E = {createLinkEntry(attrs, x, netnsPathFromPID(extractPIDFromInspectInfo(c))) :
                 x \in getInterfaces(ifs), c \in e}
    BY <2>1 DEF LinksInPods
  <2>4. PICK e \in GetOneContainerPerPod(cs) :
          E = {createLinkEntry(attrs, x, netnsPathFromPID(extractPIDFromInspectInfo(c))) :
                 x \in getInterfaces(ifs), c \in e}
    BY <2>3
  <2>5. PICK x \in getInterfaces(ifs), c \in e :
          l = createLinkEntry(attrs, x, netnsPathFromPID(extractPIDFromInspectInfo(c)))
    BY <2>4
  <2>6. c \in cs /\ c \in ctrs
    BY <2>5, ContainersListed DEF GetOneContainerPerPod
  <2>7. l.iface = x /\ l.path = netnsPathFromPID(extractPIDFromInspectInfo(c))
    BY <2>5, EntryFacts
  <2>8. c.up
    BY <2>6, <2>7, ProcessOf
  <2>9. c.pod \in Selected(s, ai.sel) /\ Stat(l.path) = PodNet(c.pod)
    BY <2>2, <2>6, <2>7, <2>8, ContainersSelected, ProcessOf
  <2>10. PodNet(c.pod) \in WantedNets(s, ai.sel)
    BY <1>6, <2>6, <2>8, <2>9 DEF WantedNets, CtrsOf
  <2>11. QED
    BY <1>1, <1>4, <2>5, <2>7, <2>9, <2>10
<1>7. CASE /\ ~(s.scope = "cluster" /\ isInterfacesDiscoveryEnabled(ifs))
           /\ ai.sel = None
  <2>1. s.scope = "cluster"
    BY <1>3, <1>7
  <2>2. E = {createLinkEntry(attrs, x, HostPath) : x \in getInterfaces(ifs)}
    BY <1>7, <2>1 DEF clNetLinks
  <2>3. PICK x \in getInterfaces(ifs) : l = createLinkEntry(attrs, x, HostPath)
    BY <2>2
  <2>4. l.iface = x /\ Stat(l.path) = Host
    BY <2>3, EntryFacts, StatOf
  <2>5. Host \in WantedNets(s, ai.sel)
    BY <1>7 DEF WantedNets
  <2>6. QED
    BY <1>1, <1>4, <2>3, <2>4, <2>5
<1>8. QED
  BY <1>5, <1>6, <1>7

LEMMA ProcessWanted ==
  ASSUME NodeOK, ListedOK, NamesTellNamespaces,
         NEW s \in StoredSpecs, NEW j \in DOMAIN s.links, NEW ai, ai = s.links[j], ai.sel # None, NEW attrs,
         NEW E \in LinksInContainers(attrs, SelOf(s, ai.sel)), NEW l \in E, l.containerPid # 0
  PROVE  l.iface = None /\ l.containerPid # None /\ l.containerPid \in WantedProcesses(s, ai)
<1> DEFINE sel == SelOf(s, ai.sel)
           n == NewLink(attrs)
<1>1. /\ ai.sel = [ns |-> ai.sel.ns, pods |-> ai.sel.pods, names |-> ai.sel.names]
      /\ s.scope \in {"cluster", "namespace"}
  BY StoredSelector
<1>2. getPodsForNode(sel) = Selected(s, ai.sel) /\ sel.names = ai.sel.names
  BY <1>1, SelectedPods
<1>3. PICK cs \in GetContainers(sel) : E = {[n EXCEPT !.containerPid = extractPIDFromInspectInfo(c)] : c \in cs}
  BY DEF LinksInContainers
<1> HIDE DEF sel, n
<1>4. PICK c \in cs : l = [n EXCEPT !.containerPid = extractPIDFromInspectInfo(c)]
  BY <1>3
<1>5. c \in ctrs
  BY ContainersListed
<1>6. l.iface = None /\ l.containerPid = extractPIDFromInspectInfo(c)
  <2>1. IsLink(n) /\ n.iface = None
    BY NewLinkFacts DEF n, IsNew
  <2>2. QED
    BY <1>4, <2>1 DEF IsLink
<1>7. c.up /\ l.containerPid = c.pid /\ c.pid # None
  BY <1>5, <1>6, ProcessOf, BpfLinksAssumption
<1>8. c.pod \in Selected(s, ai.sel) /\ (ai.sel.names = {} \/ c.name \in ai.sel.names)
  BY <1>2, <1>7, ContainersSelected
<1>9. QED
  BY <1>5, <1>6, <1>7, <1>8 DEF WantedProcesses

LEMMA ExpansionWanted ==
  ASSUME NodeOK, ListedOK, NamesTellNamespaces, MeantInterfaces,
         NEW s \in StoredSpecs, NEW j \in DOMAIN s.links, NEW ai, ai = s.links[j],
         NEW E \in Expansions(s, ai), NEW l \in E, Reached(s.type, l)
  PROVE  <<l.iface, PlaceNow(s.type, l)>> \in WantedPlaces(s, ai)
<1> DEFINE t == s.type
           a == AttrsOf(t, ai.attrs)
<1>1. s.scope # "cluster" => ai.sel # None
  BY StoredSelector
<1>2. CASE t \in NetTypes
  <2>1. E \in IF s.scope = "cluster" THEN clNetLinks(a, ai) ELSE nsNetLinks(a, ai)
    BY <1>2 DEF Expansions
  <2>2. Stat(l.path) # None
    BY <1>2 DEF Reached, Readable
  <2> HIDE DEF a
  <2>3. <<l.iface, Stat(l.path)>> \in WantedInterfaces(s, ai)
    BY <1>2, <2>1, <2>2, NetLinkWanted
  <2>4. QED
    BY <1>2, <2>3 DEF WantedPlaces, PlaceNow
<1>3. CASE t \in UprobeTypes /\ ai.sel # None
  <2>1. t \notin NetTypes
    BY <1>3 DEF UprobeTypes, NetTypes
  <2>2. E \in LinksInContainers(a, SelOf(s, ai.sel))
    BY <1>3, <2>1 DEF Expansions, SelOf
  <2> HIDE DEF a
  <2>3. l.iface = None /\ l.containerPid # None /\ l.containerPid \in WantedProcesses(s, ai)
    BY <1>3, <2>2, ProcessWanted DEF Reached
  <2>4. QED
    BY <1>3, <2>1, <2>3 DEF WantedPlaces, PlaceNow
<1>4. CASE t \notin NetTypes /\ ~(t \in UprobeTypes /\ ai.sel # None)
  <2>1. E \in KernelLink(a)
    <3>1. t \in UprobeTypes => s.scope = "cluster" /\ ai.sel = None
      BY <1>1, <1>4
    <3> HIDE DEF a
    <3>2. QED
      BY <1>4, <3>1 DEF Expansions, a
  <2> HIDE DEF a
  <2>2. l.iface = None /\ l.containerPid = None
    BY <2>1, KernelLinks DEF HostLink, ProcLink
  <2>3. t \in UprobeTypes => WantedProcesses(s, ai) = {Host}
    BY <1>4 DEF WantedProcesses
  <2>4. QED
    BY <1>4, <2>2, <2>3 DEF WantedPlaces, PlaceNow
<1>5. QED
  BY <1>2, <1>3, <1>4

LEMMA NetLinkFound ==
  ASSUME NodeOK, NEW s \in StoredSpecs, s.type \in NetTypes, NEW j \in DOMAIN s.links, NEW ai, ai = s.links[j],
         Plain(s, ai), NEW attrs,
         NEW E \in IF s.scope = "cluster" THEN clNetLinks(attrs, ai) ELSE nsNetLinks(attrs, ai),
         NEW w \in WantedInterfaces(s, ai)
  PROVE  \E l \in E : l.iface = w[1] /\ Stat(l.path) = w[2] /\ w[2] # None
<1> DEFINE ifs == ai.ifs
           d == ifs.discovery
           names == (IF ifs.names # None THEN ifs.names ELSE {})
                    \cup (IF ifs.primary = TRUE THEN {PrimaryIface} ELSE {})
           found == IF d # None /\ d.auto
                    THEN {<<x.name, x.netns>> : x \in {y \in ifmap : /\ Allowed(d, y.name)
                                                                /\ y.netns \in sandbox \cup {Host}}}
                    ELSE {}
<1>1. w \in (names \X WantedNets(s, ai.sel)) \cup found
  BY DEF WantedInterfaces
<1>2. /\ d # None => ifs.names = None /\ ifs.primary = None
      /\ ifs.names # None => ifs.primary = None
  BY StoredInterfaces
<1>3. /\ ai.sel = None \/ ai.sel = [ns |-> ai.sel.ns, pods |-> ai.sel.pods, names |-> ai.sel.names]
      /\ s.scope \in {"cluster", "namespace"}
      /\ s.scope # "cluster" => ai.sel # None
      /\ ai.sel # None => ai.sel.names = {}
  BY StoredSelector
<1>4. None # TRUE
  BY BpfLinksAssumption
<1>5. \A x \in names : x \in getInterfaces(ifs)
  BY <1>2, <1>4 DEF getInterfaces
<1>6. d # None => getInterfaces(ifs) = {}
  BY <1>2 DEF getInterfaces
<1> HIDE DEF names
<1>7. CASE w \in found
  <2>1. d # None /\ d.auto
    BY <1>7
  <2>2. PICK key \in ifmap : w = <<key.name, key.netns>> /\ Allowed(d, key.name)
          /\ key.netns \in sandbox \cup {Host}
    BY <1>7, <2>1
  <2>3. s.scope = "cluster" /\ isInterfacesDiscoveryEnabled(ifs)
    BY <1>6, <2>1 DEF nsNetLinks, isInterfacesDiscoveryEnabled
  <2>4. E = {createLinkEntry(attrs, x[1], x[2]) : x \in getDiscoveredInterfaces(d)}
    BY <2>3 DEF clNetLinks
  <2>5. \A i \in DOMAIN d.allowed : ~d.allowed[i].bad
    BY <2>1 DEF Plain
  <2>6. /\ ~interfaceInExcludeList(key.name, d)
        /\ interfaceInAllowedList(key.name, setupAllowedInterfacesLists(d.allowed))
    BY <2>2, <2>5, AllowedIsDiscovered
  <2>7. <<key.name, NamedPath(key.netns)>> \in getDiscoveredInterfaces(d)
    BY <2>6 DEF getDiscoveredInterfaces
  <2>8. PICK l \in E : l = createLinkEntry(attrs, key.name, NamedPath(key.netns))
    BY <2>4, <2>7
  <2>9. l.iface = key.name /\ l.path = NamedPath(key.netns)
    BY <2>8, EntryFacts
  <2>10. Stat(l.path) = key.netns
    BY <2>2, <2>9, StatOf DEF NamedPath
  <2>11. key.netns # None
    BY <2>2, BpfLinksAssumption DEF NodeOK
  <2>12. QED
    BY <2>2, <2>9, <2>10, <2>11
<1>8. CASE w \in names \X WantedNets(s, ai.sel)
  <2>1. w[1] \in getInterfaces(ifs) /\ w[2] \in WantedNets(s, ai.sel)
    BY <1>5, <1>8
  <2>2. ~isInterfacesDiscoveryEnabled(ifs)
    BY <1>6, <2>1 DEF isInterfacesDiscoveryEnabled
  <2>3. CASE ai.sel = None
    <3>1. s.scope = "cluster" /\ w[2] = Host
      BY <1>3, <2>1, <2>3 DEF WantedNets
    <3>2. E = {createLinkEntry(attrs, x, HostPath) : x \in getInterfaces(ifs)}
      BY <2>2, <2>3, <3>1 DEF clNetLinks
    <3>3. PICK l \in E : l = createLinkEntry(attrs, w[1], HostPath)
      BY <2>1, <3>2
    <3>4. l.iface = w[1] /\ Stat(l.path) = Host
      BY <3>3, EntryFacts, StatOf
    <3>5. QED
      BY <3>1, <3>4, NoneIsNoNet DEF Nets
  <2>4. CASE ai.sel # None
    <3> DEFINE sel == SelOf(s, ai.sel)
    <3>1. E \in LinksInPods(attrs, ifs, sel)
      BY <2>2, <2>4 DEF clNetLinks, nsNetLinks, SelOf
    <3>2. getPodsForNode(sel) = Selected(s, ai.sel) /\ sel.names = {}
      BY <1>3, <2>4, SelectedPods
    <3> HIDE DEF sel
    <3>3. PICK cs \in GetContainers(sel) : \E e \in GetOneContainerPerPod(cs) :
            E = {createLinkEntry(attrs, x, netnsPathFromPID(extractPIDFromInspectInfo(c))) :
                   x \in getInterfaces(ifs), c \in e}
      BY <3>1 DEF LinksInPods
    <3>4. PICK e \in GetOneContainerPerPod(cs) :
            E = {createLinkEntry(attrs, x, netnsPathFromPID(extractPIDFromInspectInfo(c))) :
                   x \in getInterfaces(ifs), c \in e}
      BY <3>3
    <3>5. PICK p \in Selected(s, ai.sel) : w[2] = PodNet(p) /\ \E c \in CtrsOf(p) : c.up
      BY <2>1, <2>4 DEF WantedNets
    <3>6. \A q \in Selected(s, ai.sel) : findPodByNameWithNamespace(q) = {q} /\ \A c \in CtrsOf(q) : c.up
      BY <2>4 DEF Plain
    <3>7. cs = {c \in ctrs : c.pod \in Selected(s, ai.sel)}
      BY <3>2, <3>6, ContainersComplete
    <3>8. PICK c \in cs : c.pod = p
      BY <3>5, <3>7 DEF CtrsOf
    <3>9. PICK k \in e : PodName[k.pod] = PodName[p]
      <4> DEFINE S == {k \in e : PodName[k.pod] = PodName[p]}
      <4>1. Cardinality(S) = 1
        BY <3>8 DEF GetOneContainerPerPod
      <4> HIDE DEF S
      <4>2. S # {}
        BY <4>1, FS_EmptySet
      <4>3. QED
        BY <4>2 DEF S
    <3>10. k \in ctrs /\ k.pod \in Selected(s, ai.sel) /\ k.pod \in sandbox
      BY <3>7 DEF GetOneContainerPerPod, NodeOK
    <3>11. k.pod = p
      BY <3>6, <3>9, <3>10 DEF findPodByNameWithNamespace
    <3>12. k.up
      BY <3>6, <3>10 DEF CtrsOf
    <3>13. PICK l \in E : l = createLinkEntry(attrs, w[1], netnsPathFromPID(extractPIDFromInspectInfo(k)))
      BY <2>1, <3>4
    <3>14. l.iface = w[1] /\ l.path = netnsPathFromPID(k.pid)
      BY <3>10, <3>12, <3>13, EntryFacts, ProcessOf
    <3>15. Stat(l.path) = w[2] /\ w[2] # None
      BY <3>5, <3>10, <3>11, <3>12, <3>14, ProcessOf
    <3>16. QED
      BY <3>14, <3>15
  <2>5. QED
    BY <2>3, <2>4
<1> HIDE DEF found
<1>9. QED
  BY <1>1, <1>7, <1>8

LEMMA ProcessFound ==
  ASSUME NodeOK, NEW s \in StoredSpecs, NEW j \in DOMAIN s.links, NEW ai, ai = s.links[j], ai.sel # None,
         Plain(s, ai), NEW attrs, NEW E \in LinksInContainers(attrs, SelOf(s, ai.sel)),
         NEW p \in WantedProcesses(s, ai)
  PROVE  \E l \in E : l.iface = None /\ l.containerPid = p /\ p \in Nat \ {0}
<1> DEFINE sel == SelOf(s, ai.sel)
           n == NewLink(attrs)
<1>1. /\ ai.sel = [ns |-> ai.sel.ns, pods |-> ai.sel.pods, names |-> ai.sel.names]
      /\ s.scope \in {"cluster", "namespace"}
  BY StoredSelector
<1>2. getPodsForNode(sel) = Selected(s, ai.sel) /\ sel.names = ai.sel.names
  BY <1>1, SelectedPods
<1>3. PICK cs \in GetContainers(sel) : E = {[n EXCEPT !.containerPid = extractPIDFromInspectInfo(c)] : c \in cs}
  BY DEF LinksInContainers
<1> HIDE DEF sel, n
<1>4. cs = {c \in ctrs : c.pod \in Selected(s, ai.sel) /\ (ai.sel.names = {} \/ c.name \in ai.sel.names)}
  BY <1>2, ContainersComplete DEF Plain
<1>5. PICK c \in cs : c.up /\ p = c.pid /\ c \in ctrs
  BY <1>4 DEF WantedProcesses
<1>6. PICK l \in E : l = [n EXCEPT !.containerPid = extractPIDFromInspectInfo(c)]
  BY <1>3
<1>7. l.iface = None /\ l.containerPid = extractPIDFromInspectInfo(c)
  <2>1. IsLink(n) /\ n.iface = None
    BY NewLinkFacts DEF n, IsNew
  <2>2. QED
    BY <1>6, <2>1 DEF IsLink
<1>8. QED
  BY <1>5, <1>7, ProcessOf

LEMMA ExpansionComplete ==
  ASSUME NodeOK, NEW s \in StoredSpecs, NEW j \in DOMAIN s.links, NEW ai, ai = s.links[j], Plain(s, ai),
         NEW E \in Expansions(s, ai), NEW w \in WantedPlaces(s, ai)
  PROVE  \E l \in E : Reached(s.type, l) /\ l.iface = w[1] /\ PlaceNow(s.type, l) = w[2]
<1> DEFINE t == s.type
           a == AttrsOf(t, ai.attrs)
<1>1. s.scope # "cluster" => ai.sel # None
  BY StoredSelector
<1>2. None # 0
  BY BpfLinksAssumption
<1>3. CASE t \in NetTypes
  <2>1. E \in IF s.scope = "cluster" THEN clNetLinks(a, ai) ELSE nsNetLinks(a, ai)
    BY <1>3 DEF Expansions
  <2>2. w \in WantedInterfaces(s, ai)
    BY <1>3 DEF WantedPlaces
  <2> HIDE DEF a
  <2>3. PICK l \in E : l.iface = w[1] /\ Stat(l.path) = w[2] /\ w[2] # None
    BY <1>3, <2>1, <2>2, NetLinkFound
  <2>4. l.containerPid = None
    BY <2>1, NetworkLinks DEF NetLink
  <2>5. QED
    BY <1>2, <1>3, <2>3, <2>4 DEF Reached, Readable, PlaceNow
<1>4. CASE t \in UprobeTypes /\ ai.sel # None
  <2>1. t \notin NetTypes
    BY <1>4 DEF UprobeTypes, NetTypes
  <2>2. E \in LinksInContainers(a, SelOf(s, ai.sel))
    BY <1>4, <2>1 DEF Expansions, SelOf
  <2> HIDE DEF a
  <2>3. PICK p \in WantedProcesses(s, ai) : w = <<None, p>>
    BY <1>4, <2>1 DEF WantedPlaces
  <2>4. PICK l \in E : l.iface = None /\ l.containerPid = p /\ p \in Nat \ {0}
    BY <1>4, <2>2, ProcessFound
  <2>5. p # None
    BY <2>4, BpfLinksAssumption
  <2>6. QED
    BY <2>1, <2>3, <2>4, <2>5 DEF Reached, Readable, PlaceNow
<1>5. CASE t \notin NetTypes /\ ~(t \in UprobeTypes /\ ai.sel # None)
  <2>1. E \in KernelLink(a)
    <3>1. t \in UprobeTypes => s.scope = "cluster" /\ ai.sel = None
      BY <1>1, <1>5
    <3> HIDE DEF a
    <3>2. QED
      BY <1>5, <3>1 DEF Expansions, a
  <2> HIDE DEF a
  <2>2. PICK l : l \in E
    BY <2>1 DEF KernelLink
  <2>3. l.iface = None /\ l.containerPid = None
    BY <2>1, <2>2, KernelLinks DEF HostLink, ProcLink
  <2>4. t \in UprobeTypes => WantedProcesses(s, ai) = {Host}
    BY <1>5 DEF WantedProcesses
  <2>5. w = <<None, Host>>
    BY <1>5, <2>4 DEF WantedPlaces
  <2>6. QED
    BY <1>2, <1>5, <2>2, <2>3, <2>5 DEF Reached, Readable, PlaceNow
<1>6. QED
  BY <1>3, <1>4, <1>5

(***************************************************************************)
(* The invariants.  Marked entries and links still to be looked up are     *)
(* compared with what the program asks for on the node as it is now, while *)
(* nothing has changed since the reconcile began.                          *)
(***************************************************************************)
PointNow(s, l) == [at |-> PlaceNow(s.type, l), does |-> Does(s, l)]

\* No entry of a process that had exited when it was listed has ever been
\* attached, and an entry reported as attached is.
EntriesTrue ==
  /\ \A j \in DOMAIN links : links[j].containerPid = 0 => links[j].id = None
  /\ \A j \in DOMAIN links : links[j].status = "Attached" => links[j].id \in DOMAIN attached

\* Links to be looked up are new, and there are some only in updateLinks.
ExpectedNew ==
  /\ pc # "update" => expected = {}
  /\ \A l \in expected : l.should /\ l.status = "NotAttached"

\* A reconcile that succeeded leaves only what it marked, all of it attached.
DoneOK == Settled => \A j \in DOMAIN links : links[j].should /\ links[j].status = "Attached"

\* The running reconcile and the cache are up to date, and what is marked can be
\* read, until something changes.
FreshOK ==
  ~dirty => /\ cur = spec /\ \A x \in DOMAIN cache : cache[x] = Stat(x)
            /\ \A j \in DOMAIN links : links[j].should => Readable(cur.type, links[j])

SettledInv == ListedOK /\ EntriesTrue /\ ExpectedNew /\ DoneOK /\ FreshOK

\* Nothing is marked or still to be looked up that is not asked for.
Asks(l) == Reached(cur.type, l) => PointNow(cur, l) \in Wanted(cur)
OnlyWanted ==
  ~dirty => /\ \A j \in DOMAIN links : links[j].should => Asks(links[j])
            /\ \A l \in expected : Asks(l)

\* Everything the attachInfos passed ask for is marked or still to be looked up.
Serves(l, w) == Reached(cur.type, l) /\ PointNow(cur, l) = w
Covered(w) ==
  (\E l \in expected : Serves(l, w)) \/ (\E i \in DOMAIN links : links[i].should /\ Serves(links[i], w))
AllCovered ==
  ~dirty => \A j \in DOMAIN cur.links :
    (pc = "update" /\ j < pos) \/ pc = "process" \/ Settled =>
      (Plain(cur, cur.links[j]) => \A w \in WantedOf(cur, cur.links[j]) : Covered(w))

\* What the selectors mean depends on the node and the program only.
LEMMA NodeSame ==
  ASSUME UNCHANGED nodeVars
  PROVE  /\ \A x : Stat(x)' = Stat(x)
         /\ \A t, l : Readable(t, l)' = Readable(t, l) /\ Reached(t, l)' = Reached(t, l)
         /\ \A s, l : PointNow(s, l)' = PointNow(s, l)
<1>1. \A x : Stat(x)' = Stat(x)
  BY DEF nodeVars, Stat, Running
<1>2. \A t, l : (Readable(t, l)' <=> Readable(t, l)) /\ (Reached(t, l)' <=> Reached(t, l))
  BY <1>1 DEF Readable, Reached
<1>3. \A t, l : PlaceNow(t, l)' = PlaceNow(t, l)
  BY <1>1 DEF PlaceNow
<1>4. \A s, l : PointNow(s, l)' = PointNow(s, l)
  BY <1>3 DEF PointNow, Does
<1>5. QED
  BY <1>1, <1>2, <1>4 DEF Readable, Reached

LEMMA MeaningSame ==
  ASSUME UNCHANGED nodeVars
  PROVE  /\ \A s, ai : WantedOf(s, ai)' = WantedOf(s, ai) /\ (Plain(s, ai)' <=> Plain(s, ai))
         /\ \A s : Wanted(s)' = Wanted(s)
<1>1. \A s, ai : WantedOf(s, ai)' = WantedOf(s, ai)
  BY DEF nodeVars, WantedOf, WantedInterfaces, WantedProcesses, WantedNets, Selected, CtrsOf
<1>2. \A s, ai : Plain(s, ai)' <=> Plain(s, ai)
  BY DEF nodeVars, Plain, Selected, CtrsOf, findPodByNameWithNamespace
<1>3. \A s : Wanted(s)' = Wanted(s)
  BY <1>1 DEF Wanted
<1>4. QED
  BY <1>1, <1>2, <1>3

LEMMA StartSettled ==
  ASSUME Init
  PROVE  SettledInv /\ OnlyWanted /\ AllCovered
<1>1. /\ DOMAIN links = {} /\ expected = {} /\ dirty = TRUE
  BY DEF Init
<1>2. ListedOK
  <2>1. PICK b \in Starts :
          /\ stage = [p \in Pods |->
               IF p \in b.run THEN "listed" ELSE IF p \in b.gone THEN "deleted" ELSE "new"]
          /\ sandbox = b.run \cup b.gone /\ ctrs = InitCtrs(b)
    BY DEF Init
  <2>2. b.run \cup b.gone \subseteq Pods
    BY BpfLinksAssumption
  <2>3. ASSUME NEW c \in ctrs, c.up PROVE stage[c.pod] = "listed"
    <3> DEFINE order == SetToSeq(b.run \cup b.gone)
    <3>1. PICK j \in DOMAIN order : c = [pid |-> j, pod |-> order[j], name |-> CHOOSE n \in CtrNames : TRUE,
                                         up |-> order[j] \in b.run]
      BY <2>1 DEF InitCtrs
    <3> HIDE DEF order
    <3>2. c.pod = order[j] /\ (c.up <=> order[j] \in b.run)
      BY <3>1, Zenon
    <3>3. QED
      BY <2>1, <2>2, <2>3, <3>2
  <2>4. \A p \in Pods : stage[p] = "listed" => p \in b.run
    BY <2>1
  <2>5. \A p, q \in b.run : PodNs[p] = PodNs[q] /\ PodName[p] = PodName[q] => p = q
    BY BpfLinksAssumption
  <2>6. QED
    BY <2>3, <2>4, <2>5 DEF ListedOK
<1>3. EntriesTrue /\ ExpectedNew
  BY <1>1 DEF EntriesTrue, ExpectedNew
<1>4. DoneOK /\ FreshOK /\ OnlyWanted /\ AllCovered
  BY <1>1 DEF DoneOK, Settled, FreshOK, OnlyWanted, AllCovered
<1>5. QED
  BY <1>2, <1>3, <1>4 DEF SettledInv

LEMMA ListedStays ==
  ASSUME ListedOK, stage' = stage, \A c \in ctrs' : c.up => c \in ctrs \/ stage[c.pod] = "listed"
  PROVE  ListedOK'
BY DEF ListedOK

LEMMA ListedStep ==
  ASSUME NodeOK, NodeTypes, ListedOK, Node
  PROVE  ListedOK'
<1>1. /\ stage \in [Pods -> {"new", "listed", "deleted"}]
      /\ \A c \in ctrs : c.pod \in Pods
  BY DEF NodeOK, NodeTypes
<1>2. ASSUME NEW p \in Pods, SchedulePod(p) PROVE ListedOK'
  <2>1. /\ stage' = [stage EXCEPT ![p] = "listed"] /\ ctrs' = ctrs
        /\ \A q \in Pods : stage[q] = "listed" => PodNs[q] # PodNs[p] \/ PodName[q] # PodName[p]
    BY <1>2 DEF SchedulePod
  <2>2. \A q \in Pods : stage'[q] = IF q = p THEN "listed" ELSE stage[q]
    BY <1>1, <2>1
  <2>3. \A c \in ctrs' : c.up => stage'[c.pod] = "listed"
    BY <1>1, <2>1, <2>2 DEF ListedOK
  <2>4. ASSUME NEW q \in Pods, NEW r \in Pods, stage'[q] = "listed", stage'[r] = "listed",
               PodNs[q] = PodNs[r], PodName[q] = PodName[r]
        PROVE  q = r
    BY <2>1, <2>2, <2>4 DEF ListedOK
  <2>5. QED
    BY <2>3, <2>4 DEF ListedOK
<1>3. ASSUME NEW p \in Pods, DeletePod(p) PROVE ListedOK'
  <2>1. stage' = [stage EXCEPT ![p] = "deleted"] /\ ctrs' = ctrs /\ \A c \in CtrsOf(p) : ~c.up
    BY <1>3 DEF DeletePod
  <2>2. \A q \in Pods : stage'[q] = IF q = p THEN "deleted" ELSE stage[q]
    BY <1>1, <2>1
  <2>3. \A c \in ctrs' : c.up => stage'[c.pod] = "listed"
    BY <1>1, <2>1, <2>2 DEF ListedOK, CtrsOf
  <2>4. ASSUME NEW q \in Pods, NEW r \in Pods, stage'[q] = "listed", stage'[r] = "listed",
               PodNs[q] = PodNs[r], PodName[q] = PodName[r]
        PROVE  q = r
    BY <2>2, <2>4 DEF ListedOK
  <2>5. QED
    BY <2>3, <2>4 DEF ListedOK
<1>4. ASSUME NEW p \in Pods, StartSandbox(p) \/ RemoveSandbox(p) PROVE ListedOK'
  <2>1. stage' = stage /\ ctrs' \subseteq ctrs
    BY <1>4 DEF StartSandbox, RemoveSandbox
  <2>2. QED
    BY <2>1, ListedStays
<1>5. ASSUME NEW p \in Pods, NEW n \in CtrNames, StartContainer(p, n) PROVE ListedOK'
  <2> DEFINE new == [pid |-> nextPid, pod |-> p, name |-> n, up |-> TRUE]
  <2>1. stage' = stage /\ ctrs' = ctrs \cup {new} /\ stage[p] = "listed"
    BY <1>5 DEF StartContainer
  <2>2. new.pod = p
    OBVIOUS
  <2> HIDE DEF new
  <2>3. QED
    BY <2>1, <2>2, ListedStays
<1>6. ASSUME NEW c \in ctrs, ExitContainer(c) PROVE ListedOK'
  <2> DEFINE old == [c EXCEPT !.up = FALSE]
  <2>1. stage' = stage /\ ctrs' = (ctrs \ {c}) \cup {old}
    BY <1>6 DEF ExitContainer
  <2>2. c = [pid |-> c.pid, pod |-> c.pod, name |-> c.name, up |-> c.up]
    BY DEF NodeOK
  <2>3. old.up = FALSE
    BY <2>2, Zenon
  <2> HIDE DEF old
  <2>4. QED
    BY <2>1, <2>3, ListedStays
<1>7. ASSUME NEW c \in ctrs, RemoveContainer(c) PROVE ListedOK'
  BY <1>7, ListedStays DEF RemoveContainer
<1>8. ASSUME NEW key \in IfaceKeys, InterfaceAdded(key) \/ InterfaceDeleted(key) PROVE ListedOK'
  <2>1. stage' = stage /\ ctrs' = ctrs
    BY <1>8 DEF InterfaceAdded, InterfaceDeleted
  <2>2. QED
    BY <2>1, ListedStays
<1>9. QED
  BY <1>2, <1>3, <1>4, <1>5, <1>6, <1>7, <1>8 DEF Node

LEMMA OthersSettled ==
  ASSUME NodeOK, NodeTypes, SettledInv, Node \/ \E s \in StoredSpecs : EditLinks(s)
  PROVE  SettledInv' /\ OnlyWanted' /\ AllCovered'
<1>1. UNCHANGED <<agentVars, attached>> /\ dirty'
  BY OthersLeaveAgent
<1>2. ListedOK'
  <2>1. CASE Node
    BY <2>1, ListedStep DEF SettledInv
  <2>2. CASE \E s \in StoredSpecs : EditLinks(s)
    <3>1. stage' = stage /\ ctrs' = ctrs
      BY <2>2 DEF EditLinks, nodeVars
    <3>2. QED
      BY <3>1, ListedStays DEF SettledInv
  <2>3. QED
    BY <2>1, <2>2
<1>3. EntriesTrue' /\ ExpectedNew'
  BY <1>1 DEF SettledInv, EntriesTrue, ExpectedNew, agentVars
<1>4. DoneOK' /\ FreshOK' /\ OnlyWanted' /\ AllCovered'
  BY <1>1 DEF DoneOK, Settled, FreshOK, OnlyWanted, AllCovered
<1>5. QED
  BY <1>2, <1>3, <1>4 DEF SettledInv

\* What a link asks for depends on the node and the running reconcile only.
LEMMA LinkMeaningSame ==
  ASSUME UNCHANGED nodeVars, cur' = cur
  PROVE  /\ \A l : Asks(l)' <=> Asks(l)
         /\ \A l, w : Serves(l, w)' <=> Serves(l, w)
         /\ \A l : Readable(cur.type, l)' <=> Readable(cur.type, l)
<1>1. \A t, l : (Readable(t, l)' <=> Readable(t, l)) /\ (Reached(t, l)' <=> Reached(t, l))
  BY NodeSame
<1>2. \A s, l : PointNow(s, l)' = PointNow(s, l)
  BY NodeSame
<1>3. \A s : Wanted(s)' = Wanted(s)
  BY MeaningSame
<1>4. \A l : Asks(l)' <=> Asks(l)
  BY <1>1, <1>2, <1>3 DEF Asks
<1>5. \A l, w : Serves(l, w)' <=> Serves(l, w)
  BY <1>1, <1>2 DEF Serves
<1>6. \A l : Readable(cur.type, l)' <=> Readable(cur.type, l)
  BY <1>1
<1>7. QED
  BY <1>4, <1>5, <1>6

LEMMA RestSettled ==
  ASSUME SettledInv, UNCHANGED vars
  PROVE  SettledInv' /\ (OnlyWanted => OnlyWanted') /\ (AllCovered => AllCovered')
<1>1. /\ UNCHANGED nodeVars /\ UNCHANGED <<spec, attached, dirty>>
      /\ UNCHANGED <<links, linkStatus, pc, cur, pos, expected, cache>>
      /\ UNCHANGED <<stage, sandbox, ctrs, nextPid, ifmap>>
  BY DEF vars, agentVars, nodeVars
<1>2. ListedOK' /\ EntriesTrue' /\ ExpectedNew' /\ DoneOK'
  BY <1>1 DEF SettledInv, ListedOK, EntriesTrue, ExpectedNew, DoneOK, Settled
<1>3. FreshOK'
  BY <1>1, LinkMeaningSame, NodeSame DEF SettledInv, FreshOK
<1>4. OnlyWanted => OnlyWanted'
  BY <1>1, LinkMeaningSame DEF OnlyWanted
<1>5. \A w : Covered(w)' <=> Covered(w)
  BY <1>1, LinkMeaningSame DEF Covered
<1>6. AllCovered => AllCovered'
  BY <1>1, <1>5, MeaningSame DEF AllCovered, Settled
<1>7. QED
  BY <1>2, <1>3, <1>4, <1>6 DEF SettledInv

\* What the other controller does to the cache leaves it up to date.
LEMMA CacheSettled ==
  ASSUME SettledInv, OtherEffect
  PROVE  SettledInv' /\ (OnlyWanted => OnlyWanted') /\ (AllCovered => AllCovered')
<1>1. /\ UNCHANGED nodeVars /\ UNCHANGED <<spec, attached, dirty, links, linkStatus, pc, cur, pos, expected>>
      /\ UNCHANGED <<stage, sandbox, ctrs, nextPid, ifmap>>
  BY DEF OtherEffect, nodeVars
<1>2. ListedOK' /\ EntriesTrue' /\ ExpectedNew' /\ DoneOK'
  BY <1>1 DEF SettledInv, ListedOK, EntriesTrue, ExpectedNew, DoneOK, Settled
<1>3. ~dirty => \A x \in DOMAIN cache' : cache'[x] = Stat(x)
  <2>1. CASE cache' = NoPaths
    BY <2>1 DEF NoPaths
  <2>2. ASSUME NEW y, cache' = Remember(cache, {y}), ~dirty
        PROVE  \A x \in DOMAIN cache' : cache'[x] = Stat(x)
    BY <2>2, Remembered DEF SettledInv, FreshOK, GetNetNsId
  <2>3. QED
    BY <2>1, <2>2 DEF OtherEffect
<1>4. FreshOK'
  BY <1>1, <1>3, LinkMeaningSame, NodeSame DEF SettledInv, FreshOK
<1>5. OnlyWanted => OnlyWanted'
  BY <1>1, LinkMeaningSame DEF OnlyWanted
<1>6. \A w : Covered(w)' <=> Covered(w)
  BY <1>1, LinkMeaningSame DEF Covered
<1>7. AllCovered => AllCovered'
  BY <1>1, <1>6, MeaningSame DEF AllCovered, Settled
<1>8. QED
  BY <1>2, <1>4, <1>5, <1>7 DEF SettledInv

LEMMA StartCleared ==
  ASSUME BaseInv, ReconcileStart
  PROVE  /\ DOMAIN links' = DOMAIN links
         /\ \A j \in DOMAIN links : /\ Static(links'[j], links[j]) /\ links'[j].id = links[j].id
                                    /\ links'[j].status = links[j].status /\ ~links'[j].should
<1>1. IsList(links) /\ links' = ClearShouldAttach(links)
  BY DEF BaseInv, EntriesOK, ReconcileStart
<1>2. PICK b \in [DOMAIN links -> BOOLEAN] :
        Marks(ClearShouldAttach(links), links, b) /\ \A j \in DOMAIN links : ~b[j]
  BY <1>1, ClearedLinks
<1>3. Marks(links', links, b)
  BY <1>1, <1>2
<1>4. \A j \in DOMAIN links : ~links'[j].should
  BY <1>2, <1>3, Zenon DEF Marks
<1>5. QED
  BY <1>3, <1>4 DEF Marks

LEMMA StartOfReconcile ==
  ASSUME BaseInv, SettledInv, ReconcileStart
  PROVE  SettledInv' /\ OnlyWanted' /\ AllCovered'
<1>1. /\ DOMAIN links' = DOMAIN links
      /\ \A j \in DOMAIN links : /\ Static(links'[j], links[j]) /\ links'[j].id = links[j].id
                                 /\ links'[j].status = links[j].status /\ ~links'[j].should
  BY StartCleared
<1>2. /\ pc' = "update" /\ cur' = spec /\ spec' = spec /\ pos' = 1 /\ expected' = {} /\ cache' = NoPaths
      /\ attached' = attached /\ UNCHANGED nodeVars /\ stage' = stage /\ ctrs' = ctrs
  BY DEF ReconcileStart, nodeVars
<1>3. ListedOK' /\ ExpectedNew'
  BY <1>2, ListedStays DEF SettledInv, ExpectedNew
<1>4. EntriesTrue'
  BY <1>1, <1>2 DEF SettledInv, EntriesTrue, Static
<1>5. DoneOK'
  BY <1>2 DEF DoneOK, Settled
<1>6. FreshOK' /\ OnlyWanted'
  BY <1>1, <1>2 DEF FreshOK, OnlyWanted, NoPaths
<1>7. \A j \in DOMAIN cur'.links : ~(j < 1)
  <2>1. spec \in StoredSpecs
    BY DEF BaseInv, KindOK
  <2>2. Len(spec.links) \in Nat /\ DOMAIN spec.links = 1..Len(spec.links)
    BY <2>1, StoredFacts
  <2>3. QED
    BY <1>2, <2>2
<1>8. AllCovered'
  BY <1>2, <1>7 DEF AllCovered, Settled
<1>9. QED
  BY <1>3, <1>4, <1>5, <1>6, <1>8 DEF SettledInv

LEMMA EndOfUpdate ==
  ASSUME BaseInv, SettledInv, updateLinksFails \/ updateLinksDone
  PROVE  SettledInv' /\ (OnlyWanted => OnlyWanted') /\ (AllCovered => AllCovered')
<1>1. /\ pc = "update" /\ expected = {} /\ expected' = {} /\ cache' = NoPaths /\ cur' = cur /\ links' = links
      /\ spec' = spec /\ attached' = attached /\ dirty' = dirty
      /\ UNCHANGED nodeVars /\ stage' = stage /\ ctrs' = ctrs
      /\ \/ pc' = "idle" /\ linkStatus' # "Success"
         \/ pc' = "process" /\ pos > Len(cur.links)
  BY DEF updateLinksFails, updateLinksDone, nodeVars
<1>2. ListedOK' /\ ExpectedNew' /\ EntriesTrue' /\ DoneOK'
  BY <1>1, ListedStays DEF SettledInv, ExpectedNew, EntriesTrue, DoneOK, Settled
<1>3. FreshOK'
  BY <1>1, LinkMeaningSame DEF SettledInv, FreshOK, NoPaths
<1>4. OnlyWanted => OnlyWanted'
  BY <1>1, LinkMeaningSame DEF OnlyWanted
<1>5. \A w : Covered(w)' <=> Covered(w)
  BY <1>1, LinkMeaningSame DEF Covered
<1>6. \A j \in DOMAIN cur.links : j \in Nat /\ j <= Len(cur.links) /\ Len(cur.links) \in Nat
  <2>1. cur \in StoredSpecs
    BY DEF BaseInv, KindOK
  <2>2. QED
    BY <2>1, StoredFacts
<1>7. AllCovered => AllCovered'
  <2>1. SUFFICES ASSUME AllCovered, ~dirty, NEW j \in DOMAIN cur.links, pc' = "process", Plain(cur,
          cur.links[j])'
                 PROVE  \A w \in WantedOf(cur, cur.links[j])' : Covered(w)'
    BY <1>1 DEF AllCovered, Settled
  <2>2. j < pos
    BY <1>1, <1>6, <2>1 DEF BaseInv
  <2>3. /\ Plain(cur, cur.links[j]) /\ WantedOf(cur, cur.links[j])' = WantedOf(cur, cur.links[j])
    BY <1>1, <2>1, MeaningSame
  <2>4. QED
    BY <1>1, <1>5, <2>1, <2>2, <2>3 DEF AllCovered
<1>8. QED
  BY <1>2, <1>3, <1>4, <1>7 DEF SettledInv

(***************************************************************************)
(* updateLinks expands an attachInfo.                                      *)
(***************************************************************************)
LEMMA NewLinkMarked ==
  ASSUME NEW attrs, NEW x, NEW path, NEW pid
  PROVE  /\ NewLink(attrs).should /\ NewLink(attrs).status = "NotAttached"
         /\ createLinkEntry(attrs, x, path).should /\ createLinkEntry(attrs, x, path).status = "NotAttached"
         /\ [NewLink(attrs) EXCEPT !.containerPid = pid].should
         /\ [NewLink(attrs) EXCEPT !.containerPid = pid].status = "NotAttached"
BY Zenon DEF NewLink, createLinkEntry

LEMMA ExpansionMarked ==
  ASSUME NEW s, NEW ai, NEW E \in Expansions(s, ai), NEW l \in E
  PROVE  l.should /\ l.status = "NotAttached"
<1> DEFINE a == AttrsOf(s.type, ai.attrs)
           entry == \E x, path : l = createLinkEntry(a, x, path)
<1>1. ASSUME NEW ifs, NEW sel, E \in LinksInPods(a, ifs, sel) PROVE entry
  BY <1>1 DEF LinksInPods
<1>2. s.type \in NetTypes => entry
  <2>1. SUFFICES ASSUME s.type \in NetTypes PROVE entry
    OBVIOUS
  <2>2. E \in clNetLinks(a, ai) \/ E \in nsNetLinks(a, ai)
    BY <2>1 DEF Expansions
  <2> HIDE DEF a
  <2>3. CASE E \in clNetLinks(a, ai)
    BY <1>1, <2>3 DEF clNetLinks
  <2>4. CASE E \in nsNetLinks(a, ai)
    BY <1>1, <2>4 DEF nsNetLinks
  <2>5. QED
    BY <2>2, <2>3, <2>4
<1>3. s.type \notin NetTypes =>
        l = NewLink(a) \/ \E pid : l = [NewLink(a) EXCEPT !.containerPid = pid]
  BY DEF Expansions, LinksInContainers, KernelLink
<1>4. CASE entry
  <2>1. PICK x, path : l = createLinkEntry(a, x, path)
    BY <1>4
  <2> HIDE DEF a
  <2>2. QED
    BY <2>1, NewLinkMarked, Zenon
<1>5. ASSUME NEW pid, l = [NewLink(a) EXCEPT !.containerPid = pid] PROVE l.should /\ l.status = "NotAttached"
  <2> HIDE DEF a
  <2>1. QED
    BY <1>5, NewLinkMarked, Zenon
<1>6. CASE l = NewLink(a)
  <2> HIDE DEF a
  <2>1. QED
    BY <1>6, NewLinkMarked, Zenon
<1> HIDE DEF a, entry
<1>7. QED
  BY <1>2, <1>3, <1>4, <1>5, <1>6, Zenon

LEMMA ExpansionFromInfo ==
  ASSUME NodeOK, NEW s \in StoredSpecs, NEW j \in DOMAIN s.links, NEW ai, ai = s.links[j],
         NEW E \in Expansions(s, ai), NEW l \in E
  PROVE  FromInfo(s.type, l, ai)
<1> DEFINE a == AttrsOf(s.type, ai.attrs)
<1>1. l.attrs = a
  <2>1. CASE s.type \in NetTypes
    BY <2>1, NetworkLinks DEF Expansions, NetLink
  <2>2. CASE s.type \notin NetTypes
    <3>1. (\E sel : E \in LinksInContainers(a, sel)) \/ E \in KernelLink(a)
      BY <2>2 DEF Expansions
    <3>2. ProcLink(a, l)
      BY <3>1, ContainerLinks, KernelLinks DEF HostLink
    <3>3. QED
      BY <3>2 DEF ProcLink
  <2>3. QED
    BY <2>1, <2>2
<1>2. QED
  BY <1>1 DEF FromInfo

\* A link of an expansion serves the place the attachInfo asks for.
LEMMA ServesAsMeant ==
  ASSUME NoUnSpec, NodeOK, NEW s \in StoredSpecs, NEW j \in DOMAIN s.links, NEW ai, ai = s.links[j],
         NEW E \in Expansions(s, ai), NEW l \in E
  PROVE  PointNow(s, l) = [at |-> PlaceNow(s.type, l), does |-> Meant(s, l.iface, ai.attrs)]
<1>1. FromInfo(s.type, l, ai)
  BY ExpansionFromInfo
<1>2. Does(s, l) = Meant(s, l.iface, ai.attrs)
  BY <1>1, DoesAsMeant
<1>3. QED
  BY <1>2 DEF PointNow

LEMMA ExpandedAsks ==
  ASSUME NoUnSpec, NamesTellNamespaces, MeantInterfaces, BaseInv, ListedOK, Expanded
  PROVE  \A l \in expected' : Asks(l)
<1>1. /\ NodeOK /\ cur \in StoredSpecs /\ pos \in DOMAIN cur.links
      /\ expected' \in Expansions(cur, cur.links[pos])
  BY DEF BaseInv, KindOK, Expanded
<1>2. ASSUME NEW l \in expected', Reached(cur.type, l) PROVE PointNow(cur, l) \in Wanted(cur)
  <2> DEFINE ai == cur.links[pos]
             x == <<l.iface, PlaceNow(cur.type, l)>>
  <2>1. x \in WantedPlaces(cur, ai)
    BY <1>1, <1>2, ExpansionWanted
  <2>2. PointNow(cur, l) = [at |-> PlaceNow(cur.type, l), does |-> Meant(cur, l.iface, ai.attrs)]
    BY <1>1, ServesAsMeant
  <2>3. cur.type \in ProgramTypeSet
    BY <1>1, StoredType
  <2>4. WantedOf(cur, ai) = {[at |-> y[2], does |-> Meant(cur, y[1], ai.attrs)] : y \in WantedPlaces(cur, ai)}
    BY <2>3, WantedByPlace
  <2>5. x[1] = l.iface /\ x[2] = PlaceNow(cur.type, l)
    OBVIOUS
  <2>6. PointNow(cur, l) = [at |-> x[2], does |-> Meant(cur, x[1], ai.attrs)]
    BY <2>2
  <2> HIDE DEF x
  <2>7. PointNow(cur, l) \in WantedOf(cur, ai)
    BY <2>1, <2>4, <2>6
  <2>8. QED
    BY <1>1, <2>7 DEF Wanted
<1>3. QED
  BY <1>2 DEF Asks

LEMMA ExpandedServes ==
  ASSUME NoUnSpec, BaseInv, Expanded, Plain(cur, cur.links[pos]), NEW w \in WantedOf(cur, cur.links[pos])
  PROVE  \E l \in expected' : Serves(l, w)
<1> DEFINE ai == cur.links[pos]
<1>1. /\ NodeOK /\ cur \in StoredSpecs /\ pos \in DOMAIN cur.links
      /\ expected' \in Expansions(cur, ai)
  BY DEF BaseInv, KindOK, Expanded
<1>2. cur.type \in ProgramTypeSet
  BY <1>1, StoredType
<1>3. WantedOf(cur, ai) = {[at |-> y[2], does |-> Meant(cur, y[1], ai.attrs)] : y \in WantedPlaces(cur, ai)}
  BY <1>2, WantedByPlace
<1>4. PICK x \in WantedPlaces(cur, ai) : w = [at |-> x[2], does |-> Meant(cur, x[1], ai.attrs)]
  BY <1>3
<1>5. PICK l \in expected' : Reached(cur.type, l) /\ l.iface = x[1] /\ PlaceNow(cur.type, l) = x[2]
  BY <1>1, <1>4, ExpansionComplete
<1>6. PointNow(cur, l) = [at |-> PlaceNow(cur.type, l), does |-> Meant(cur, l.iface, ai.attrs)]
  BY <1>1, <1>5, ServesAsMeant
<1>7. PointNow(cur, l) = w
  BY <1>4, <1>5, <1>6
<1>8. QED
  BY <1>5, <1>7 DEF Serves

LEMMA ExpandedSettled ==
  ASSUME NoUnSpec, BaseInv, SettledInv, UpdateEffect, Expanded
  PROVE  /\ SettledInv'
         /\ NamesTellNamespaces /\ MeantInterfaces /\ OnlyWanted => OnlyWanted'
         /\ AllCovered => AllCovered'
<1>1. /\ pc = "update" /\ pc' = "update" /\ expected = {} /\ links' = links /\ cache' = cache /\ cur' = cur
      /\ pos \in DOMAIN cur.links /\ pos' = pos + 1 /\ spec' = spec /\ attached' = attached /\ dirty' = dirty
      /\ UNCHANGED nodeVars /\ stage' = stage /\ ctrs' = ctrs
      /\ expected' \in Expansions(cur, cur.links[pos])
  BY DEF UpdateEffect, Expanded, nodeVars
<1>2. ListedOK' /\ EntriesTrue' /\ DoneOK'
  BY <1>1, ListedStays DEF SettledInv, EntriesTrue, DoneOK, Settled
<1>3. \A l \in expected' : l.should /\ l.status = "NotAttached"
  BY <1>1, ExpansionMarked
<1>4. ExpectedNew'
  BY <1>1, <1>3 DEF ExpectedNew
<1>5. FreshOK'
  BY <1>1, LinkMeaningSame, NodeSame DEF SettledInv, FreshOK
<1>6. ASSUME NamesTellNamespaces, MeantInterfaces, OnlyWanted PROVE OnlyWanted'
  <2>1. \A l \in expected' : Asks(l)
    BY <1>6, ExpandedAsks DEF SettledInv
  <2>2. QED
    BY <1>1, <1>6, <2>1, LinkMeaningSame DEF OnlyWanted
<1>7. ASSUME AllCovered PROVE AllCovered'
  <2>1. SUFFICES ASSUME ~dirty, NEW j \in DOMAIN cur.links, j < pos + 1, Plain(cur, cur.links[j])',
                        NEW w \in WantedOf(cur, cur.links[j])'
                 PROVE  Covered(w)'
    BY <1>1 DEF AllCovered, Settled
  <2>2. Plain(cur, cur.links[j]) /\ w \in WantedOf(cur, cur.links[j])
    BY <1>1, <2>1, MeaningSame
  <2>3. j \in Nat /\ pos \in Nat
    <3>1. cur \in StoredSpecs
      BY DEF BaseInv, KindOK
    <3>2. QED
      BY <3>1, StoredFacts DEF BaseInv
  <2>4. CASE j < pos
    <3>1. Covered(w)
      BY <1>1, <1>7, <2>1, <2>2, <2>4 DEF AllCovered
    <3>2. \E i \in DOMAIN links : links[i].should /\ Serves(links[i], w)
      BY <1>1, <3>1 DEF Covered
    <3>3. QED
      BY <1>1, <3>2, LinkMeaningSame DEF Covered
  <2>5. CASE j = pos
    <3>1. \E l \in expected' : Serves(l, w)
      BY <2>2, <2>5, ExpandedServes
    <3>2. QED
      BY <1>1, <3>1, LinkMeaningSame DEF Covered
  <2>6. QED
    BY <2>1, <2>3, <2>4, <2>5
<1>8. QED
  BY <1>2, <1>4, <1>5, <1>6, <1>7 DEF SettledInv

(***************************************************************************)
(* updateLinks looks up a link.                                            *)
(***************************************************************************)
LEMMA ReadAsItIs ==
  ASSUME FreshOK, ~dirty
  PROVE  \A x : GetNetNsId(cache, x) = Stat(x)
BY DEF FreshOK, GetNetNsId

\* Where a link leads and what it asks for lies in the fields that stay.
LEMMA StaticMeans ==
  ASSUME NEW a, NEW b, Static(a, b)
  PROVE  /\ Asks(a) <=> Asks(b)
         /\ \A w : Serves(a, w) <=> Serves(b, w)
         /\ Readable(cur.type, a) <=> Readable(cur.type, b)
<1>1. Does(cur, a) = Does(cur, b)
  BY WhereStays
<1>2. PlaceNow(cur.type, a) = PlaceNow(cur.type, b)
  BY DEF PlaceNow, Static
<1>3. PointNow(cur, a) = PointNow(cur, b)
  BY <1>1, <1>2 DEF PointNow
<1>4. /\ Readable(cur.type, a) <=> Readable(cur.type, b)
      /\ Reached(cur.type, a) <=> Reached(cur.type, b)
  BY DEF Readable, Reached, Static
<1>5. QED
  BY <1>3, <1>4 DEF Asks, Serves

\* An entry that findLink accepts for a link stands for it.
LEMMA FoundMeans ==
  ASSUME NoUnSpec, BaseInv, FreshOK, ~dirty, NEW l \in expected, NEW j \in FoundFor(l)
  PROVE  /\ Asks(links[j]) <=> Asks(l)
         /\ \A w : Serves(links[j], w) <=> Serves(l, w)
         /\ Readable(cur.type, links[j]) <=> Readable(cur.type, l)
<1> DEFINE a == links[j]
<1>1. /\ a.iface = l.iface /\ a.attrs = l.attrs /\ a.containerPid = l.containerPid
      /\ cur.type \in NetTypes => GetNetNsId(cache, a.path) = GetNetNsId(cache, l.path)
  BY DEF FoundFor, Agree
<1>2. cur.type \in NetTypes => Stat(a.path) = Stat(l.path)
  BY <1>1, ReadAsItIs
<1>3. cur \in StoredSpecs /\ EntryOK(cur.type, nextPid, l)
  BY DEF BaseInv, KindOK, EntriesOK, ExpectedOK
<1>4. PICK ai : FromInfo(cur.type, l, ai)
  BY <1>3 DEF EntryOK
<1> HIDE DEF a
<1>5. FromInfo(cur.type, a, ai)
  BY <1>1, <1>4 DEF FromInfo
<1>6. Does(cur, l) = Meant(cur, l.iface, ai.attrs) /\ Does(cur, a) = Meant(cur, a.iface, ai.attrs)
  BY <1>3, <1>4, <1>5, DoesAsMeant
<1>7. PlaceNow(cur.type, a) = PlaceNow(cur.type, l)
  BY <1>1, <1>2 DEF PlaceNow
<1>8. PointNow(cur, a) = PointNow(cur, l)
  BY <1>1, <1>6, <1>7 DEF PointNow
<1>9. /\ Readable(cur.type, a) <=> Readable(cur.type, l)
      /\ Reached(cur.type, a) <=> Reached(cur.type, l)
  BY <1>1, <1>2 DEF Readable, Reached
<1>10. QED
  BY <1>8, <1>9 DEF Asks, Serves, a

\* The entries keep what they are; what is marked was marked or stands for l.
LEMMA LookUpOutcome ==
  ASSUME BaseInv, ExpectedNew, NEW l \in expected, LookedUp(l)
  PROVE  /\ \A j \in DOMAIN links : /\ j \in DOMAIN links' /\ Static(links'[j], links[j])
                                    /\ links'[j].id = links[j].id /\ links'[j].status = links[j].status
                                    /\ links[j].should => links'[j].should
         /\ \A j \in DOMAIN links' : \/ j \in DOMAIN links /\ (links'[j].should => links[j].should)
                                     \/ ~findLinkFails(l) /\ (links'[j] = l \/ j \in FoundFor(l))
         /\ \A j \in DOMAIN links' : j \in DOMAIN links \/ links'[j] = l
         /\ ~findLinkFails(l) => \E j \in DOMAIN links' : links'[j].should
              /\ (links'[j] = l \/ j \in FoundFor(l))
<1>1. /\ IsList(links) /\ IsLink(l) /\ FoundFor(l) \subseteq DOMAIN links
      /\ links' = IF findLinkFails(l) THEN links ELSE AddExpected(l, FoundFor(l))
  BY DEF BaseInv, EntriesOK, ExpectedOK, EntryOK, FoundFor, LookedUp
<1>2. l.should
  BY DEF ExpectedNew
<1>3. CASE findLinkFails(l)
  BY <1>1, <1>3 DEF Static
<1>4. CASE ~findLinkFails(l) /\ FoundFor(l) = {}
  <2>1. links' = Append(links, l)
    BY <1>1, <1>4 DEF AddExpected
  <2>2. /\ DOMAIN links' = 1..(Len(links) + 1) /\ \A j \in DOMAIN links : links'[j] = links[j]
        /\ links'[Len(links) + 1] = l
    BY <1>1, <2>1, AppendList
  <2>3. Len(links) \in Nat /\ DOMAIN links = 1..Len(links)
    BY <1>1, ListFacts
  <2>4. \A j \in DOMAIN links' : j \in DOMAIN links \/ j = Len(links) + 1
    BY <2>2, <2>3
  <2>5. DOMAIN links \subseteq DOMAIN links' /\ Len(links) + 1 \in DOMAIN links'
    BY <2>2, <2>3
  <2>6. \A j \in DOMAIN links : /\ j \in DOMAIN links' /\ Static(links'[j], links[j])
                                /\ links'[j].id = links[j].id /\ links'[j].status = links[j].status
                                /\ links[j].should => links'[j].should
    BY <2>2, <2>5 DEF Static
  <2>7. \E j \in DOMAIN links' : links'[j].should /\ links'[j] = l
    BY <1>2, <2>2, <2>5
  <2>8. QED
    BY <1>4, <2>2, <2>4, <2>6, <2>7
<1>5. CASE ~findLinkFails(l) /\ FoundFor(l) # {}
  <2>1. PICK b \in [DOMAIN links -> BOOLEAN] :
          /\ Marks(AddExpected(l, FoundFor(l)), links, b)
          /\ \A j \in DOMAIN links :
               b[j] <=> links[j].should \/ (j \in FoundFor(l) /\ \A f \in FoundFor(l) : j <= f)
    BY <1>1, <1>5, FoundMarked
  <2>2. Marks(links', links, b)
    BY <1>1, <1>5, <2>1
  <2>3. Len(links) \in Nat /\ DOMAIN links = 1..Len(links)
    BY <1>1, ListFacts
  <2>4. PICK i \in FoundFor(l) : \A f \in FoundFor(l) : i <= f
    BY <1>1, <1>5, <2>3, LeastOf
  <2>5. DOMAIN links' = DOMAIN links
    BY <2>2 DEF Marks
  <2>6. \A j \in DOMAIN links :
          links'[j].should <=> links[j].should \/ (j \in FoundFor(l) /\ \A f \in FoundFor(l) : j <= f)
    BY <2>1, <2>2, Zenon DEF Marks
  <2>7. \A j \in DOMAIN links : /\ Static(links'[j], links[j])
                                /\ links'[j].id = links[j].id /\ links'[j].status = links[j].status
    BY <2>2 DEF Marks
  <2>8. i \in DOMAIN links' /\ links'[i].should
    BY <1>1, <2>4, <2>5, <2>6
  <2>9. QED
    BY <1>5, <2>4, <2>5, <2>6, <2>7, <2>8
<1>6. QED
  BY <1>3, <1>4, <1>5

\* The cache stays up to date.
LEMMA LookUpFresh ==
  ASSUME FreshOK, ~dirty, NEW l, LookedUp(l)
  PROVE  \A x \in DOMAIN cache' : cache'[x] = Stat(x)
<1>1. cache' = cache \/ cache' = Remember(cache, Asked(l, FoundFor(l)))
  BY DEF LookedUp
<1>2. CASE cache' = cache
  BY <1>2 DEF FreshOK
<1>3. CASE cache' = Remember(cache, Asked(l, FoundFor(l)))
  BY <1>3, Remembered, ReadAsItIs
<1>4. QED
  BY <1>1, <1>2, <1>3

LEMMA LookedUpSettled ==
  ASSUME NoUnSpec, BaseInv, SettledInv, UpdateEffect, NEW l \in expected, LookedUp(l)
  PROVE  SettledInv' /\ (OnlyWanted => OnlyWanted') /\ (AllCovered => AllCovered')
<1>1. /\ pc = "update" /\ pc' = "update" /\ expected' = expected \ {l} /\ pos' = pos /\ cur' = cur
      /\ spec' = spec /\ attached' = attached /\ dirty' = dirty
      /\ UNCHANGED nodeVars /\ stage' = stage /\ ctrs' = ctrs
  BY DEF UpdateEffect, LookedUp, nodeVars
<1>2. ListedOK /\ EntriesTrue /\ ExpectedNew /\ FreshOK /\ l.should /\ l.status = "NotAttached" /\ l.id = None
  BY DEF SettledInv, ExpectedNew, BaseInv, EntriesOK, ExpectedOK
<1>3. \A j \in DOMAIN links : /\ j \in DOMAIN links' /\ Static(links'[j], links[j])
                              /\ links'[j].id = links[j].id /\ links'[j].status = links[j].status
                              /\ links[j].should => links'[j].should
  BY <1>2, LookUpOutcome
<1>4. \A j \in DOMAIN links' : \/ j \in DOMAIN links /\ (links'[j].should => links[j].should)
                               \/ ~findLinkFails(l) /\ (links'[j] = l \/ j \in FoundFor(l))
  BY <1>2, LookUpOutcome
<1>5. \A j \in DOMAIN links' : j \in DOMAIN links \/ links'[j] = l
  BY <1>2, LookUpOutcome
<1>6. ~findLinkFails(l) => \E j \in DOMAIN links' : links'[j].should /\ (links'[j] = l \/ j \in FoundFor(l))
  BY <1>2, LookUpOutcome
<1>7. ListedOK' /\ ExpectedNew' /\ DoneOK'
  BY <1>1, <1>2, ListedStays DEF ExpectedNew, DoneOK, Settled
<1>8. EntriesTrue'
  BY <1>1, <1>2, <1>3, <1>5 DEF EntriesTrue, Static
<1>9. FoundFor(l) \subseteq DOMAIN links
  BY DEF FoundFor
<1>10. ~dirty => (findLinkFails(l) <=> ~Readable(cur.type, l))
  BY <1>2, ReadAsItIs DEF findLinkFails, Readable
<1>11. ASSUME ~dirty, NEW j \in DOMAIN links', links'[j].should PROVE Readable(cur.type, links'[j])
  <2>1. CASE j \in DOMAIN links /\ links[j].should
    <3>1. Readable(cur.type, links[j])
      BY <1>2, <1>11, <2>1 DEF FreshOK
    <3>2. QED
      BY <1>3, <2>1, <3>1, StaticMeans
  <2>2. CASE ~findLinkFails(l) /\ links'[j] = l
    BY <1>10, <1>11, <2>2
  <2>3. CASE ~findLinkFails(l) /\ j \in FoundFor(l)
    <3>1. Readable(cur.type, links[j])
      BY <1>2, <1>10, <1>11, <2>3, FoundMeans
    <3>2. QED
      BY <1>3, <1>9, <2>3, <3>1, StaticMeans
  <2>4. QED
    BY <1>4, <1>11, <2>1, <2>2, <2>3
<1>12. FreshOK'
  <2>1. ~dirty => cur = spec /\ \A x \in DOMAIN cache' : cache'[x] = Stat(x)
    BY <1>2, LookUpFresh DEF FreshOK
  <2>2. QED
    BY <1>1, <1>11, <2>1, LinkMeaningSame, NodeSame DEF FreshOK
<1>13. ASSUME OnlyWanted PROVE OnlyWanted'
  <2>1. ASSUME ~dirty, NEW j \in DOMAIN links', links'[j].should PROVE Asks(links'[j])
    <3>1. Asks(l)
      BY <1>13, <2>1 DEF OnlyWanted
    <3>2. CASE j \in DOMAIN links /\ links[j].should
      <4>1. Asks(links[j])
        BY <1>13, <2>1, <3>2 DEF OnlyWanted
      <4>2. QED
        BY <1>3, <3>2, <4>1, StaticMeans
    <3>3. CASE links'[j] = l
      BY <3>1, <3>3
    <3>4. CASE j \in FoundFor(l)
      <4>1. Asks(links[j])
        BY <1>2, <2>1, <3>1, <3>4, FoundMeans
      <4>2. QED
        BY <1>3, <1>9, <3>4, <4>1, StaticMeans
    <3>5. QED
      BY <1>4, <2>1, <3>2, <3>3, <3>4
  <2>2. QED
    BY <1>1, <1>13, <2>1, LinkMeaningSame DEF OnlyWanted
<1>14. ASSUME ~dirty, NEW w, Covered(w) PROVE Covered(w)'
  <2>1. CASE \E k \in expected : k # l /\ Serves(k, w)
    BY <1>1, <2>1, LinkMeaningSame DEF Covered
  <2>2. CASE Serves(l, w)
    <3>1. ~findLinkFails(l)
      BY <1>10, <1>14, <2>2 DEF Serves, Reached
    <3>2. PICK j \in DOMAIN links' : links'[j].should /\ (links'[j] = l \/ j \in FoundFor(l))
      BY <1>6, <3>1
    <3>3. Serves(links'[j], w)
      <4>1. CASE links'[j] = l
        BY <2>2, <4>1
      <4>2. CASE j \in FoundFor(l)
        <5>1. Serves(links[j], w)
          BY <1>2, <1>14, <2>2, <4>2, FoundMeans
        <5>2. QED
          BY <1>3, <1>9, <4>2, <5>1, StaticMeans
      <4>3. QED
        BY <3>2, <4>1, <4>2
    <3>4. QED
      BY <1>1, <3>2, <3>3, LinkMeaningSame DEF Covered
  <2>3. CASE \E i \in DOMAIN links : links[i].should /\ Serves(links[i], w)
    <3>1. PICK i \in DOMAIN links : links[i].should /\ Serves(links[i], w)
      BY <2>3
    <3>2. i \in DOMAIN links' /\ links'[i].should /\ Serves(links'[i], w)
      BY <1>3, <3>1, StaticMeans
    <3>3. QED
      BY <1>1, <3>2, LinkMeaningSame DEF Covered
  <2>4. QED
    BY <1>14, <2>1, <2>2, <2>3 DEF Covered
<1>15. ASSUME AllCovered PROVE AllCovered'
  <2>1. SUFFICES ASSUME ~dirty, NEW j \in DOMAIN cur.links, j < pos, Plain(cur, cur.links[j])',
                        NEW w \in WantedOf(cur, cur.links[j])'
                 PROVE  Covered(w)'
    BY <1>1 DEF AllCovered, Settled
  <2>2. Plain(cur, cur.links[j]) /\ w \in WantedOf(cur, cur.links[j])
    BY <1>1, <2>1, MeaningSame
  <2>3. Covered(w)
    BY <1>1, <1>15, <2>1, <2>2 DEF AllCovered
  <2>4. QED
    BY <1>14, <2>1, <2>3
<1>16. QED
  BY <1>7, <1>8, <1>12, <1>13, <1>15 DEF SettledInv

(***************************************************************************)
(* processLinks.                                                           *)
(***************************************************************************)
LEMMA ExitedNotAccepted ==
  ASSUME NodeOK, NEW s, NEW l, EntryOK(s.type, nextPid, l), l.containerPid = 0
  PROVE  ~Accepted(s, l)
<1>1. None # 0
  BY BpfLinksAssumption
<1>2. s.type \in UprobeTypes
  BY <1>1 DEF EntryOK
<1> DEFINE req == getAttachRequest(s, l)
<1>3. req = uprobeInfo(l)
  BY <1>2, UprobeRequest
<1>4. "netns" \notin DOMAIN req /\ "containerPid" \in DOMAIN req /\ req.containerPid = 0
  BY <1>3 DEF uprobeInfo
<1>5. ~Running(0)
  BY DEF Running, NodeOK
<1> HIDE DEF req
<1>6. Place(req) = None
  BY <1>1, <1>4, <1>5 DEF Place
<1>7. QED
  BY <1>6 DEF Accepted, req

LEMMA VisitSettled ==
  ASSUME BaseInv, RecordInv, SettledInv, NEW m, LinkEffect(m)
  PROVE  SettledInv' /\ (OnlyWanted => OnlyWanted') /\ (AllCovered => AllCovered')
<1> DEFINE l == links[pos]
<1>1. /\ pc = "process" /\ pos \in DOMAIN links /\ LinkVisited(m) /\ Static(m, l) /\ (m.should <=> l.should)
  BY DEF LinkEffect, AtLink
<1>2. /\ links' = [links EXCEPT ![pos] = m] /\ pc' = pc /\ cur' = cur /\ expected' = expected /\ cache' = cache
      /\ linkStatus' = linkStatus /\ spec' = spec /\ dirty' = dirty
      /\ UNCHANGED nodeVars /\ stage' = stage /\ ctrs' = ctrs
  BY <1>1 DEF LinkVisited, nodeVars
<1>3. DOMAIN links' = DOMAIN links /\ \A j \in DOMAIN links : links'[j] = IF j = pos THEN m ELSE links[j]
  BY <1>2
<1>4. \A j \in DOMAIN links : Static(links'[j], links[j]) /\ (links'[j].should <=> links[j].should)
  BY <1>1, <1>3 DEF Static
<1>5. ListedOK' /\ ExpectedNew' /\ DoneOK'
  BY <1>1, <1>2, ListedStays DEF SettledInv, ExpectedNew, DoneOK, Settled
<1>6. EntriesTrue'
  <2>1. /\ \A j \in DOMAIN links : links[j].containerPid = 0 => links[j].id = None
        /\ \A j \in DOMAIN links : links[j].status = "Attached" => links[j].id \in DOMAIN attached
    BY DEF SettledInv, EntriesTrue
  <2>2. l.containerPid = 0 => ~Accepted(cur, l)
    <3>1. NodeOK /\ EntryOK(cur.type, nextPid, l)
      BY <1>1 DEF BaseInv, KindOK, EntriesOK
    <3> HIDE DEF l
    <3>2. QED
      BY <3>1, ExitedNotAccepted
  <2>3. l.containerPid = 0 => m.id = None
    BY <1>1, <2>1, <2>2 DEF LinkEffect
  <2>4. \A j \in DOMAIN links' : links'[j].containerPid = 0 => links'[j].id = None
    BY <1>1, <1>3, <2>1, <2>3 DEF Static
  <2>5. m.status = "Attached" => m.id \in DOMAIN attached'
    BY DEF LinkEffect, HasLink, OneMore
  <2>6. ASSUME NEW j \in DOMAIN links, j # pos, links[j].status = "Attached"
        PROVE  links[j].id \in DOMAIN attached'
    <3>1. links[j].id \in DOMAIN attached
      BY <2>1, <2>6
    <3>2. None \notin DOMAIN attached
      BY BpfLinksAssumption DEF RecordInv
    <3>3. links[j].id # l.id
      BY <1>1, <2>6, <3>1, <3>2 DEF RecordInv, Distinct
    <3>4. QED
      BY <3>1, <3>3 DEF LinkEffect, OneMore, OneLess
  <2>7. \A j \in DOMAIN links' : links'[j].status = "Attached" => links'[j].id \in DOMAIN attached'
    BY <1>3, <2>5, <2>6
  <2>8. QED
    BY <2>4, <2>7 DEF EntriesTrue
<1> HIDE DEF l
<1>7. FreshOK'
  <2>1. \A j \in DOMAIN links : Readable(cur.type, links'[j]) <=> Readable(cur.type, links[j])
    BY <1>4, StaticMeans
  <2>2. QED
    BY <1>2, <1>3, <1>4, <2>1, LinkMeaningSame, NodeSame DEF SettledInv, FreshOK
<1>8. \A j \in DOMAIN links : (Asks(links'[j]) <=> Asks(links[j]))
                              /\ \A w : Serves(links'[j], w) <=> Serves(links[j], w)
  BY <1>4, StaticMeans
<1>9. OnlyWanted => OnlyWanted'
  BY <1>2, <1>3, <1>4, <1>8, LinkMeaningSame DEF OnlyWanted
<1>10. \A w : Covered(w) => Covered(w)'
  BY <1>2, <1>3, <1>4, <1>8, LinkMeaningSame DEF Covered
<1>11. AllCovered => AllCovered'
  BY <1>1, <1>2, <1>10, MeaningSame DEF AllCovered
<1>12. QED
  BY <1>5, <1>6, <1>7, <1>9, <1>11 DEF SettledInv

\* removeLinks keeps the entries that are wanted or attached, and no others.
LEMMA RemovedKeeps ==
  ASSUME NEW ls, IsList(ls), NEW rs, rs = removeLinks(ls)
  PROVE  /\ \A j \in DOMAIN rs : ~Unused(rs[j]) /\ \E i \in DOMAIN ls : rs[j] = ls[i]
         /\ \A i \in DOMAIN ls : ~Unused(ls[i]) => \E j \in DOMAIN rs : rs[j] = ls[i]
<1> DEFINE kept == {j \in DOMAIN ls : ~Unused(ls[j])}
           n == Cardinality(kept)
<1>1. Len(ls) \in Nat /\ DOMAIN ls = 1..Len(ls)
  BY ListFacts
<1>2. kept \in SUBSET (1..Len(ls)) /\ rs = Keep(ls, kept)
  BY <1>1 DEF removeLinks
<1>3. \A h \in DOMAIN ls : h \in kept <=> ~Unused(ls[h])
  OBVIOUS
<1>4. kept \subseteq DOMAIN ls
  OBVIOUS
<1> HIDE DEF kept
<1>5. n \in Nat /\ \E ord : Reorders(ord, Keep(ls, kept), ls, kept)
  BY <1>1, <1>2, KeepIsReordering
<1>6. PICK ord : Reorders(ord, rs, ls, kept)
  BY <1>2, <1>5
<1>7. DOMAIN rs = 1..n /\ \A j \in 1..n : rs[j] = ls[ord[j]] /\ ord[j] \in kept
  BY <1>6 DEF Reorders
<1>8. \A h \in kept : \E j \in 1..n : ord[j] = h
  BY <1>6 DEF Reorders
<1> HIDE DEF n
<1>9. QED
  BY <1>3, <1>4, <1>7, <1>8

LEMMA ProcessSettled ==
  ASSUME BaseInv, SettledInv, ProcessEffect
  PROVE  SettledInv' /\ (OnlyWanted => OnlyWanted') /\ (AllCovered => AllCovered')
<1>1. /\ pc = "process" /\ pc' = "idle" /\ links' = removeLinks(links) /\ cur' = cur /\ expected' = expected
      /\ cache' = cache /\ spec' = spec /\ attached' = attached /\ dirty' = dirty
      /\ UNCHANGED nodeVars /\ stage' = stage /\ ctrs' = ctrs
      /\ linkStatus' = "Success" => \A j \in DOMAIN links' : isAttachSuccess(links'[j])
  BY DEF ProcessEffect, nodeVars
<1>2. IsList(links)
  BY DEF BaseInv, EntriesOK
<1>3. \A j \in DOMAIN links' : ~Unused(links'[j]) /\ \E i \in DOMAIN links : links'[j] = links[i]
  BY <1>1, <1>2, RemovedKeeps
<1>4. \A i \in DOMAIN links : ~Unused(links[i]) => \E j \in DOMAIN links' : links'[j] = links[i]
  BY <1>1, <1>2, RemovedKeeps
<1>5. expected = {}
  BY <1>1 DEF SettledInv, ExpectedNew
<1>6. ListedOK' /\ ExpectedNew'
  BY <1>1, <1>5, ListedStays DEF SettledInv, ExpectedNew
<1>7. EntriesTrue'
  BY <1>1, <1>3 DEF SettledInv, EntriesTrue
<1>8. DoneOK'
  BY <1>1, <1>3 DEF DoneOK, Settled, isAttachSuccess, Unused
<1>9. FreshOK'
  BY <1>1, <1>3, LinkMeaningSame, NodeSame DEF SettledInv, FreshOK
<1>10. OnlyWanted => OnlyWanted'
  BY <1>1, <1>3, LinkMeaningSame DEF OnlyWanted
<1>11. \A i \in DOMAIN links : links[i].should => \E j \in DOMAIN links' : links'[j] = links[i]
  BY <1>4 DEF Unused
<1>12. ASSUME NEW w, Covered(w) PROVE Covered(w)'
  <2>1. PICK i \in DOMAIN links : links[i].should /\ Serves(links[i], w)
    BY <1>5, <1>12 DEF Covered
  <2>2. PICK j \in DOMAIN links' : links'[j] = links[i]
    BY <1>11, <2>1
  <2>3. QED
    BY <1>1, <2>1, <2>2, LinkMeaningSame DEF Covered
<1>13. AllCovered => AllCovered'
  BY <1>1, <1>12, MeaningSame DEF AllCovered
<1>14. QED
  BY <1>6, <1>7, <1>8, <1>9, <1>10, <1>13 DEF SettledInv

(***************************************************************************)
(* Every step, and what the invariants give once a reconcile succeeded.    *)
(***************************************************************************)
LEMMA StepSettled ==
  ASSUME NoUnSpec, BaseInv, RecordInv, NodeTypes, SettledInv, [Next]_vars
  PROVE  /\ SettledInv'
         /\ NamesTellNamespaces /\ MeantInterfaces /\ OnlyWanted => OnlyWanted'
         /\ AllCovered => AllCovered'
<1>1. CASE ReconcileStart
  BY <1>1, StartOfReconcile
<1>2. CASE updateLinks
  <2>1. UpdateEffect
    BY <1>2, UpdateLinksEffect
  <2>2. CASE Expanded
    BY <2>1, <2>2, ExpandedSettled
  <2>3. ASSUME NEW l \in expected, LookedUp(l)
        PROVE  SettledInv' /\ (OnlyWanted => OnlyWanted') /\ (AllCovered => AllCovered')
    BY <2>1, <2>3, LookedUpSettled
  <2>4. Expanded \/ \E l \in expected : LookedUp(l)
    BY <2>1 DEF UpdateEffect
  <2>5. QED
    BY <2>2, <2>3, <2>4
<1>3. CASE updateLinksFails \/ updateLinksDone
  BY <1>3, EndOfUpdate
<1>4. CASE reconcileBpfLink
  <2>1. PICK m : LinkEffect(m)
    BY <1>4, LinkStepEffect
  <2>2. QED
    BY <2>1, VisitSettled
<1>5. CASE processLinks
  <2>1. ProcessEffect
    BY <1>5, ProcessLinksEffect
  <2>2. QED
    BY <2>1, ProcessSettled
<1>6. CASE Node \/ \E s \in StoredSpecs : EditLinks(s)
  <2>1. NodeOK
    BY DEF BaseInv
  <2>2. QED
    BY <1>6, <2>1, OthersSettled
<1>7. CASE UNCHANGED vars
  BY <1>7, RestSettled
<1>8. CASE OtherController
  BY <1>8, OtherControllerEffect, CacheSettled DEF BaseInv
<1>9. QED
  BY <1>1, <1>2, <1>3, <1>4, <1>5, <1>6, <1>7, <1>8 DEF Next, Reconcile

\* Every entry of a settled list is attached at the place it leads to now.
LEMMA SettledEntry ==
  ASSUME BaseInv, RecordInv, SettledInv, NEW tgt, OnceInv(tgt), Settled, NEW j \in DOMAIN links
  PROVE  /\ links[j].should /\ Reached(cur.type, links[j])
         /\ links[j].id \in DOMAIN attached /\ attached[links[j].id] = PointNow(cur, links[j])
<1> DEFINE l == links[j]
<1>1. l.should /\ l.status = "Attached"
  BY DEF SettledInv, DoneOK
<1>2. l.id \in DOMAIN attached /\ (l.containerPid = 0 => l.id = None)
  BY <1>1 DEF SettledInv, EntriesTrue
<1>3. cur = spec /\ Readable(cur.type, l)
  BY <1>1 DEF SettledInv, FreshOK, Settled
<1>4. l.id # None
  BY <1>2, BpfLinksAssumption DEF RecordInv
<1>5. attached[l.id] = [at |-> AtOf(tgt, cur.type, l), does |-> Does(cur, l)]
  BY <1>2, <1>3 DEF OnceInv, WhereOK, HasLink
<1>6. cur.type \in NetTypes => Stat(l.path) = Target(tgt, l.path)
  <2>1. NodeOK /\ Tells(tgt) /\ ProperPath(nextPid, l.path)
    BY DEF BaseInv, EntriesOK, EntryOK, OnceInv
  <2> HIDE DEF l
  <2>2. QED
    BY <1>3, <2>1, StatIsTarget DEF Readable
<1> HIDE DEF l
<1>7. AtOf(tgt, cur.type, l) = PlaceNow(cur.type, l)
  BY <1>6 DEF AtOf, PlaceNow
<1>8. Reached(cur.type, l)
  BY <1>2, <1>3, <1>4 DEF Reached
<1>9. QED
  BY <1>1, <1>2, <1>5, <1>7, <1>8 DEF PointNow, l

LEMMA OnlyWantedGives ==
  ASSUME OnceIInv, SettledInv, OnlyWanted
  PROVE  AttachedIsWanted
<1>1. SUFFICES ASSUME Settled, Reliable, NEW x \in DOMAIN attached PROVE attached[x] \in Wanted(spec)
  BY DEF AttachedIsWanted, AttachedPoints
<1>2. PICK tgt \in [Nat -> Nets] : OnceInv(tgt)
  BY DEF OnceIInv
<1>3. BaseInv /\ RecordInv
  BY DEF OnceIInv
<1>4. PICK j \in DOMAIN links : links[j].id = x
  BY <1>1, <1>3 DEF RecordInv, Matches
<1>5. /\ links[j].should /\ Reached(cur.type, links[j])
      /\ attached[x] = PointNow(cur, links[j])
  BY <1>1, <1>2, <1>3, <1>4, SettledEntry
<1>6. cur = spec /\ Asks(links[j])
  BY <1>1, <1>5 DEF SettledInv, FreshOK, Settled, OnlyWanted
<1>7. QED
  BY <1>5, <1>6 DEF Asks

LEMMA AllCoveredGives ==
  ASSUME OnceIInv, SettledInv, AllCovered
  PROVE  WantedIsAttached
<1>1. SUFFICES ASSUME Settled, NEW j \in DOMAIN spec.links, Plain(spec, spec.links[j]),
                      NEW w \in WantedOf(spec, spec.links[j])
               PROVE  w \in AttachedPoints
  BY DEF WantedIsAttached
<1>2. PICK tgt \in [Nat -> Nets] : OnceInv(tgt)
  BY DEF OnceIInv
<1>3. BaseInv /\ RecordInv
  BY DEF OnceIInv
<1>4. cur = spec /\ expected = {}
  BY <1>1 DEF SettledInv, FreshOK, ExpectedNew, Settled
<1>5. Covered(w)
  BY <1>1, <1>4 DEF AllCovered, Settled
<1>6. PICK i \in DOMAIN links : Serves(links[i], w)
  BY <1>4, <1>5 DEF Covered
<1>7. links[i].id \in DOMAIN attached /\ attached[links[i].id] = PointNow(cur, links[i])
  BY <1>1, <1>2, <1>3, SettledEntry
<1>8. QED
  BY <1>6, <1>7 DEF Serves, AttachedPoints

(***************************************************************************)
(* Once a reconcile saw the node as it is and succeeded, the program is    *)
(* attached nowhere but where its selectors ask for it, whatever changed   *)
(* under earlier reconciles, until a Get fails or a reply is lost.  The    *)
(* hypotheses name four readings of the code that differ from the user's:  *)
(* pods are looked up in the runtime by name without their namespace       *)
(* (findPodByNameWithNamespace), a list of allowed interfaces whose first  *)
(* expression is bad allows all (setupAllowedInterfacesLists),             *)
(* primaryNodeInterface counts even when false (getInterfaces), and UnSpec *)
(* is dropped (tcProceedOnToInt).                                          *)
(***************************************************************************)
THEOREM AttachedWhereAsked ==
  ASSUME NamesTellNamespaces, MeantInterfaces, NoUnSpec
  PROVE  Spec => []AttachedIsWanted
<1>1. Init => OnceIInv /\ TypeInv /\ SettledInv /\ OnlyWanted
  BY StartRecords, BaseStart, OnceStart, StartTypes, StartSettled DEF OnceIInv
<1>2. OnceIInv /\ TypeInv /\ SettledInv /\ OnlyWanted /\ [Next]_vars
        => OnceIInv' /\ TypeInv' /\ SettledInv' /\ OnlyWanted'
  <2>1. SUFFICES ASSUME OnceIInv, TypeInv, SettledInv, OnlyWanted, [Next]_vars
                 PROVE  OnceIInv' /\ TypeInv' /\ SettledInv' /\ OnlyWanted'
    OBVIOUS
  <2>2. BaseInv /\ RecordInv /\ NodeTypes
    BY <2>1 DEF OnceIInv, TypeInv
  <2>3. QED
    BY <2>1, <2>2, StepOnce, TypeStep, StepSettled
<1>3. OnceIInv /\ SettledInv /\ OnlyWanted => AttachedIsWanted
  BY OnlyWantedGives
<1>4. QED
  BY <1>1, <1>2, <1>3, PTL DEF Spec

(***************************************************************************)
(* Once a reconcile saw the node as it is and succeeded, the program is    *)
(* attached everywhere its selectors ask for it, as far as the runtime     *)
(* lists no exited container and no second sandbox of the selected pods    *)
(* and the list of allowed interfaces can be parsed: getExpectedLinks      *)
(* leaves nothing out, findLink takes no entry for another's place, and    *)
(* removeLinks drops no entry that is wanted.  A TC program with UnSpec in *)
(* its proceedOn list is attached, but not as asked.                       *)
(***************************************************************************)
THEOREM AskedIsAttached ==
  ASSUME NoUnSpec
  PROVE  Spec => []WantedIsAttached
<1>1. Init => OnceIInv /\ TypeInv /\ SettledInv /\ AllCovered
  BY StartRecords, BaseStart, OnceStart, StartTypes, StartSettled DEF OnceIInv
<1>2. OnceIInv /\ TypeInv /\ SettledInv /\ AllCovered /\ [Next]_vars
        => OnceIInv' /\ TypeInv' /\ SettledInv' /\ AllCovered'
  <2>1. SUFFICES ASSUME OnceIInv, TypeInv, SettledInv, AllCovered, [Next]_vars
                 PROVE  OnceIInv' /\ TypeInv' /\ SettledInv' /\ AllCovered'
    OBVIOUS
  <2>2. BaseInv /\ RecordInv /\ NodeTypes
    BY <2>1 DEF OnceIInv, TypeInv
  <2>3. QED
    BY <2>1, <2>2, StepOnce, TypeStep, StepSettled
<1>3. OnceIInv /\ SettledInv /\ AllCovered => WantedIsAttached
  BY AllCoveredGives
<1>4. QED
  BY <1>1, <1>2, <1>3, PTL DEF Spec

(***************************************************************************)
(* The list itself, whatever goes wrong: a marked entry is the first of    *)
(* the list at its place, because findLink marks the first entry it        *)
(* accepts and only what it does not find is appended.                     *)
(***************************************************************************)
\* The entries lead to one place now and ask for the same there.
SameNow(t, a, b) ==
  /\ a.iface = b.iface /\ a.attrs = b.attrs /\ a.containerPid = b.containerPid
  /\ t \in NetTypes => Stat(a.path) = Stat(b.path)

FirstMarked ==
  ~dirty => \A i, j \in DOMAIN links : links[i].should /\ j < i => ~SameNow(cur.type, links[j], links[i])

\* The new list stems from the old one in its order, without further marks.
LEMMA FirstKept ==
  ASSUME FirstMarked, UNCHANGED nodeVars, cur' = cur, dirty' = dirty, NEW ord,
         \A j \in DOMAIN links' : /\ ord[j] \in DOMAIN links /\ Static(links'[j], links[ord[j]])
                                  /\ links'[j].should => links[ord[j]].should,
         \A i, j \in DOMAIN links' : j < i => ord[j] < ord[i]
  PROVE  FirstMarked'
<1>1. \A t, a, b : SameNow(t, a, b)' <=> SameNow(t, a, b)
  <2>1. \A p : Stat(p)' = Stat(p)
    BY NodeSame
  <2>2. QED
    BY <2>1 DEF SameNow
<1>2. SUFFICES ASSUME ~dirty, NEW i \in DOMAIN links', NEW j \in DOMAIN links', links'[i].should, j < i,
                      SameNow(cur.type, links'[j], links'[i])
               PROVE  FALSE
  BY <1>1 DEF FirstMarked
<1>3. ord[i] \in DOMAIN links /\ ord[j] \in DOMAIN links /\ ord[j] < ord[i] /\ links[ord[i]].should
  BY <1>2
<1>4. SameNow(cur.type, links[ord[j]], links[ord[i]])
  BY <1>2 DEF SameNow, Static
<1>5. QED
  BY <1>2, <1>3, <1>4 DEF FirstMarked

\* The first entry found is marked, or the link is appended because none is at
\* its place.
LEMMA FirstLookedUp ==
  ASSUME BaseInv, SettledInv, FirstMarked, UpdateEffect, NEW l \in expected, LookedUp(l)
  PROVE  FirstMarked'
<1>1. UNCHANGED nodeVars /\ cur' = cur /\ dirty' = dirty
  BY DEF UpdateEffect
<1>2. SUFFICES ASSUME ~dirty PROVE FirstMarked'
  BY <1>1 DEF FirstMarked
<1>3. \A x : GetNetNsId(cache, x) = Stat(x) /\ Stat(x)' = Stat(x)
  BY <1>1, <1>2, ReadAsItIs, NodeSame DEF SettledInv
<1>4. \A j \in DOMAIN links : j \in FoundFor(l) <=> SameNow(cur.type, links[j], l)
  BY <1>3 DEF FoundFor, Agree, SameNow
<1>5. IsList(links) /\ Len(links) \in Nat /\ DOMAIN links = 1..Len(links) /\ IsLink(l)
  BY ListFacts DEF BaseInv, EntriesOK, ExpectedOK, EntryOK
<1>6. \A i, j \in DOMAIN links : links[i].should /\ j < i => ~SameNow(cur.type, links[j], links[i])
  BY <1>2 DEF FirstMarked
<1>7. \A a, b : SameNow(cur.type, a, b)' <=> SameNow(cur.type, a, b)
  BY <1>1, <1>3 DEF SameNow
<1>8. CASE links' = links
  BY <1>1, <1>6, <1>7, <1>8 DEF FirstMarked
<1>9. CASE FoundFor(l) = {} /\ links' = Append(links, l)
  <2>1. /\ DOMAIN links' = 1..(Len(links) + 1) /\ links'[Len(links) + 1] = l
        /\ \A j \in DOMAIN links : links'[j] = links[j]
    BY <1>5, <1>9, AppendList
  <2>2. ASSUME NEW i \in DOMAIN links', NEW j \in DOMAIN links', links'[i].should, j < i
        PROVE  ~SameNow(cur.type, links'[j], links'[i])
    <3>1. j \in DOMAIN links /\ (i \in DOMAIN links \/ i = Len(links) + 1)
      BY <1>5, <2>1, <2>2
    <3>2. CASE i \in DOMAIN links
      BY <1>6, <2>1, <2>2, <3>1, <3>2
    <3>3. CASE i = Len(links) + 1
      BY <1>4, <1>9, <2>1, <3>1, <3>3
    <3>4. QED
      BY <3>1, <3>2, <3>3
  <2>3. QED
    BY <1>1, <1>7, <2>2 DEF FirstMarked
<1>10. CASE FoundFor(l) # {} /\ links' = AddExpected(l, FoundFor(l))
  <2> DEFINE first(j) == j \in FoundFor(l) /\ \A f \in FoundFor(l) : j <= f
  <2>1. PICK b \in [DOMAIN links -> BOOLEAN] :
          /\ Marks(links', links, b)
          /\ \A j \in DOMAIN links : b[j] <=> links[j].should \/ first(j)
    BY <1>5, <1>10, FoundMarked
  <2>2. DOMAIN links' = DOMAIN links /\ \A j \in DOMAIN links : Static(links'[j], links[j])
    BY <2>1 DEF Marks
  <2>3. \A j \in DOMAIN links : links'[j].should => links[j].should \/ first(j)
    BY <2>1, Zenon DEF Marks
  <2>4. ASSUME NEW i \in DOMAIN links, NEW j \in DOMAIN links, links'[i].should, j < i,
               SameNow(cur.type, links'[j], links'[i])
        PROVE  FALSE
    <3>1. SameNow(cur.type, links[j], links[i])
      BY <2>2, <2>4 DEF SameNow, Static
    <3>2. ~links[i].should
      BY <1>6, <2>4, <3>1
    <3>3. first(i)
      BY <2>3, <2>4, <3>2, Zenon
    <3>4. SameNow(cur.type, links[j], l)
      BY <1>4, <3>1, <3>3 DEF SameNow
    <3>5. i <= j
      BY <1>4, <3>3, <3>4
    <3>6. QED
      BY <1>5, <2>4, <3>5
  <2>5. QED
    BY <1>1, <1>7, <2>2, <2>4 DEF FirstMarked
<1>11. QED
  BY <1>8, <1>9, <1>10 DEF LookedUp, AddExpected

LEMMA FirstStep ==
  ASSUME BaseInv, SettledInv, FirstMarked, [Next]_vars
  PROVE  FirstMarked'
<1> DEFINE id == [j \in DOMAIN links |-> j]
<1>1. ASSUME UNCHANGED nodeVars, cur' = cur, dirty' = dirty, DOMAIN links' = DOMAIN links,
             \A j \in DOMAIN links : Static(links'[j], links[j]) /\ (links'[j].should => links[j].should)
      PROVE  FirstMarked'
  <2>1. \A j \in DOMAIN links' : /\ id[j] \in DOMAIN links /\ Static(links'[j], links[id[j]])
                                 /\ links'[j].should => links[id[j]].should
    BY <1>1
  <2>2. \A i, j \in DOMAIN links' : j < i => id[j] < id[i]
    BY <1>1
  <2> HIDE DEF id
  <2>3. QED
    BY <1>1, <2>1, <2>2, FirstKept
<1>2. ASSUME UNCHANGED <<nodeVars, cur, dirty, links>> PROVE FirstMarked'
  <2>1. \A x : Stat(x)' = Stat(x)
    BY <1>2, NodeSame
  <2>2. QED
    BY <1>2, <2>1 DEF FirstMarked, SameNow
<1>3. CASE ReconcileStart
  <2>1. DOMAIN links' = DOMAIN links /\ \A j \in DOMAIN links : ~links'[j].should
    BY <1>3, StartCleared
  <2>2. QED
    BY <2>1 DEF FirstMarked
<1>4. CASE updateLinks
  <2>1. UpdateEffect
    BY <1>4, UpdateLinksEffect
  <2>2. CASE Expanded
    BY <1>2, <2>1, <2>2 DEF UpdateEffect, Expanded
  <2>3. ASSUME NEW l \in expected, LookedUp(l) PROVE FirstMarked'
    BY <2>1, <2>3, FirstLookedUp
  <2>4. QED
    BY <2>1, <2>2, <2>3 DEF UpdateEffect
<1>5. CASE updateLinksFails \/ updateLinksDone
  BY <1>2, <1>5 DEF updateLinksFails, updateLinksDone
<1>6. CASE reconcileBpfLink
  <2>1. PICK m : LinkEffect(m)
    BY <1>6, LinkStepEffect
  <2>2. /\ pos \in DOMAIN links /\ links' = [links EXCEPT ![pos] = m] /\ Static(m, links[pos])
        /\ UNCHANGED nodeVars /\ cur' = cur /\ dirty' = dirty
    BY <2>1 DEF LinkEffect, LinkVisited
  <2>3. m.should <=> links[pos].should
    BY <2>1, Zenon DEF LinkEffect
  <2>4. DOMAIN links' = DOMAIN links /\ \A j \in DOMAIN links : links'[j] = IF j = pos THEN m ELSE links[j]
    BY <2>2
  <2>5. ASSUME NEW j \in DOMAIN links
        PROVE  Static(links'[j], links[j]) /\ (links'[j].should => links[j].should)
    <3>1. CASE j = pos
      BY <2>2, <2>3, <2>4, <3>1
    <3>2. CASE j # pos
      BY <2>4, <3>2 DEF Static
    <3>3. QED
      BY <3>1, <3>2
  <2>6. QED
    BY <1>1, <2>2, <2>4, <2>5
<1>7. CASE processLinks
  <2> DEFINE kept == {j \in DOMAIN links : ~Unused(links[j])}
  <2>1. /\ links' = Keep(links, kept) /\ UNCHANGED nodeVars /\ cur' = cur /\ dirty' = dirty
    BY <1>7, ProcessLinksEffect DEF ProcessEffect, removeLinks
  <2>2. IsList(links) /\ Len(links) \in Nat /\ DOMAIN links = 1..Len(links)
    BY ListFacts DEF BaseInv, EntriesOK
  <2>3. kept \in SUBSET (1..Len(links))
    BY <2>2
  <2> HIDE DEF kept
  <2>4. PICK ord : Reorders(ord, Keep(links, kept), links, kept)
    BY <2>2, <2>3, KeepIsReordering
  <2>5. /\ \A j \in DOMAIN links' : ord[j] \in DOMAIN links /\ links'[j] = links[ord[j]]
        /\ \A i, j \in DOMAIN links' : j < i => ord[j] < ord[i]
    BY <2>1, <2>2, <2>3, <2>4 DEF Reorders
  <2>6. \A j \in DOMAIN links' : /\ ord[j] \in DOMAIN links /\ Static(links'[j], links[ord[j]])
                                 /\ links'[j].should => links[ord[j]].should
    BY <2>5 DEF Static
  <2>7. QED
    BY <2>1, <2>5, <2>6, FirstKept
<1>8. CASE OtherController
  <2>1. OtherEffect
    BY <1>8, OtherControllerEffect DEF BaseInv
  <2>2. QED
    BY <1>2, <2>1 DEF OtherEffect
<1>9. CASE Node \/ \E s \in StoredSpecs : EditLinks(s)
  BY <1>9, OthersLeaveAgent DEF FirstMarked
<1>10. CASE UNCHANGED vars
  BY <1>2, <1>10 DEF vars, agentVars
<1>11. QED
  BY <1>3, <1>4, <1>5, <1>6, <1>7, <1>8, <1>9, <1>10 DEF Next, Reconcile

LEMMA FirstMarkedGives ==
  ASSUME DistinctProceedOn, OnceIInv, SettledInv, OnlyWanted, FirstMarked
  PROVE  RecordedIsWanted
<1>1. SUFFICES ASSUME Settled
               PROVE  /\ \A j \in DOMAIN links : HasLink(links[j]) /\ attached[links[j].id] \in Wanted(spec)
                      /\ \A i, j \in DOMAIN links : attached[links[i].id] = attached[links[j].id] => i = j
  BY DEF RecordedIsWanted
<1>2. PICK tgt \in [Nat -> Nets] : OnceInv(tgt)
  BY DEF OnceIInv
<1>3. BaseInv /\ RecordInv /\ cur = spec
  BY <1>1 DEF OnceIInv, SettledInv, FreshOK, Settled
<1>4. \A j \in DOMAIN links : /\ links[j].should /\ Reached(cur.type, links[j]) /\ HasLink(links[j])
                              /\ attached[links[j].id] = PointNow(cur, links[j])
  BY <1>1, <1>2, <1>3, SettledEntry DEF HasLink
<1>5. \A j \in DOMAIN links : Asks(links[j])
  BY <1>1, <1>4 DEF OnlyWanted, Settled
<1>6. ASSUME NEW i \in DOMAIN links, NEW j \in DOMAIN links, j < i,
             attached[links[i].id] = attached[links[j].id]
      PROVE  FALSE
  <2>1. PointNow(cur, links[i]) = PointNow(cur, links[j])
    BY <1>4, <1>6
  <2>2. /\ PlaceNow(cur.type, links[i]) = PlaceNow(cur.type, links[j])
        /\ Does(spec, links[i]) = Does(spec, links[j])
    BY <1>3, <2>1 DEF PointNow
  <2>3. \A h \in DOMAIN links : AtOf(tgt, spec.type, links[h]) = PlaceNow(spec.type, links[h])
    <3>1. ASSUME NEW h \in DOMAIN links, spec.type \in NetTypes
          PROVE  Stat(links[h].path) = Target(tgt, links[h].path)
      <4>1. NodeOK /\ Tells(tgt) /\ ProperPath(nextPid, links[h].path)
        BY <1>2, <1>3 DEF BaseInv, EntriesOK, EntryOK, OnceInv
      <4>2. Stat(links[h].path) # None
        BY <1>3, <1>4, <3>1 DEF Reached, Readable
      <4>3. QED
        BY <4>1, <4>2, StatIsTarget
    <3>2. QED
      BY <3>1 DEF AtOf, PlaceNow
  <2>4. AtOf(tgt, spec.type, links[i]) = AtOf(tgt, spec.type, links[j])
    BY <1>3, <2>2, <2>3
  <2>5. Same(tgt, spec.type, links[j], links[i])
    BY <1>3, <2>2, <2>4, SamePoint
  <2>6. SameNow(cur.type, links[j], links[i])
    BY <1>3, <2>2, <2>5 DEF Same, SameNow, PlaceNow
  <2>7. QED
    BY <1>1, <1>4, <1>6, <2>6 DEF FirstMarked, Settled
<1>7. \A j \in DOMAIN links : j \in Int
  <2>1. DOMAIN links = 1..Len(links)
    BY <1>3, ListFacts DEF RecordInv
  <2>2. QED
    BY <2>1
<1>8. \A i, j \in DOMAIN links : attached[links[i].id] = attached[links[j].id] => i = j
  BY <1>6, <1>7
<1>9. QED
  BY <1>3, <1>4, <1>5, <1>8 DEF Asks

(***************************************************************************)
(* Once a reconcile saw the node as it is and succeeded, every entry of    *)
(* the program's list is a link that bpfman has, where the selectors ask   *)
(* for one, and no two entries are at one place: whatever Gets failed,     *)
(* replies were lost and caches were reset by the other controller, now or *)
(* earlier.                                                                *)
(***************************************************************************)
THEOREM RecordedWhereAsked ==
  ASSUME NamesTellNamespaces, MeantInterfaces, NoUnSpec, DistinctProceedOn
  PROVE  Spec => []RecordedIsWanted
<1> DEFINE Inv == OnceIInv /\ TypeInv /\ SettledInv /\ OnlyWanted /\ FirstMarked
<1>1. Init => Inv
  <2>1. ASSUME Init PROVE FirstMarked
    BY <2>1 DEF Init, FirstMarked
  <2>2. QED
    BY <2>1, StartRecords, BaseStart, OnceStart, StartTypes, StartSettled DEF OnceIInv
<1>2. Inv /\ [Next]_vars => Inv'
  <2>1. SUFFICES ASSUME OnceIInv, TypeInv, SettledInv, OnlyWanted, FirstMarked, [Next]_vars
                 PROVE  OnceIInv' /\ TypeInv' /\ SettledInv' /\ OnlyWanted' /\ FirstMarked'
    OBVIOUS
  <2>2. BaseInv /\ RecordInv /\ NodeTypes
    BY <2>1 DEF OnceIInv, TypeInv
  <2>3. QED
    BY <2>1, <2>2, StepOnce, TypeStep, StepSettled, FirstStep
<1>3. Inv => RecordedIsWanted
  BY FirstMarkedGives
<1>4. QED
  BY <1>1, <1>2, <1>3, PTL DEF Spec

(***************************************************************************)
(* What failures may lose.  An entry that removeLinks is about to drop     *)
(* does not count; then every step loses one link at most, and none unless *)
(* something fails in it.                                                  *)
(***************************************************************************)
\* The ids in the list that the end of the running reconcile will keep.
KeptIds == {links[j].id : j \in {h \in DOMAIN links : ~(pc = "process" /\ h < pos /\ Unused(links[h]))}}

Lost == DOMAIN attached \ KeptIds

LostInv == IsFiniteSet(Lost) /\ Cardinality(Lost) <= faults.count

LEMMA NothingLost ==
  ASSUME LostInv, faults.count \in Nat, FaultStep, Lost' \subseteq Lost
  PROVE  LostInv'
<1>1. IsFiniteSet(Lost) /\ Cardinality(Lost) \in Nat /\ Cardinality(Lost) <= faults.count
  BY FS_CardinalityType DEF LostInv
<1>2. IsFiniteSet(Lost') /\ Cardinality(Lost') \in Nat /\ Cardinality(Lost') <= Cardinality(Lost)
  BY <1>1, FS_Subset, FS_CardinalityType
<1>3. faults'.count \in {faults.count, faults.count + 1}
  BY DEF FaultStep
<1>4. QED
  BY <1>1, <1>2, <1>3 DEF LostInv

LEMMA OneLost ==
  ASSUME LostInv, faults.count \in Nat, faults'.count = faults.count + 1, NEW x, Lost' \subseteq Lost \cup {x}
  PROVE  LostInv'
<1>1. IsFiniteSet(Lost) /\ Cardinality(Lost) \in Nat /\ Cardinality(Lost) <= faults.count
  BY FS_CardinalityType DEF LostInv
<1>2. /\ IsFiniteSet(Lost \cup {x})
      /\ Cardinality(Lost \cup {x}) \in {Cardinality(Lost), Cardinality(Lost) + 1}
  <2>1. CASE x \in Lost
    <3>1. Lost \cup {x} = Lost
      BY <2>1
    <3>2. QED
      BY <1>1, <3>1
  <2>2. CASE x \notin Lost
    BY <1>1, <2>2, FS_AddElement
  <2>3. QED
    BY <2>1, <2>2
<1>3. IsFiniteSet(Lost') /\ Cardinality(Lost') \in Nat /\ Cardinality(Lost') <= Cardinality(Lost \cup {x})
  BY <1>2, FS_Subset, FS_CardinalityType
<1>4. QED
  BY <1>1, <1>2, <1>3 DEF LostInv

\* reconcileBpfLink loses the link of the current entry when the Get fails, and
\* the new one when its reply is lost.
LEMMA VisitLoses ==
  ASSUME BaseInv, RecordInv, LostInv, faults.count \in Nat, NEW m, LinkEffect(m)
  PROVE  LostInv'
<1> DEFINE l == links[pos]
           Kept(j) == ~(pc = "process" /\ j < pos /\ Unused(links[j]))
<1>1. /\ pc = "process" /\ pc' = pc /\ pos \in DOMAIN links /\ links' = [links EXCEPT ![pos] = m]
           /\ pos' = pos + 1
      /\ FaultStep
  BY DEF LinkEffect, LinkVisited, AtLink
<1>2. DOMAIN links' = DOMAIN links /\ \A j \in DOMAIN links : links'[j] = IF j = pos THEN m ELSE links[j]
  BY <1>1
<1>3. \A j \in DOMAIN links : j \in Int
  <2>1. DOMAIN links = 1..Len(links)
    BY ListFacts DEF RecordInv
  <2>2. QED
    BY <2>1
<1>4. Kept(pos)
  BY <1>1, <1>3
<1>5. \A x : x \in KeptIds <=> \E j \in DOMAIN links : Kept(j) /\ links[j].id = x
  BY DEF KeptIds
<1>6. \A j \in DOMAIN links : j # pos /\ Kept(j) => links[j].id \in KeptIds'
  <2>1. SUFFICES ASSUME NEW j \in DOMAIN links, j # pos, Kept(j) PROVE links[j].id \in KeptIds'
    OBVIOUS
  <2>2. ~(pc' = "process" /\ j < pos' /\ Unused(links'[j]))
    BY <1>1, <1>2, <1>3, <2>1
  <2>3. Unused(links[j])' <=> Unused(links'[j])
    BY DEF Unused
  <2>4. links'[j] = links[j] /\ j \in DOMAIN links'
    BY <1>2, <2>1
  <2>5. QED
    BY <2>2, <2>4 DEF KeptIds, Unused
<1>7. ~Unused(m) => m.id \in KeptIds'
  BY <1>1, <1>2 DEF KeptIds, Unused
<1> HIDE DEF l, Kept
<1>8. l.id = links[pos].id
  BY DEF l
<1>9. DOMAIN attached' \subseteq DOMAIN attached => Lost' \subseteq Lost \cup {l.id}
  BY <1>5, <1>6, <1>8 DEF Lost
<1>10. ASSUME Lost' \subseteq Lost PROVE LostInv'
  BY <1>1, <1>10, NothingLost
<1>11. ASSUME Broken, NEW x, Lost' \subseteq Lost \cup {x} PROVE LostInv'
  BY <1>11, OneLost DEF Broken
<1>12. CASE /\ m.id = l.id /\ attached' = attached
            /\ HasLink(l) /\ ~l.should => m.status = "DetachError" \/ Broken
  <2>1. CASE Broken
    BY <1>9, <1>11, <1>12, <2>1
  <2>2. CASE ~HasLink(l)
    <3>1. Lost' \subseteq Lost
      BY <1>9, <1>12, <2>2 DEF Lost, HasLink
    <3>2. QED
      BY <1>10, <3>1
  <2>3. CASE HasLink(l) /\ ~Broken
    <3>1. m.should <=> l.should
      BY Zenon DEF LinkEffect, l
    <3>2. ~Unused(m)
      BY <1>12, <2>3, <3>1 DEF Unused
    <3>3. Lost' \subseteq Lost
      BY <1>7, <1>9, <1>12, <3>2 DEF Lost
    <3>4. QED
      BY <1>10, <3>3
  <2>4. QED
    BY <2>1, <2>2, <2>3
<1>13. CASE (HasLink(l) => Broken) /\ FreshId(m.id) /\ m.status = "Attached" /\ OneMore(m.id)
  <2>1. DOMAIN attached' = DOMAIN attached \cup {m.id} /\ ~Unused(m)
    BY <1>13 DEF OneMore, Unused
  <2>2. Lost' \subseteq Lost \cup {l.id}
    BY <1>5, <1>6, <1>7, <1>8, <2>1 DEF Lost
  <2>3. CASE HasLink(l)
    BY <1>11, <1>13, <2>2, <2>3
  <2>4. CASE ~HasLink(l)
    <3>1. l.id \notin Lost'
      <4>1. l.id # m.id
        BY <1>1, <1>8, <1>13 DEF FreshId
      <4>2. QED
        BY <2>1, <2>4, <4>1 DEF Lost, HasLink
    <3>2. QED
      BY <1>10, <2>2, <3>1
  <2>5. QED
    BY <2>3, <2>4
<1>14. CASE OneLess(l.id)
  <2>1. DOMAIN attached' = DOMAIN attached \ {l.id}
    BY <1>14 DEF OneLess
  <2>2. Lost' \subseteq Lost
    BY <1>9, <2>1 DEF Lost
  <2>3. QED
    BY <1>10, <2>2
<1>15. CASE Broken /\ m.id = l.id /\ m.status = "AttachError" /\ \E id : FreshId(id) /\ OneMore(id)
  <2>1. PICK id : FreshId(id) /\ OneMore(id)
    BY <1>15
  <2>2. DOMAIN attached' = DOMAIN attached \cup {id} /\ ~Unused(m)
    BY <1>15, <2>1 DEF OneMore, Unused
  <2>3. Lost' \subseteq Lost \cup {id}
    BY <1>5, <1>6, <1>7, <1>8, <1>15, <2>2 DEF Lost
  <2>4. QED
    BY <1>11, <1>15, <2>3
<1>16. QED
  BY <1>12, <1>13, <1>14, <1>15 DEF LinkEffect, l

\* removeLinks drops the entries that do not count any more, and no others.
LEMMA ProcessLoses ==
  ASSUME BaseInv, LostInv, faults.count \in Nat, FaultStep, ProcessEffect
  PROVE  LostInv'
<1>1. /\ IsList(links) /\ Len(links) \in Nat /\ DOMAIN links = 1..Len(links) /\ pos > Len(links)
      /\ pos \in Nat /\ pc = "process" /\ pc' = "idle" /\ links' = removeLinks(links)
      /\ attached' = attached
  BY ListFacts DEF BaseInv, EntriesOK, ProcessEffect
<1>2. \A i \in DOMAIN links : ~Unused(links[i]) => \E j \in DOMAIN links' : links'[j] = links[i]
  BY <1>1, RemovedKeeps
<1>3. \A j \in DOMAIN links : j < pos
  BY <1>1
<1>4. KeptIds \subseteq KeptIds'
  BY <1>1, <1>2, <1>3 DEF KeptIds
<1>5. Lost' \subseteq Lost
  BY <1>1, <1>4 DEF Lost
<1>6. QED
  BY <1>1, <1>5, NothingLost

LEMMA LookUpKeepsIds ==
  ASSUME BaseInv, NEW l \in expected, LookedUp(l)
  PROVE  \A j \in DOMAIN links : j \in DOMAIN links' /\ links'[j].id = links[j].id
<1>1. IsList(links) /\ IsLink(l)
  BY DEF BaseInv, EntriesOK, ExpectedOK, EntryOK
<1>2. CASE links' = links
  BY <1>2
<1>3. CASE links' = Append(links, l)
  <2>1. DOMAIN links' = 1..(Len(links) + 1) /\ \A j \in DOMAIN links : links'[j] = links[j]
    BY <1>1, <1>3, AppendList
  <2>2. Len(links) \in Nat /\ DOMAIN links = 1..Len(links)
    BY <1>1, ListFacts
  <2>3. DOMAIN links \subseteq DOMAIN links'
    BY <2>1, <2>2
  <2>4. QED
    BY <2>1, <2>3
<1>4. CASE links' = AddExpected(l, FoundFor(l)) /\ FoundFor(l) # {}
  <2>1. PICK b \in [DOMAIN links -> BOOLEAN] : Marks(links', links, b)
    BY <1>1, <1>4, FoundMarked
  <2>2. QED
    BY <2>1 DEF Marks
<1>5. QED
  BY <1>2, <1>3, <1>4 DEF LookedUp, AddExpected

LEMMA LosesStep ==
  ASSUME BaseInv, RecordInv, FlagsOK, LostInv, [Next]_vars
  PROVE  LostInv'
<1>1. faults.count \in Nat /\ FaultStep
  BY BpfLinksAssumption, FaultsGrow DEF FlagsOK, FaultsOK
<1>2. ASSUME attached' = attached, pc # "process",
             pc' = "process" => pos' = 1,
             \A j \in DOMAIN links : j \in DOMAIN links' /\ links'[j].id = links[j].id
      PROVE  LostInv'
  <2>1. \A j \in DOMAIN links : ~(j < 1)
    <3>1. Len(links) \in Nat /\ DOMAIN links = 1..Len(links)
      BY ListFacts DEF RecordInv
    <3>2. QED
      BY <3>1
  <2>2. KeptIds \subseteq KeptIds'
    BY <1>2, <2>1 DEF KeptIds
  <2>3. Lost' \subseteq Lost
    BY <1>2, <2>2 DEF Lost
  <2>4. QED
    BY <1>1, <1>2, <2>3, NothingLost
<1>3. CASE ReconcileStart
  <2>1. attached' = attached /\ pc = "idle" /\ pc' = "update"
    BY <1>3 DEF ReconcileStart
  <2>2. \A j \in DOMAIN links : j \in DOMAIN links' /\ links'[j].id = links[j].id
    BY <1>3, StartCleared
  <2>3. QED
    BY <1>2, <2>1, <2>2
<1>4. CASE updateLinks
  <2>1. UpdateEffect
    BY <1>4, UpdateLinksEffect
  <2>2. attached' = attached /\ pc = "update" /\ pc' = "update"
    BY <2>1 DEF UpdateEffect
  <2>3. \A j \in DOMAIN links : j \in DOMAIN links' /\ links'[j].id = links[j].id
    <3>1. CASE Expanded
      BY <3>1 DEF Expanded
    <3>2. ASSUME NEW l \in expected, LookedUp(l)
          PROVE  \A j \in DOMAIN links : j \in DOMAIN links' /\ links'[j].id = links[j].id
      BY <3>2, LookUpKeepsIds
    <3>3. QED
      BY <2>1, <3>1, <3>2 DEF UpdateEffect
  <2>4. QED
    BY <1>2, <2>2, <2>3
<1>5. CASE updateLinksFails \/ updateLinksDone
  <2>1. /\ attached' = attached /\ links' = links /\ pc = "update" /\ pos' = 1
    BY <1>5 DEF updateLinksFails, updateLinksDone
  <2>2. QED
    BY <1>2, <2>1
<1>6. CASE reconcileBpfLink
  BY <1>1, <1>6, LinkStepEffect, VisitLoses
<1>7. CASE processLinks
  BY <1>1, <1>7, ProcessLinksEffect, ProcessLoses
<1>8. CASE OtherController
  <2>1. OtherEffect
    BY <1>8, OtherControllerEffect DEF BaseInv
  <2>2. attached' = attached /\ links' = links /\ pc = "update" /\ pc' = pc
    BY <2>1 DEF OtherEffect
  <2>3. QED
    BY <1>2, <2>2
<1>9. ASSUME UNCHANGED <<links, pc, pos, attached>> PROVE LostInv'
  <2>1. Lost' = Lost
    BY <1>9 DEF Lost, KeptIds
  <2>2. QED
    BY <1>1, <2>1, NothingLost
<1>10. CASE Node \/ \E s \in StoredSpecs : EditLinks(s)
  BY <1>9, <1>10, OthersLeaveAgent DEF agentVars
<1>11. CASE UNCHANGED vars
  BY <1>9, <1>11 DEF vars, agentVars
<1>12. QED
  BY <1>3, <1>4, <1>5, <1>6, <1>7, <1>8, <1>10, <1>11 DEF Next, Reconcile

(***************************************************************************)
(* At every step the links of bpfman that the list does not know are no    *)
(* more than the failures so far: a failed Get or a lost reply loses one   *)
(* link, at once or when removeLinks drops its entry, and later reconciles *)
(* do no further damage, whatever the node, the user and the other         *)
(* controller do.                                                          *)
(***************************************************************************)
THEOREM FailuresLoseOneLinkEach == Spec => []LostByFailure
<1> DEFINE Inv == BaseInv /\ RecordInv /\ TypeInv /\ LostInv
<1>1. Init => Inv
  <2>1. ASSUME Init PROVE LostInv
    <3>1. Lost = {} /\ faults.count = 0
      BY <2>1 DEF Init, Lost
    <3>2. QED
      BY <3>1, FS_EmptySet DEF LostInv
  <2>2. QED
    BY <2>1, StartRecords, BaseStart, StartTypes
<1>2. Inv /\ [Next]_vars => Inv'
  <2>1. SUFFICES ASSUME BaseInv, RecordInv, TypeInv, LostInv, [Next]_vars
                 PROVE  BaseInv' /\ RecordInv' /\ TypeInv' /\ LostInv'
    OBVIOUS
  <2>2. FlagsOK
    BY <2>1 DEF TypeInv
  <2>3. QED
    BY <2>1, <2>2, BaseStep, StepRecords, TypeStep, LosesStep
<1>3. Inv => LostByFailure
  <2>1. SUFFICES ASSUME BaseInv, TypeInv, LostInv PROVE Cardinality(Unrecorded) <= faults.count
    BY DEF LostByFailure
  <2>2. IsFiniteSet(Lost) /\ Cardinality(Lost) \in Nat /\ Cardinality(Lost) <= faults.count
        /\ faults.count \in Nat
    BY <2>1, FS_CardinalityType, BpfLinksAssumption DEF LostInv, TypeInv, FlagsOK, FaultsOK
  <2>3. Unrecorded \subseteq Lost
    BY DEF Unrecorded, Lost, KeptIds
  <2>4. Cardinality(Unrecorded) \in Nat /\ Cardinality(Unrecorded) <= Cardinality(Lost)
    BY <2>2, <2>3, FS_Subset, FS_CardinalityType
  <2>5. QED
    BY <2>2, <2>4
<1>4. QED
  BY <1>1, <1>2, <1>3, PTL DEF Spec
=============================================================================
