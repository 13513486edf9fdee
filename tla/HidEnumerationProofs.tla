------------------------ MODULE HidEnumerationProofs ------------------------
(***************************************************************************)
(* For every bus, any number of places, changes and wallets, and each      *)
(* backend: the list of records that hid_enumerate links by hand is sound, *)
(* whoever owns it frees all of it, it is complete unless the bus changed  *)
(* meanwhile, and hid_open opens a device of the id it was asked for       *)
(* unless the bus changed under it.  For a process with one wallet: no     *)
(* handle outlives hidapi's global state.                                  *)
(***************************************************************************)
EXTENDS HidEnumeration, FunctionTheorems, FiniteSetTheorems, SequenceTheorems, TLAPS

-----------------------------------------------------------------------------
(***************************************************************************)
(* The inductive invariants                                                *)
(***************************************************************************)
\* The list, as the loop that appends to it and takes off again needs it:
\* what is allocated can be reached from root, and leads to nothing else.
Linked(l) ==
    /\ l.root \in l.live \cup {0} /\ l.cur \in l.live \cup {0} /\ l.prev \in Nat
    /\ l.root = 0 <=> l.cur = 0
    /\ l.root = 0 => l.live = {}
    /\ l.cur # 0 => l.next[l.cur] = 0
    /\ \A k \in l.live : l.next[k] \in l.live \cup {0}
    /\ \A S \in SUBSET DOMAIN l.next : (Closed(l, S) /\ l.root \in S) => l.live \subseteq S

Paths == {Path(place, device) : place \in Places, device \in Devices} \cup {NoPath}

ListType(l) ==
    /\ l \in [recs : Seq([path : Paths, id : Ids]),
              next : [1 .. Len(l.recs) -> 0 .. Len(l.recs)],
              live : SUBSET Nat, root : Nat, cur : Nat, prev : Nat]
    /\ l.prev <= Len(l.recs)

\* Between two calls there is no list.
ListInv ==
    /\ ListType(list)
    /\ pc # "idle" => list.live \subseteq 1 .. Len(list.recs) /\ Linked(list)
    /\ pc = "idle" => list = NoList

\* A device that was seen at a place is there still if the bus has not changed.
Seen(place, device) ==
    /\ place \in Places /\ device \in Devices
    /\ ~disturbed => bus[place] = device

\* A record has the path of a device that was seen, and its id.
Recorded(rec) ==
    \E place \in Places, device \in Devices :
        /\ Seen(place, device)
        /\ rec.path = Path(place, device) \/ (backend = "mac" /\ rec.path = NoPath)
        /\ rec.id = device.id \/ disturbed

SeenInv ==
    /\ scan \in Seq(Places \X Devices) /\ left \in Seq(Places \X Devices)
    /\ \A k \in 1 .. Len(left) : Seen(left[k][1], left[k][2])
    /\ \A r \in 1 .. Len(list.recs) : Recorded(list.recs[r])

\* hid_open looks for one product id.
AskInv == op = "open" => want \in Ids

\* libusb gives no address to two devices at a time.
ApartInv ==
    backend = "libusb" =>
        \A p, q \in Places :
            (bus[p] # Empty /\ bus[q] # Empty /\ bus[p].address = bus[q].address) => p = q

EnumerationInv == TypeOK /\ AskInv /\ ListInv /\ SeenInv /\ ApartInv /\ OpensAsked

\* With one wallet: a handle of libusb was opened in the global state there is.
ContextInv ==
    \A w \in Wallets :
        (backend = "libusb" /\ handle[w] # NoHandle) =>
            handle[w].context = context /\ context # 0

\* The list leads forward in memory, as records are appended only.
Forward(l) == \A k \in 1 .. Len(l.recs) : l.next[k] = 0 \/ l.next[k] > k

\* The records of the first n devices listed: no other device has one, but on
\* libusb the next may have, those that hid_enumerate promises have one, and
\* they lie in the order of the list.
Wanted(entry) == Match(want, entry[2].id) /\ entry[2].make = "whole"

OfAsked(l) == \A r \in l.live : Match(want, l.recs[r].id)

Visited(k, n) == k <= n \/ (k = n + 1 /\ backend = "libusb")

OfVisited(l, s, n) ==
    \A r \in l.live :
        \/ backend = "mac" /\ l.recs[r].path = NoPath
        \/ \E k \in 1 .. Len(s) : Visited(k, n) /\ l.recs[r] = Record(s[k])

AllWanted(l, s, n) ==
    \A k \in 1 .. n : Wanted(s[k]) => \E r \in l.live : l.recs[r] = Record(s[k])

InOrder(l, s) ==
    \A q, r \in l.live, j, k \in 1 .. Len(s) :
        (q < r /\ l.recs[q].path = Record(s[j]).path /\ l.recs[r].path = Record(s[k]).path)
            => j < k \/ (j = k /\ backend = "libusb")

Filled(l, s, n) == OfAsked(l) /\ OfVisited(l, s, n) /\ AllWanted(l, s, n) /\ InOrder(l, s)

\* No two devices listed have one path, and as long as the bus stays the records
\* are those of the devices visited.
Apart(s) == \A j, k \in 1 .. Len(s) : Record(s[j]).path = Record(s[k]).path => j = k

CompleteInv ==
    /\ Apart(scan)
    /\ Forward(list)
    /\ pc = "listed" => left = <<>>
    /\ (pc \in {"scan", "listed"} /\ ~disturbed /\ (backend = "windows" => DriverFound)) =>
           Filled(list, scan, Len(scan) - Len(left))

-----------------------------------------------------------------------------
(***************************************************************************)
(* The list of records                                                     *)
(***************************************************************************)
\* The empty list is sound.
LEMMA NoListLinked == ListType(NoList) /\ Linked(NoList)
BY DEF ListType, Linked, NoList, Closed

\* A record linked behind cur_dev can be reached, and all before it still can.
LEMMA AppendedLinked ==
    ASSUME NEW l, ListType(l), l.live \subseteq 1 .. Len(l.recs), Linked(l),
           NEW rec \in [path : Paths, id : Ids]
    PROVE  /\ ListType(Appended(l, rec)) /\ Linked(Appended(l, rec))
           /\ Appended(l, rec).live \subseteq 1 .. Len(Appended(l, rec).recs)
           /\ Appended(l, rec).recs = Append(l.recs, rec)
<1> DEFINE r == Len(l.recs) + 1
           m == Appended(l, rec)
<1>1. /\ Len(l.recs) \in Nat /\ r \in Nat \ {0} /\ r \notin l.live
      /\ l.next \in [1 .. Len(l.recs) -> 0 .. Len(l.recs)]
      /\ l.cur \in 0 .. Len(l.recs) /\ l.recs \in Seq([path : Paths, id : Ids])
  BY DEF ListType, Linked
<1>2. /\ m.recs = Append(l.recs, rec) /\ m.live = l.live \cup {r} /\ m.cur = r
      /\ m.root = IF l.cur = 0 THEN r ELSE l.root
      /\ m.prev = IF backend = "linux" THEN l.cur ELSE 0
      /\ m.next = [k \in 1 .. r |-> IF k = l.cur THEN r ELSE IF k = r THEN 0 ELSE l.next[k]]
  BY Zenon DEF Appended
<1>3. m = [recs |-> m.recs, next |-> m.next, live |-> m.live, root |-> m.root,
           cur |-> m.cur, prev |-> m.prev]
  BY DEF Appended
<1>4. /\ m.recs \in Seq([path : Paths, id : Ids]) /\ Len(m.recs) = r
  BY <1>1, <1>2
<1> HIDE DEF m
<1>5. m.next \in [1 .. r -> 0 .. r]
  BY <1>1, <1>2
<1>6. m.live \subseteq 1 .. r /\ m.root \in 1 .. r /\ m.prev \in 0 .. r
  BY <1>1, <1>2 DEF Linked
<1>7. ListType(m)
  <2>1. m.live \in SUBSET Nat /\ m.root \in Nat /\ m.cur \in Nat /\ m.prev \in Nat
    BY <1>1, <1>2, <1>6
  <2> QED
    BY <1>1, <1>3, <1>4, <1>5, <1>6, <2>1 DEF ListType
<1>8. ASSUME NEW S \in SUBSET DOMAIN m.next, Closed(m, S), m.root \in S
      PROVE  m.live \subseteq S
  <2>1. S \subseteq 1 .. r
    BY <1>5
  <2>2. CASE l.cur = 0
    BY <1>2, <1>8, <2>2 DEF Linked
  <2>3. CASE l.cur # 0
    <3> DEFINE T == S \ {r}
    <3>1. T \in SUBSET DOMAIN l.next /\ l.root \in T
      BY <1>1, <1>2, <1>8, <2>1, <2>3 DEF Linked
    <3>2. ASSUME NEW k \in T PROVE l.next[k] = 0 \/ l.next[k] \in T
      <4>1. k \in 1 .. Len(l.recs) /\ k # r /\ k \in S
        BY <1>1, <3>1
      <4>2. CASE k = l.cur
        BY <2>3, <4>2 DEF Linked
      <4>3. CASE k # l.cur
        <5>1. m.next[k] = l.next[k] /\ l.next[k] \in 0 .. Len(l.recs)
          BY <1>1, <1>2, <4>1, <4>3
        <5> QED
          BY <1>1, <1>8, <4>1, <5>1 DEF Closed
      <4> QED
        BY <4>2, <4>3
    <3>3. l.live \subseteq T
      BY <3>1, <3>2, Zenon DEF Linked, Closed
    <3>4. l.cur \in T
      BY <2>3, <3>3 DEF Linked
    <3>5. m.next[l.cur] = r
      BY <1>1, <1>2, <2>3, <3>4
    <3>6. r \in S
      BY <1>1, <1>8, <3>4, <3>5 DEF Closed
    <3> QED
      BY <1>2, <3>3, <3>6
  <2> QED
    BY <2>2, <2>3
<1>9. ASSUME NEW k \in m.live PROVE m.next[k] \in m.live \cup {0}
  BY <1>1, <1>2, <1>6 DEF Linked
<1>10. \A S \in SUBSET DOMAIN m.next : (Closed(m, S) /\ m.root \in S) => m.live \subseteq S
  BY <1>8
<1>11. /\ m.root \in m.live \cup {0} /\ m.cur \in m.live /\ m.prev \in Nat
       /\ m.root # 0 /\ m.cur # 0 /\ m.next[m.cur] = 0
  BY <1>1, <1>2, <1>6 DEF Linked
<1>12. Linked(m)
  BY <1>9, <1>10, <1>11, Zenon DEF Linked
<1> QED
  BY <1>2, <1>4, <1>6, <1>7, <1>12 DEF m

\* On linux, the record appended last is taken off again, and the list is as
\* it was before, but for the place in memory.
LEMMA DroppedLinked ==
    ASSUME NEW l, ListType(l), l.live \subseteq 1 .. Len(l.recs), Linked(l),
           NEW rec \in [path : Paths, id : Ids], backend = "linux"
    PROVE  LET d == Dropped(Appended(l, rec))
           IN  /\ ListType(d) /\ Linked(d) /\ d.live \subseteq 1 .. Len(d.recs)
               /\ d.recs = Append(l.recs, rec)
<1> DEFINE r == Len(l.recs) + 1
           m == Appended(l, rec)
           d == Dropped(m)
<1>1. /\ Len(l.recs) \in Nat /\ r \in Nat \ {0} /\ r \notin l.live
      /\ l.next \in [1 .. Len(l.recs) -> 0 .. Len(l.recs)]
      /\ l.cur \in 0 .. Len(l.recs) /\ l.root \in 0 .. Len(l.recs)
  BY DEF ListType, Linked
<1>2. /\ m.recs = Append(l.recs, rec) /\ m.live = l.live \cup {r} /\ m.cur = r
      /\ m.root = IF l.cur = 0 THEN r ELSE l.root
      /\ m.prev = l.cur
      /\ m.next = [k \in 1 .. r |-> IF k = l.cur THEN r ELSE IF k = r THEN 0 ELSE l.next[k]]
  BY DEF Appended
<1>3. ListType(m) /\ m.live \subseteq 1 .. Len(m.recs)
  BY AppendedLinked, Zenon
<1>3a. l.recs \in Seq([path : Paths, id : Ids])
  BY DEF ListType
<1>3b. Len(m.recs) = r
  BY <1>1, <1>2, <1>3a
<1> HIDE DEF m
<1>3c. /\ DOMAIN m = {"recs", "next", "live", "root", "cur", "prev"}
       /\ m = [f \in {"recs", "next", "live", "root", "cur", "prev"} |-> m[f]]
  BY <1>3 DEF ListType
<1>4. /\ d.recs = m.recs /\ d.live = m.live \ {m.cur} /\ d.cur = m.prev
      /\ d.root = IF m.prev = 0 THEN 0 ELSE m.root
      /\ d.prev = m.prev
      /\ d.next = [k \in DOMAIN m.next |-> IF k = m.prev THEN 0 ELSE m.next[k]]
  BY <1>3c DEF Dropped
<1>5. d = [recs |-> d.recs, next |-> d.next, live |-> d.live, root |-> d.root,
           cur |-> d.cur, prev |-> d.prev]
  <2>1. d = [f \in {"recs", "next", "live", "root", "cur", "prev"} |-> d[f]]
    BY <1>3c, Zenon DEF Dropped
  <2> QED
    BY <2>1
<1> HIDE DEF d
<1>6. d.live = l.live /\ d.root = l.root /\ d.cur = l.cur /\ d.prev = l.cur
  BY <1>1, <1>2, <1>4 DEF Linked
<1>7. d.next \in [1 .. r -> 0 .. r]
  BY <1>1, <1>2, <1>4
<1>8. ASSUME NEW k \in 1 .. Len(l.recs) PROVE d.next[k] = l.next[k]
  BY <1>1, <1>2, <1>4 DEF Linked
<1>9. ListType(d)
  <2>1. /\ d.recs \in Seq([path : Paths, id : Ids]) /\ Len(d.recs) = r
        /\ d.live \in SUBSET Nat /\ d.root \in Nat /\ d.cur \in Nat /\ d.prev \in 0 .. r
    BY <1>1, <1>3, <1>3b, <1>4, <1>6 DEF ListType
  <2> QED
    BY <1>1, <1>5, <1>7, <2>1 DEF ListType
<1>10. ASSUME NEW S \in SUBSET DOMAIN d.next, Closed(d, S), d.root \in S
       PROVE  d.live \subseteq S
  <2> DEFINE T == S \ {r}
  <2>1. T \in SUBSET DOMAIN l.next /\ l.root \in T
    BY <1>1, <1>6, <1>7, <1>10
  <2>2. ASSUME NEW k \in T PROVE l.next[k] = 0 \/ l.next[k] \in T
    <3>1. k \in 1 .. Len(l.recs) /\ d.next[k] = l.next[k] /\ l.next[k] \in 0 .. Len(l.recs)
      BY <1>1, <1>8, <2>1
    <3> QED
      BY <1>1, <1>10, <3>1 DEF Closed
  <2> QED
    BY <1>6, <2>1, <2>2, Zenon DEF Linked, Closed
<1>11. \A S \in SUBSET DOMAIN d.next : (Closed(d, S) /\ d.root \in S) => d.live \subseteq S
  BY <1>10
<1>12. /\ d.cur # 0 => d.next[d.cur] = 0
       /\ \A k \in d.live : d.next[k] \in d.live \cup {0}
  BY <1>1, <1>6, <1>8 DEF Linked
<1>13. /\ d.root \in d.live \cup {0} /\ d.cur \in d.live \cup {0} /\ d.prev \in Nat
       /\ d.root = 0 <=> d.cur = 0
       /\ d.root = 0 => d.live = {}
  <2>1. l.cur \in Nat
    BY <1>1
  <2> QED
    BY <1>6, <2>1, Zenon DEF Linked
<1>14. Linked(d)
  BY <1>11, <1>12, <1>13, Zenon DEF Linked
<1>15. d.live \subseteq 1 .. r
  BY <1>1, <1>6
<1> QED
  BY <1>2, <1>3b, <1>4, <1>9, <1>14, <1>15 DEF m, d

\* What is on the chain of a sound list is what is allocated.
LEMMA ChainIsLive ==
    ASSUME NEW l, ListType(l), l.live \subseteq 1 .. Len(l.recs), Linked(l)
    PROVE  OnChain(l) = l.live
<1>1. CASE l.root = 0
  BY <1>1 DEF OnChain, Linked
<1>2. CASE l.root # 0
  <2>1. l.live \in SUBSET DOMAIN l.next /\ Closed(l, l.live) /\ l.root \in l.live
    BY <1>2 DEF ListType, Linked, Closed
  <2>2. Reached(l, l.root) \subseteq l.live
    BY <2>1, Zenon DEF Reached
  <2>3. l.live \subseteq Reached(l, l.root)
    BY <2>1 DEF Reached, Linked
  <2> QED
    BY <1>2, <2>2, <2>3 DEF OnChain
<1> QED
  BY <1>1, <1>2

-----------------------------------------------------------------------------
(***************************************************************************)
(* What the steps share                                                    *)
(***************************************************************************)
\* The backend is one, for the life of the process.
LEMMA BackendStays == [Next]_vars => backend' = backend
BY DEF Next, vars, Construct, Destroy, Begin, Close, Scan, PassOver, AddRecord, AddAnother, AddWithoutPath,
       AddGarbage, AddAndDrop, EndOfList, Visit, Onward, DropInfos, OpenPath, FreeEnumeration, Return,
       BusChange

\* hid_init makes the global state where it is missing, or leaves it.
LEMMA ContextType ==
    ASSUME context \in 0 .. contexts, contexts \in 0 .. MaxContexts,
           InitSucceeds \/ InitFails \/ UNCHANGED contextVars
    PROVE  context' \in 0 .. contexts' /\ contexts' \in 0 .. MaxContexts
BY EnumerationAssumption DEF InitSucceeds, InitFails, contextVars

\* While the bus stays, what was seen was seen.
LEMMA SeenStays ==
    ASSUME NEW place, NEW device, Seen(place, device),
           UNCHANGED <<bus, changes, disturbed>>
    PROVE  Seen(place, device)'
BY DEF Seen

\* Once the bus has changed, nothing is said of what is on it.
LEMMA SeenThroughChange ==
    ASSUME NEW place, NEW device, Seen(place, device), BusChange
    PROVE  Seen(place, device)'
<1>1. disturbed'
  BY Zenon DEF BusChange
<1> QED
  BY <1>1, Zenon DEF Seen

\* A record stays that of a device that was seen.
LEMMA RecordedStays ==
    ASSUME NEW rec, Recorded(rec), backend' = backend, disturbed => disturbed',
           \A place \in Places, device \in Devices :
               Seen(place, device) => Seen(place, device)'
    PROVE  Recorded(rec)'
<1>1. PICK place \in Places, device \in Devices :
         /\ Seen(place, device)
         /\ rec.path = Path(place, device) \/ (backend = "mac" /\ rec.path = NoPath)
         /\ rec.id = device.id \/ disturbed
  BY Zenon DEF Recorded
<1>2. Seen(place, device)'
  BY <1>1
<1>3. Path(place, device)' = Path(place, device)
  BY Zenon DEF Path
<1>4. /\ rec.path = Path(place, device)' \/ (backend' = "mac" /\ rec.path = NoPath)
      /\ rec.id = device.id \/ disturbed'
  BY <1>1, <1>3, Zenon
<1> QED
  BY <1>2, <1>4, Zenon DEF Recorded

\* Which paths there are depends on the backend only.
LEMMA PathsStay == backend' = backend => Paths' = Paths
<1> SUFFICES ASSUME backend' = backend PROVE Paths' = Paths
  OBVIOUS
<1>1. \A place \in Places, device \in Devices : Path(place, device)' = Path(place, device)
  BY Zenon DEF Path
<1>2. ASSUME NEW x PROVE x \in Paths' <=> x \in Paths
  BY <1>1 DEF Paths
<1> QED
  BY <1>2, Zenon

\* What the loop visits was listed.
LEMMA HeadListed ==
    ASSUME SeenInv, left # <<>>
    PROVE  /\ Head(left) \in Places \X Devices /\ Tail(left) \in Seq(Places \X Devices)
           /\ Seen(Head(left)[1], Head(left)[2])
           /\ Record(Head(left)) \in [path : Paths, id : Ids]
           /\ \A k \in 1 .. Len(Tail(left)) : Tail(left)[k] = left[k + 1] /\ k + 1 \in 1 .. Len(left)
<1>1. /\ left \in Seq(Places \X Devices) /\ Head(left) = left[1] /\ 1 \in 1 .. Len(left)
      /\ Tail(left) \in Seq(Places \X Devices)
      /\ \A k \in 1 .. Len(Tail(left)) : Tail(left)[k] = left[k + 1] /\ k + 1 \in 1 .. Len(left)
  BY DEF SeenInv
<1>2. Head(left) \in Places \X Devices
  BY <1>1
<1>3. Seen(Head(left)[1], Head(left)[2])
  BY <1>1 DEF SeenInv
<1>4. PICK place \in Places, device \in Devices : Head(left) = <<place, device>>
  BY <1>2
<1>5. Record(Head(left)) = [path |-> Path(place, device), id |-> device.id]
  <2>1. Head(left)[1] = place /\ Head(left)[2] = device
    BY <1>4
  <2> QED
    BY <2>1, Zenon DEF Record
<1>6. Path(place, device) \in Paths
  BY DEF Paths
<1>7. device.id \in Ids
  BY DEF Devices
<1> QED
  BY <1>1, <1>2, <1>3, <1>5, <1>6, <1>7

\* A record without a path is one of mac.
LEMMA PathlessOnMac == BusType /\ SeenInv /\ AddWithoutPath => backend = "mac"
<1> SUFFICES ASSUME BusType, SeenInv, AddWithoutPath PROVE backend = "mac"
  OBVIOUS
<1>1. backend \in AllBackends /\ "no_path" \in Does(Found(Head(left)))
  BY EnumerationAssumption DEF BusType, AddWithoutPath, Visit
<1>2. \A how : "no_path" \notin WindowsDoes(how) /\ "no_path" \notin LibusbDoes(how)
  BY DEF WindowsDoes, LibusbDoes
<1>3. Head(left)[2] \in Devices
  BY HeadListed DEF AddWithoutPath, Visit
<1>4. Found(Head(left)) \in {"whole", "bare", "odd", "gone"}
  BY <1>3, EnumerationAssumption DEF Found, Devices
<1>5. "no_path" \notin LinuxDoes(Found(Head(left)))
  BY <1>4 DEF LinuxDoes
<1> QED
  BY <1>1, <1>2, <1>5 DEF AllBackends, Does

\* At the head of a list all of it is left.
LEMMA WholeSubSeq ==
    ASSUME NEW S, NEW s \in Seq(S)
    PROVE  SubSeq(s, 1, Len(s)) = s /\ 0 \in 0 .. Len(s)
<1>1. Len(s) \in Nat
  BY LenProperties
<1>2. SubSeq(s, 1, Len(s)) = [k \in 1 .. Len(s) |-> s[k]]
  BY <1>1
<1>3. s = [k \in 1 .. Len(s) |-> s[k]]
  BY LenProperties
<1> QED
  BY <1>1, <1>2, <1>3

\* What is left of a list after its first device.
LEMMA SubSeqTail ==
    ASSUME NEW S, NEW s \in Seq(S), NEW n \in 0 .. Len(s), SubSeq(s, n + 1, Len(s)) # <<>>
    PROVE  n + 1 \in 0 .. Len(s) /\ Tail(SubSeq(s, n + 1, Len(s))) = SubSeq(s, n + 2, Len(s))
<1>1. n < Len(s)
  OBVIOUS
<1>2. n + 1 \in 1 .. Len(s) + 1 /\ Len(s) \in 0 .. Len(s)
  BY <1>1
<1>3. SubSeq(s, n + 1, Len(s)) = [k \in 1 .. Len(s) - n |-> s[n + k]]
  BY <1>1
<1>4. SubSeq(s, n + 2, Len(s)) = [k \in 1 .. Len(s) - n - 1 |-> s[n + 1 + k]]
  BY <1>1
<1> QED
  BY <1>1, <1>3, <1>4

-----------------------------------------------------------------------------
(***************************************************************************)
(* The first state and the list of the system                              *)
(***************************************************************************)
\* There are no calls and no handles yet.
LEMMA EnumerationInit == Init => EnumerationInv /\ ContextInv
<1> SUFFICES ASSUME Init PROVE EnumerationInv /\ ContextInv
  OBVIOUS
<1>1. BusType /\ ApartInv
  <2>1. PICK there \in SUBSET Places, id \in [Places -> Ids], make \in [Places -> Descriptions] :
           bus = [p \in Places |->
                    IF p \in there
                    THEN [id |-> id[p], make |-> make[p], since |-> 0, address |-> p]
                    ELSE Empty]
    BY DEF Init
  <2>2. ASSUME NEW p \in Places
        PROVE  bus[p] \in Devices \cup {Empty} /\ (bus[p] # Empty => bus[p].address = p)
    <3>1. CASE p \in there
      BY <2>1, <3>1, EnumerationAssumption DEF Devices
    <3>2. CASE p \notin there
      BY <2>1, <3>2
    <3> QED
      BY <3>1, <3>2
  <2>3. bus \in [Places -> Devices \cup {Empty}]
    BY <2>1, <2>2
  <2>4. ApartInv
    BY <2>2 DEF ApartInv
  <2> QED
    BY <2>3, <2>4, EnumerationAssumption DEF Init, BusType
<1>2. HandleType
  BY EnumerationAssumption DEF Init, HandleType, NoHandle
<1>3. CallType
  BY Zenon DEF Init, CallType
<1>4. ScanType
  BY DEF Init, ScanType, NoList
<1>5. ListInv
  BY NoListLinked, Zenon DEF Init, ListInv
<1>6. SeenInv
  BY <1>1 DEF Init, SeenInv, NoList
<1> QED
  BY <1>1, <1>2, <1>3, <1>4, <1>5, <1>6
     DEF Init, EnumerationInv, TypeOK, AskInv, OpensAsked, ContextInv

\* The devices on the bus are finitely many.
LEMMA EntriesFinite == Cardinality(Entries) \in Nat
<1> DEFINE T == {q \in Places : bus[q] # Empty}
           f == [p \in T |-> <<p, bus[p]>>]
<1>1. IsFiniteSet(T)
  BY EnumerationAssumption, FS_Subset
<1>2. f \in Surjection(T, Entries)
  BY DEF Surjection, Entries
<1>3. IsFiniteSet(Entries)
  BY <1>1, <1>2, FS_Surjection
<1> QED
  BY <1>3, FS_CardinalityType

\* What the system lists is on the bus.
LEMMA OrdersListTheBus ==
    ASSUME BusType, NEW s \in Orders
    PROVE  /\ s \in Seq(Places \X Devices)
           /\ \A k \in 1 .. Len(s) : bus[s[k][1]] = s[k][2]
<1>1. PICK n \in Nat : s \in [1 .. n -> Entries]
  BY EntriesFinite, Zenon DEF Orders
<1>2. ASSUME NEW e \in Entries PROVE e \in Places \X Devices /\ bus[e[1]] = e[2]
  BY DEF Entries, BusType
<1>3. s \in Seq(Places \X Devices) /\ Len(s) = n
  BY <1>1, <1>2
<1> QED
  BY <1>1, <1>2, <1>3

-----------------------------------------------------------------------------
(***************************************************************************)
(* Every step keeps the list sound                                         *)
(***************************************************************************)
\* A step that leaves the list alone, within a call or between two.
LEMMA ListStays ==
    ASSUME ListInv, list' = list, backend' = backend, pc' = "idle" <=> pc = "idle"
    PROVE  ListInv'
BY PathsStay DEF ListInv, ListType, Linked, Closed

\* A step within a call that makes another sound list of it.
LEMMA ListBecomes ==
    ASSUME NEW l, list' = l, backend' = backend, pc' # "idle",
           ListType(l), l.live \subseteq 1 .. Len(l.recs), Linked(l)
    PROVE  ListInv'
BY PathsStay DEF ListInv, ListType, Linked, Closed

\* Whoever owns the list has freed all of it when the call returns.
LEMMA ListFreed ==
    ASSUME ListInv, pc # "idle", Return(Freed(list)), backend' = backend
    PROVE  ListInv'
<1>1. OnChain(list) = list.live
  BY ChainIsLive DEF ListInv
<1>2. Freed(list).live = {}
  BY <1>1 DEF Freed, ListInv, ListType
<1>3. pc' = "idle" /\ list' = NoList
  BY <1>2 DEF Return, NoList
<1>4. ListType(list)'
  BY <1>3 DEF ListType, NoList
<1> QED
  BY <1>3, <1>4, Zenon DEF ListInv

\* One case per action: the record of a turn of the loop is a record.
LEMMA ListStep == EnumerationInv /\ [Next]_vars => ListInv'
<1> SUFFICES ASSUME EnumerationInv, [Next]_vars PROVE ListInv'
  OBVIOUS
<1>1. ListInv /\ SeenInv /\ backend' = backend
  BY BackendStays, Zenon DEF EnumerationInv
<1>2. pc = "scan" => ListType(list) /\ list.live \subseteq 1 .. Len(list.recs) /\ Linked(list)
  BY <1>1, Zenon DEF ListInv
<1>3. ASSUME NEW w \in Wallets, Construct(w) \/ Destroy(w) \/ Close(w) PROVE ListInv'
  BY <1>1, <1>3, ListStays, Zenon DEF Construct, Destroy, Close, callVars
<1>4. ASSUME NEW w \in Wallets, Begin(w) PROVE ListInv'
  <2>1. list' = NoList /\ pc' \in {"scan", "listed"}
    BY <1>4 DEF Begin
  <2>2. NoList.live \subseteq 1 .. Len(NoList.recs)
    BY DEF NoList
  <2> QED
    BY <1>1, <2>1, <2>2, NoListLinked, ListBecomes
<1>5. CASE PassOver
  BY <1>1, <1>5, ListStays, Zenon DEF PassOver, Visit, callVars
<1>6. ASSUME NEW rec \in [path : Paths, id : Ids], pc = "scan", pc' = pc,
             list' = Appended(list, rec)
      PROVE  ListInv'
  <2>1. PICK l : l = Appended(list, rec)
    OBVIOUS
  <2>2. ListType(l) /\ Linked(l) /\ l.live \subseteq 1 .. Len(l.recs)
    BY <1>2, <1>6, <2>1, AppendedLinked
  <2> QED
    BY <1>1, <1>6, <2>1, <2>2, ListBecomes
<1>7. pc = "scan" /\ left # <<>> => Record(Head(left)) \in [path : Paths, id : Ids]
  BY <1>1, HeadListed
<1>8. CASE AddRecord \/ AddAnother
  BY <1>6, <1>7, <1>8 DEF AddRecord, AddAnother, Visit, callVars
<1>9. CASE AddWithoutPath
  <2>1. NoPath \in Paths
    BY DEF Paths
  <2>2. [Record(Head(left)) EXCEPT !.path = NoPath] \in [path : Paths, id : Ids]
    BY <1>7, <1>9, <2>1 DEF AddWithoutPath, Visit
  <2> QED
    BY <1>6, <1>9, <2>2, Zenon DEF AddWithoutPath, Visit, callVars
<1>10. CASE AddGarbage
  <2>1. PICK id \in Ids : list' = Appended(list, [Record(Head(left)) EXCEPT !.id = id])
    BY <1>10 DEF AddGarbage
  <2>2. [Record(Head(left)) EXCEPT !.id = id] \in [path : Paths, id : Ids]
    BY <1>7, <1>10, <2>1 DEF AddGarbage, Visit
  <2> QED
    BY <1>6, <1>10, <2>1, <2>2, Zenon DEF AddGarbage, Visit, callVars
<1>11. CASE AddAndDrop
  <2>1. backend = "linux"
    <3>1. backend \in AllBackends /\ "drop" \in Does(Found(Head(left)))
      BY <1>11, EnumerationAssumption
         DEF EnumerationInv, TypeOK, BusType, AddAndDrop, Visit
    <3>2. \A how : /\ "drop" \notin WindowsDoes(how)
                   /\ "drop" \notin LibusbDoes(how)
      BY DEF WindowsDoes, LibusbDoes
    <3>3. Found(Head(left)) \in Descriptions \cup {"gone"}
      <4>1. Head(left)[2] \in Devices
        BY <1>1, <1>11, HeadListed DEF AddAndDrop, Visit
      <4> QED
        BY <4>1 DEF Found, Devices
    <3>4. "drop" \notin MacDoes(Found(Head(left)))
      BY <3>3, EnumerationAssumption DEF MacDoes
    <3> QED
      BY <3>1, <3>2, <3>4 DEF AllBackends, Does
  <2>2. PICK l : l = Dropped(Appended(list, Record(Head(left))))
    OBVIOUS
  <2>3. ListType(l) /\ Linked(l) /\ l.live \subseteq 1 .. Len(l.recs)
    BY <1>2, <1>7, <1>11, <2>1, <2>2, DroppedLinked DEF AddAndDrop, Visit
  <2> QED
    BY <1>1, <1>11, <2>2, <2>3, ListBecomes DEF AddAndDrop, Visit, callVars
<1>12. CASE EndOfList
  BY <1>1, <1>12, ListStays DEF EndOfList
<1>13. CASE DropInfos \/ FreeEnumeration
  BY <1>1, <1>13, ListFreed DEF DropInfos, FreeEnumeration
<1>14. CASE OpenPath
  BY <1>1, <1>14, ListStays DEF OpenPath
<1>15. CASE BusChange
  BY <1>1, <1>15, ListStays DEF BusChange, callVars
<1>16. CASE UNCHANGED vars
  BY <1>1, <1>16, ListStays DEF vars, callVars
<1> QED
  BY <1>3, <1>4, <1>5, <1>8, <1>9, <1>10, <1>11, <1>12, <1>13, <1>14, <1>15, <1>16
     DEF Next, Scan

-----------------------------------------------------------------------------
(***************************************************************************)
(* Every step keeps to what was seen                                       *)
(***************************************************************************)
\* What was seen stays seen until the next call.
LEMMA SeenAfter ==
    ASSUME BusType, [Next]_vars, \A w \in Wallets : ~Begin(w),
           NEW place, NEW device, Seen(place, device)
    PROVE  Seen(place, device)' /\ (disturbed => disturbed')
<1>1. CASE BusChange
  <2>1. disturbed' = TRUE
    BY <1>1, Zenon DEF BusChange
  <2> QED
    BY <1>1, <2>1, SeenThroughChange, EnumerationAssumption DEF BusType
<1>2. CASE ~BusChange
  <2>1. UNCHANGED <<bus, changes, disturbed>>
    BY <1>2, Zenon
       DEF Next, vars, Construct, Destroy, Close, Scan, PassOver, AddRecord, AddAnother, AddWithoutPath,
           AddGarbage, AddAndDrop, EndOfList, Visit, Onward, DropInfos, OpenPath, FreeEnumeration, Return
  <2> QED
    BY <2>1, SeenStays
<1> QED
  BY <1>1, <1>2

\* The record of the device that the loop visits.
LEMMA HeadRecorded ==
    ASSUME SeenInv, left # <<>>
    PROVE  Recorded(Record(Head(left)))
<1>1. PICK place \in Places, device \in Devices : Head(left) = <<place, device>>
  BY HeadListed
<1>2. Head(left)[1] = place /\ Head(left)[2] = device
  BY <1>1
<1>3. Seen(place, device)
  BY <1>2, HeadListed
<1>4. Record(Head(left)) = [path |-> Path(place, device), id |-> device.id]
  BY <1>2, Zenon DEF Record
<1>5. Record(Head(left)).path = Path(place, device) /\ Record(Head(left)).id = device.id
  BY <1>4
<1> QED
  BY <1>3, <1>5, Zenon DEF Recorded

\* On mac the record may have no path.
LEMMA PathlessRecorded ==
    ASSUME SeenInv, left # <<>>, backend = "mac"
    PROVE  Recorded([Record(Head(left)) EXCEPT !.path = NoPath])
<1>1. PICK place \in Places, device \in Devices : Head(left) = <<place, device>>
  BY HeadListed
<1>2. Head(left)[1] = place /\ Head(left)[2] = device
  BY <1>1
<1>3. Seen(place, device)
  BY <1>2, HeadListed
<1>4. Record(Head(left)) = [path |-> Path(place, device), id |-> device.id]
  BY <1>2, Zenon DEF Record
<1> DEFINE rec == [Record(Head(left)) EXCEPT !.path = NoPath]
<1>5. rec.path = NoPath /\ rec.id = device.id
  BY <1>4
<1> HIDE DEF rec
<1>6. Recorded(rec)
  BY <1>3, <1>5, Zenon DEF Recorded
<1> QED
  BY <1>6 DEF rec

\* On windows the id may be anything, but only of a device that has left.
LEMMA GarbageRecorded ==
    ASSUME SeenInv, left # <<>>, Found(Head(left)) = "gone", NEW id \in Ids,
           Descriptions \subseteq {"whole", "bare", "odd"}
    PROVE  Recorded([Record(Head(left)) EXCEPT !.id = id])
<1>1. PICK place \in Places, device \in Devices : Head(left) = <<place, device>>
  BY HeadListed
<1>2. Head(left)[1] = place /\ Head(left)[2] = device
  BY <1>1
<1>3. Seen(place, device)
  BY <1>2, HeadListed
<1>4. Record(Head(left)) = [path |-> Path(place, device), id |-> device.id]
  BY <1>2, Zenon DEF Record
<1>5. bus[place] # device
  <2>1. device.make # "gone"
    BY DEF Devices
  <2> QED
    BY <1>2, <2>1, Zenon DEF Found
<1>6. disturbed
  BY <1>3, <1>5, Zenon DEF Seen
<1> DEFINE rec == [Record(Head(left)) EXCEPT !.id = id]
<1>7. rec.path = Path(place, device)
  BY <1>4
<1> HIDE DEF rec
<1>8. Recorded(rec)
  BY <1>3, <1>6, <1>7, Zenon DEF Recorded
<1> QED
  BY <1>8 DEF rec

\* A step that goes on with the list of the system, or drops it, and that adds
\* at most one record, of a device that was seen.
LEMMA SeenKept ==
    ASSUME SeenInv, BusType, ListInv, [Next]_vars, \A w \in Wallets : ~Begin(w),
           scan' \in {scan, <<>>},
           left' \in {left, <<>>} \/ (left # <<>> /\ left' = Tail(left)),
           \/ list'.recs \in {list.recs, <<>>}
           \/ \E rec : list'.recs = Append(list.recs, rec) /\ Recorded(rec)
    PROVE  SeenInv'
<1>1. \A place \in Places, device \in Devices : Seen(place, device) => Seen(place, device)'
  BY SeenAfter
<1>2. scan' \in Seq(Places \X Devices) /\ left' \in Seq(Places \X Devices)
  <2>1. /\ scan \in Seq(Places \X Devices) /\ left \in Seq(Places \X Devices)
        /\ <<>> \in Seq(Places \X Devices)
    BY DEF SeenInv
  <2>2. left # <<>> => Tail(left) \in Seq(Places \X Devices)
    BY HeadListed
  <2> QED
    BY <2>1, <2>2, Zenon
<1>3. ASSUME NEW k \in 1 .. Len(left') PROVE Seen(left[k][1], left[k][2])'
  <2>1. PICK j \in 1 .. Len(left) : left'[k] = left[j]
    <3>1. CASE left' = left
      BY <3>1
    <3>2. CASE left' = <<>>
      BY <3>2
    <3>3. CASE left # <<>> /\ left' = Tail(left)
      BY <3>3, HeadListed
    <3> QED
      BY <3>1, <3>2, <3>3
  <2>2. PICK place \in Places, device \in Devices : left[j] = <<place, device>>
    BY <2>1 DEF SeenInv
  <2>3. left'[k][1] = place /\ left'[k][2] = device /\ left[j][1] = place /\ left[j][2] = device
    BY <2>1, <2>2
  <2>4. Seen(place, device)'
    BY <1>1, <2>3 DEF SeenInv
  <2> QED
    BY <2>3, <2>4, Zenon DEF Seen
<1>4. ASSUME NEW r \in 1 .. Len(list'.recs) PROVE Recorded(list.recs[r])'
  <2>1. PICK rec : rec = list'.recs[r] /\ Recorded(rec)
    <3>1. list.recs \in Seq([path : Paths, id : Ids])
      BY DEF ListInv, ListType
    <3>2. CASE list'.recs \in {list.recs, <<>>}
      BY <3>1, <3>2 DEF SeenInv
    <3>3. CASE \E rec : list'.recs = Append(list.recs, rec) /\ Recorded(rec)
      <4>1. PICK rec : list'.recs = Append(list.recs, rec) /\ Recorded(rec)
        BY <3>3
      <4>2. CASE r = Len(list.recs) + 1
        BY <3>1, <4>1, <4>2
      <4>3. CASE r # Len(list.recs) + 1
        <5>1. r \in 1 .. Len(list.recs) /\ list'.recs[r] = list.recs[r]
          BY <3>1, <4>1, <4>3
        <5> QED
          BY <5>1 DEF SeenInv
      <4> QED
        BY <4>2, <4>3
    <3> QED
      BY <3>2, <3>3
  <2>2. disturbed => disturbed'
    BY SeenAfter, <2>1, Zenon DEF Recorded
  <2>3. Recorded(rec)'
    BY <1>1, <2>1, <2>2, BackendStays, RecordedStays
  <2> QED
    BY <2>1, <2>3, Zenon DEF Recorded
<1> QED
  BY <1>2, <1>3, <1>4 DEF SeenInv

-----------------------------------------------------------------------------
\* A turn of the loop adds the record of a device that was seen; a new call
\* starts from the bus.
LEMMA SeenStep == EnumerationInv /\ [Next]_vars => SeenInv'
<1> SUFFICES ASSUME EnumerationInv, [Next]_vars PROVE SeenInv'
  OBVIOUS
<1>1. SeenInv /\ BusType /\ ListInv
  BY Zenon DEF EnumerationInv, TypeOK
<1>2. ASSUME NEW w \in Wallets, Begin(w) PROVE SeenInv'
  <2>1. /\ list' = NoList /\ left' = scan' /\ UNCHANGED <<bus, changes, backend>>
        /\ scan' \in Orders \/ scan' = <<>>
    BY <1>2 DEF Begin
  <2>2. /\ scan' \in Seq(Places \X Devices)
        /\ \A k \in 1 .. Len(scan') : bus[scan'[k][1]] = scan'[k][2]
    <3>1. CASE scan' = <<>>
      BY <3>1
    <3>2. CASE scan' \in Orders
      BY <1>1, <3>2, OrdersListTheBus
    <3> QED
      BY <2>1, <3>1, <3>2
  <2>3. ASSUME NEW k \in 1 .. Len(left') PROVE Seen(left[k][1], left[k][2])'
    <3>1. PICK place \in Places, device \in Devices : scan'[k] = <<place, device>>
      BY <2>1, <2>2
    <3>2. scan'[k][1] = place /\ scan'[k][2] = device
      BY <3>1
    <3>3. bus'[place] = device
      BY <2>1, <2>2, <3>2
    <3>4. Seen(place, device)'
      BY <3>3 DEF Seen
    <3> QED
      BY <2>1, <3>2, <3>4, Zenon DEF Seen
  <2>4. \A r \in 1 .. Len(list'.recs) : Recorded(list.recs[r])'
    BY <2>1 DEF NoList
  <2> QED
    BY <1>1, <2>1, <2>2, <2>3, <2>4 DEF SeenInv
<1>3. CASE \A w \in Wallets : ~Begin(w)
  <2> SUFFICES /\ scan' \in {scan, <<>>}
               /\ left' \in {left, <<>>} \/ (left # <<>> /\ left' = Tail(left))
               /\ \/ list'.recs \in {list.recs, <<>>}
                  \/ \E rec : list'.recs = Append(list.recs, rec) /\ Recorded(rec)
    BY <1>1, <1>3, SeenKept
  <2>1. ASSUME NEW w \in Wallets, Construct(w) \/ Destroy(w) \/ Close(w)
        PROVE  UNCHANGED <<scan, left, list>>
    BY <2>1, Zenon DEF Construct, Destroy, Close
  <2>2. CASE PassOver
    BY <2>2, Zenon DEF PassOver, Visit, Onward
  <2>3. ASSUME NEW rec, list' = Appended(list, rec) PROVE list'.recs = Append(list.recs, rec)
    BY <2>3 DEF Appended
  <2>4. CASE AddRecord \/ AddAnother
    BY <1>1, <2>3, <2>4, HeadRecorded DEF AddRecord, AddAnother, Visit, Onward
  <2>5. CASE AddWithoutPath
    <3>1. backend = "mac"
      BY <1>1, <2>5, PathlessOnMac
    <3> QED
      BY <1>1, <2>3, <2>5, <3>1, PathlessRecorded DEF AddWithoutPath, Visit, Onward
  <2>6. CASE AddGarbage
    <3>1. /\ backend = "windows" /\ Found(Head(left)) = "gone"
      <4>1. backend \in AllBackends /\ "garbage" \in Does(Found(Head(left)))
        BY <1>1, <2>6, EnumerationAssumption DEF BusType, AddGarbage, Visit
      <4>2. \A how : "garbage" \notin LibusbDoes(how)
        BY DEF LibusbDoes
      <4>3. Head(left)[2] \in Devices
        BY <1>1, <2>6, HeadListed DEF AddGarbage, Visit
      <4>4. "garbage" \notin LinuxDoes(Found(Head(left))) \cup MacDoes(Found(Head(left)))
        <5>1. Found(Head(left)) \in {"whole", "bare", "odd", "gone"}
          BY <4>3, EnumerationAssumption DEF Found, Devices
        <5> QED
          BY <5>1 DEF LinuxDoes, MacDoes
      <4> QED
        BY <4>1, <4>2, <4>4 DEF AllBackends, Does, WindowsDoes
    <3>2. PICK id \in Ids : list' = Appended(list, [Record(Head(left)) EXCEPT !.id = id])
      BY <2>6 DEF AddGarbage
    <3> QED
      BY <1>1, <2>3, <2>6, <3>1, <3>2, GarbageRecorded, EnumerationAssumption
         DEF AddGarbage, Visit, Onward
  <2>7. CASE AddAndDrop
    <3>1. list'.recs = Appended(list, Record(Head(left))).recs
      BY <2>7 DEF AddAndDrop, Dropped, Appended
    <3>2. list'.recs = Append(list.recs, Record(Head(left)))
      BY <3>1 DEF Appended
    <3> QED
      BY <1>1, <2>7, <3>2, HeadRecorded DEF AddAndDrop, Visit, Onward
  <2>8. CASE DropInfos \/ FreeEnumeration
    <3>1. scan' = <<>> /\ left' = <<>> /\ list'.recs = <<>>
      BY <2>8 DEF DropInfos, FreeEnumeration, Return, NoList
    <3> QED
      BY <3>1
  <2>9. CASE EndOfList \/ OpenPath \/ BusChange
    BY <2>9, Zenon DEF EndOfList, OpenPath, BusChange
  <2>10. CASE UNCHANGED vars
    BY <2>10, Zenon DEF vars
  <2> QED
    BY <1>3, <2>1, <2>2, <2>4, <2>5, <2>6, <2>7, <2>8, <2>9, <2>10 DEF Next, Scan
<1> QED
  BY <1>2, <1>3

-----------------------------------------------------------------------------
(***************************************************************************)
(* Every step keeps the types, and opens what was asked for                *)
(***************************************************************************)
\* What the actions without a call, and those of a call, do to the bus.
LEMMA BusStep == BusType /\ [Next]_vars => BusType'
<1> SUFFICES ASSUME BusType, [Next]_vars PROVE BusType'
  OBVIOUS
<1>1. CASE BusChange
  <2>1. /\ changes' = changes + 1 /\ changes' \in 0 .. MaxChanges
    BY <1>1, EnumerationAssumption DEF BusChange, BusType
  <2>2. PICK p \in Places :
           \/ Leaves(p)
           \/ \E id \in Ids, address \in FreeAddresses(p) : Comes(p, id, address)
    BY <1>1, Zenon DEF BusChange
  <2>3. ASSUME NEW id \in Ids, NEW address \in FreeAddresses(p)
        PROVE  [id |-> id, make |-> "whole", since |-> changes', address |-> address] \in Devices
    BY <2>1, EnumerationAssumption DEF Devices, FreeAddresses
  <2>4. bus' \in [Places -> Devices \cup {Empty}]
    BY <2>2, <2>3 DEF BusType, Leaves, Comes
  <2> QED
    BY <2>1, <2>4, BackendStays DEF BusType
<1>2. CASE ~BusChange
  <2>1. UNCHANGED <<bus, changes>>
    BY <1>2, Zenon
       DEF Next, vars, Construct, Destroy, Close, Scan, PassOver, AddRecord, AddAnother, AddWithoutPath,
           AddGarbage, AddAndDrop, EndOfList, Visit, Onward, DropInfos, OpenPath, FreeEnumeration, Return,
           Begin
  <2> QED
    BY <2>1, BackendStays DEF BusType
<1> QED
  BY <1>1, <1>2

\* A device that comes gets an address that no other has.
LEMMA ApartStep == BusType /\ ApartInv /\ [Next]_vars => ApartInv'
<1> SUFFICES ASSUME BusType, ApartInv, [Next]_vars, backend' = "libusb",
                    NEW p \in Places, NEW q \in Places,
                    bus'[p] # Empty, bus'[q] # Empty, bus'[p].address = bus'[q].address
             PROVE  p = q
  BY DEF ApartInv
<1>1. backend = "libusb"
  BY BackendStays
<1>2. CASE BusChange
  <2>1. PICK there \in Places :
           \/ Leaves(there)
           \/ \E id \in Ids, address \in FreeAddresses(there) : Comes(there, id, address)
    BY <1>2, Zenon DEF BusChange
  <2>2. \A other \in Places : other # there => bus'[other] = bus[other]
    BY <2>1 DEF BusType, Leaves, Comes
  <2>3. \A other \in Places \ {there} : bus'[there] # Empty => bus'[there].address # bus[other].address
    BY <1>1, <2>1 DEF BusType, Leaves, Comes, FreeAddresses
  <2>4. CASE p # there /\ q # there
    BY <1>1, <2>2, <2>4 DEF ApartInv
  <2>5. CASE p = there \/ q = there
    BY <2>2, <2>3, <2>5
  <2> QED
    BY <2>4, <2>5
<1>3. CASE ~BusChange
  <2>1. UNCHANGED bus
    BY <1>3, Zenon
       DEF Next, vars, Construct, Destroy, Close, Scan, PassOver, AddRecord, AddAnother,
           AddWithoutPath, AddGarbage, AddAndDrop, EndOfList, Visit, Onward, DropInfos, OpenPath,
           FreeEnumeration, Return, Begin
  <2> QED
    BY <1>1, <2>1 DEF ApartInv
<1> QED
  BY <1>2, <1>3

\* A handle is NoHandle, or to a device on the bus.
LEMMA HandleStep == EnumerationInv /\ [Next]_vars => HandleType'
<1> SUFFICES ASSUME EnumerationInv, [Next]_vars PROVE HandleType'
  OBVIOUS
<1>1. HandleType /\ BusType /\ CallType /\ AskInv
  BY Zenon DEF EnumerationInv, TypeOK
<1>2. NoHandle \in [id : Ids \cup {"none"}, asked : Ids \cup {"none"},
                    context : 0 .. MaxContexts, disturbed : BOOLEAN]
  BY EnumerationAssumption DEF NoHandle
<1>3. ASSUME NEW w \in Wallets, Construct(w) \/ Begin(w) PROVE HandleType'
  <2>1. alive' \subseteq Wallets /\ handle' = handle
    BY <1>1, <1>3 DEF Construct, Begin, HandleType
  <2>2. InitSucceeds \/ InitFails
    BY <1>3 DEF Construct, Begin
  <2> QED
    BY <1>1, <2>1, <2>2, ContextType DEF HandleType
<1>4. ASSUME NEW w \in Wallets, Destroy(w) \/ Close(w) PROVE HandleType'
  BY <1>1, <1>2, <1>4, EnumerationAssumption DEF Destroy, Close, HandleType, contextVars
<1>5. CASE OpenPath
  <2>1. alive' = alive /\ (InitSucceeds \/ InitFails \/ UNCHANGED contextVars)
    BY <1>5, Zenon DEF OpenPath
  <2>2. context' \in 0 .. contexts' /\ contexts' \in 0 .. MaxContexts
    BY <1>1, <2>1, ContextType DEF HandleType
  <2>3. CASE handle' = handle
    BY <1>1, <2>1, <2>2, <2>3 DEF HandleType
  <2>4. ASSUME NEW device \in AtPath,
               handle' = [handle EXCEPT ![caller] =
                            [id |-> device.id, asked |-> want,
                             context |-> context', disturbed |-> disturbed]]
        PROVE  HandleType'
    <3>1. device.id \in Ids
      BY <1>1 DEF AtPath, BusType, Devices
    <3>2. want \in Ids /\ disturbed \in BOOLEAN
      BY <1>1, <1>5, Zenon DEF OpenPath, AskInv, CallType
    <3>3. context' \in 0 .. MaxContexts
      BY <2>2, EnumerationAssumption
    <3>4. [id |-> device.id, asked |-> want, context |-> context', disturbed |-> disturbed]
            \in [id : Ids \cup {"none"}, asked : Ids \cup {"none"},
                 context : 0 .. MaxContexts, disturbed : BOOLEAN]
      BY <3>1, <3>2, <3>3
    <3> QED
      BY <1>1, <2>1, <2>2, <2>4, <3>4 DEF HandleType
  <2> QED
    BY <1>5, <2>3, <2>4 DEF OpenPath
<1>6. CASE Scan \/ DropInfos \/ FreeEnumeration \/ BusChange \/ UNCHANGED vars
  <2>1. UNCHANGED <<alive, handle, contextVars>>
    BY <1>6, Zenon
       DEF Scan, PassOver, AddRecord, AddAnother, AddWithoutPath, AddGarbage, AddAndDrop, EndOfList, Visit, Onward,
           DropInfos, FreeEnumeration, Return, BusChange, vars
  <2> QED
    BY <1>1, <2>1 DEF HandleType, contextVars
<1> QED
  BY <1>3, <1>4, <1>5, <1>6 DEF Next

\* A call goes on with what it was asked for.
LEMMA CallStep == CallType /\ AskInv /\ [Next]_vars => CallType' /\ AskInv'
<1> SUFFICES ASSUME CallType, AskInv, [Next]_vars PROVE CallType' /\ AskInv'
  OBVIOUS
<1>1. ASSUME NEW w \in Wallets, Begin(w) PROVE CallType' /\ AskInv'
  <2>1. \E c \in Calls(w) : op' = c[1] /\ want' = c[2]
    BY <1>1 DEF Begin
  <2>2. /\ op' \in {"enumerate", "open"} /\ want' \in Ids \cup {Any}
        /\ op' = "open" => want' \in Ids
    BY <2>1 DEF Calls
  <2>3. pc' \in {"scan", "listed"} /\ caller' = w /\ disturbed' = FALSE
    BY <1>1, Zenon DEF Begin
  <2> QED
    BY <1>1, <2>2, <2>3, Zenon DEF CallType, AskInv
<1>2. ASSUME NEW w \in Wallets, Construct(w) \/ Destroy(w) \/ Close(w) PROVE CallType' /\ AskInv'
  BY <1>2, Zenon DEF Construct, Destroy, Close, callVars, CallType, AskInv
<1>3. CASE Scan
  BY <1>3, Zenon
     DEF Scan, PassOver, AddRecord, AddAnother, AddWithoutPath, AddGarbage, AddAndDrop, EndOfList, Visit, Onward,
         callVars, CallType, AskInv
<1>4. CASE DropInfos \/ FreeEnumeration \/ OpenPath
  BY <1>4, Zenon DEF DropInfos, FreeEnumeration, Return, OpenPath, CallType, AskInv
<1>5. CASE BusChange \/ UNCHANGED vars
  BY <1>5, Zenon DEF BusChange, vars, callVars, CallType, AskInv
<1> QED
  BY <1>1, <1>2, <1>3, <1>4, <1>5 DEF Next

\* The loop goes along the list of the system, from its first device on.
LEMMA ScanStep == EnumerationInv /\ [Next]_vars => ScanType'
<1> SUFFICES ASSUME EnumerationInv, [Next]_vars PROVE ScanType'
  OBVIOUS
<1>1. ListInv' /\ SeenInv' /\ SeenInv /\ ScanType
  BY ListStep, SeenStep DEF EnumerationInv, TypeOK
<1>2. /\ {list'.root, list'.cur, list'.prev} \subseteq 0 .. Len(list'.recs)
      /\ DOMAIN list'.next = 1 .. Len(list'.recs)
      /\ list'.live \subseteq Nat \ {0}
  BY <1>1 DEF ListInv, ListType, Linked, NoList
<1>3. PICK n \in 0 .. Len(scan) : left = SubSeq(scan, n + 1, Len(scan))
  BY <1>1 DEF ScanType
<1>4. \E m \in 0 .. Len(scan') : left' = SubSeq(scan', m + 1, Len(scan'))
  <2>1. CASE UNCHANGED <<scan, left>>
    BY <1>3, <2>1
  <2>2. CASE left # <<>> /\ left' = Tail(left) /\ scan' = scan
    <3>1. scan \in Seq(Places \X Devices)
      BY <1>1 DEF SeenInv
    <3>2. /\ n + 1 \in 0 .. Len(scan)
          /\ Tail(SubSeq(scan, n + 1, Len(scan))) = SubSeq(scan, n + 2, Len(scan))
      BY <1>3, <2>2, <3>1, SubSeqTail
    <3>3. (n + 1) + 1 = n + 2
      BY <1>3, <3>2
    <3> QED
      BY <1>3, <2>2, <3>2, <3>3, Zenon
  <2>3. CASE left' = scan'
    <3>1. scan' \in Seq(Places \X Devices)
      BY <1>1 DEF SeenInv
    <3>2. SubSeq(scan', 1, Len(scan')) = scan' /\ 0 \in 0 .. Len(scan')
      BY <3>1, WholeSubSeq
    <3> QED
      BY <2>3, <3>2
  <2>4. ASSUME NEW w \in Wallets, Construct(w) \/ Destroy(w) \/ Begin(w) \/ Close(w)
        PROVE  UNCHANGED <<scan, left>> \/ left' = scan'
    BY <2>4, Zenon DEF Construct, Destroy, Begin, Close
  <2>5. CASE Scan
    BY <2>1, <2>2, <2>5, Zenon
       DEF Scan, PassOver, AddRecord, AddAnother, AddWithoutPath, AddGarbage, AddAndDrop, EndOfList, Visit, Onward
  <2>6. CASE DropInfos \/ FreeEnumeration
    BY <2>3, <2>6, Zenon DEF DropInfos, FreeEnumeration, Return
  <2>7. CASE OpenPath \/ BusChange \/ UNCHANGED vars
    BY <2>1, <2>7, Zenon DEF OpenPath, BusChange, vars
  <2> QED
    BY <2>1, <2>3, <2>4, <2>5, <2>6, <2>7 DEF Next
<1> QED
  BY <1>2, <1>4 DEF ScanType

-----------------------------------------------------------------------------
\* At no time do two devices on the bus have one path.
LEMMA PathsApart ==
    ASSUME ApartInv, NEW p \in Places, NEW q \in Places, bus[p] # Empty, bus[q] # Empty,
           Path(p, bus[p]) = Path(q, bus[q])
    PROVE  p = q
<1>1. CASE backend = "libusb"
  <2>1. bus[p].address = bus[q].address
    BY <1>1 DEF Path
  <2> QED
    BY <1>1, <2>1 DEF ApartInv
<1>2. CASE backend # "libusb"
  BY <1>2 DEF Path
<1> QED
  BY <1>1, <1>2

\* No path is the empty one.
LEMMA PathIsPath ==
    ASSUME backend # "windows", NEW place, NEW device
    PROVE  Path(place, device) # NoPath
BY DEF Path, NoPath

\* While nobody touches the bus, a path leads to the device it was made for.
LEMMA PathLeadsBack ==
    ASSUME EnumerationInv, pc # "idle", NEW device \in AtPath, ~disturbed
    PROVE  device.id = want
<1>1. PICK q \in Places : device = bus[q] /\ Path(q, device) \in path_to_open /\ device # Empty
  BY DEF AtPath
<1>2. PICK r \in OnChain(list) : list.recs[r].id = want /\ Path(q, device) = list.recs[r].path
  BY <1>1 DEF path_to_open, First, Candidates
<1>3. r \in 1 .. Len(list.recs)
  BY <1>2, ChainIsLive DEF EnumerationInv, ListInv
<1>4. PICK place \in Places, seen \in Devices :
         /\ Seen(place, seen) /\ want = seen.id
         /\ Path(q, device) = Path(place, seen) \/ (backend = "mac" /\ Path(q, device) = NoPath)
  <2>1. Recorded(list.recs[r])
    BY <1>3 DEF EnumerationInv, SeenInv
  <2> QED
    BY <1>2, <2>1 DEF Recorded
<1>5. bus[place] = seen /\ seen # Empty
  BY <1>4 DEF Seen, Devices, Empty, Ids
<1>6. Path(q, bus[q]) = Path(place, bus[place])
  BY <1>1, <1>4, <1>5, PathIsPath
<1>7. q = place
  BY <1>1, <1>5, <1>6, PathsApart DEF EnumerationInv
<1> QED
  BY <1>1, <1>4, <1>5, <1>7

\* Only OpenPath makes a handle, and from a path of the list.
LEMMA OpensStep == EnumerationInv /\ [Next]_vars => OpensAsked'
<1> SUFFICES ASSUME EnumerationInv, [Next]_vars, NEW w \in Wallets, handle'[w] # NoHandle
             PROVE  handle'[w].id = handle'[w].asked \/ handle'[w].disturbed
  BY DEF OpensAsked
<1>1. OpensAsked /\ HandleType /\ CallType /\ backend' = backend
  BY BackendStays, Zenon DEF EnumerationInv, TypeOK
<1>2. CASE handle'[w] = handle[w]
  BY <1>1, <1>2 DEF OpensAsked
<1>3. CASE handle'[w] # handle[w]
  <2>1. OpenPath
    <3>1. ASSUME NEW v \in Wallets, Destroy(v) \/ Close(v) PROVE FALSE
      BY <1>1, <1>3, <3>1 DEF Destroy, Close, HandleType
    <3>2. ASSUME NEW v \in Wallets, Construct(v) \/ Begin(v) PROVE FALSE
      BY <1>3, <3>2 DEF Construct, Begin
    <3>3. CASE Scan \/ DropInfos \/ FreeEnumeration \/ BusChange \/ UNCHANGED vars
      BY <1>3, <3>3, Zenon
         DEF Scan, PassOver, AddRecord, AddAnother, AddWithoutPath, AddGarbage, AddAndDrop, EndOfList, Visit, Onward,
             DropInfos, FreeEnumeration, Return, BusChange, vars
    <3> QED
      BY <3>1, <3>2, <3>3 DEF Next
  <2>2. PICK device \in AtPath :
           handle' = [handle EXCEPT ![caller] =
                        [id |-> device.id, asked |-> want,
                         context |-> context', disturbed |-> disturbed]]
    BY <1>3, <2>1 DEF OpenPath
  <2>3. /\ handle'[w].id = device.id /\ handle'[w].asked = want
        /\ handle'[w].disturbed = disturbed
    BY <1>1, <1>3, <2>2 DEF HandleType
  <2>4. pc # "idle" /\ disturbed \in BOOLEAN
    BY <1>1, <2>1, Zenon DEF OpenPath, CallType
  <2>5. CASE ~disturbed
    BY <2>3, <2>4, <2>5, PathLeadsBack, Zenon
  <2>6. CASE disturbed
    BY <2>3, <2>6, Zenon
  <2> QED
    BY <2>5, <2>6
<1> QED
  BY <1>2, <1>3

\* All of the invariant, from its parts.
LEMMA EnumerationNext == EnumerationInv /\ [Next]_vars => EnumerationInv'
<1> SUFFICES ASSUME EnumerationInv, [Next]_vars PROVE EnumerationInv'
  OBVIOUS
<1>1. BusType' /\ HandleType' /\ CallType' /\ AskInv' /\ ScanType'
  BY BusStep, HandleStep, CallStep, ScanStep, Zenon DEF EnumerationInv, TypeOK
<1>2. ListInv' /\ SeenInv' /\ ApartInv' /\ OpensAsked'
  BY ListStep, SeenStep, ApartStep, OpensStep, Zenon DEF EnumerationInv, TypeOK
<1> QED
  BY <1>1, <1>2, Zenon DEF EnumerationInv, TypeOK

\* With one wallet, who ends the global state has closed the handle before.
LEMMA ContextStep ==
    ASSUME HandleType, ContextInv, [Next]_vars, \A v, w \in Wallets : v = w
    PROVE  ContextInv'
<1> SUFFICES ASSUME NEW w \in Wallets, backend' = "libusb", handle'[w] # NoHandle
             PROVE  handle'[w].context = context' /\ context' # 0
  BY DEF ContextInv
<1>1. backend = "libusb"
  BY BackendStays
<1>2. handle[w] # NoHandle => handle[w].context = context /\ context # 0
  BY <1>1, Zenon DEF ContextInv
<1>3. InitSucceeds => context' # 0 /\ (context # 0 => context' = context)
  BY <1>1, EnumerationAssumption DEF InitSucceeds, HasContext, HandleType, contextVars
<1>4. InitFails => context' = context
  BY DEF InitFails, contextVars
<1>5. ASSUME NEW v \in Wallets, Construct(v) \/ Begin(v)
      PROVE  handle'[w].context = context' /\ context' # 0
  <2>1. handle' = handle /\ (InitSucceeds \/ InitFails)
    BY <1>5 DEF Construct, Begin
  <2> QED
    BY <1>2, <1>3, <1>4, <2>1
<1>6. ASSUME NEW v \in Wallets, Destroy(v) \/ Close(v)
      PROVE  FALSE
  <2>1. v = w
    OBVIOUS
  <2>2. handle' = [handle EXCEPT ![w] = NoHandle]
    BY <1>6, <2>1, Zenon DEF Destroy, Close
  <2> QED
    BY <2>2 DEF HandleType
<1>7. CASE OpenPath
  <2>1. CASE handle' = handle /\ (InitSucceeds \/ InitFails \/ UNCHANGED contextVars)
    BY <1>2, <1>3, <1>4, <2>1 DEF contextVars
  <2>2. CASE InitSucceeds /\ \E device \in AtPath :
                handle' = [handle EXCEPT ![caller] =
                             [id |-> device.id, asked |-> want,
                              context |-> context', disturbed |-> disturbed]]
    BY <1>2, <1>3, <2>2 DEF HandleType
  <2> QED
    BY <1>7, <2>1, <2>2 DEF OpenPath
<1>8. CASE Scan \/ DropInfos \/ FreeEnumeration \/ BusChange \/ UNCHANGED vars
  <2>1. UNCHANGED <<handle, context>>
    BY <1>8, Zenon
       DEF Scan, PassOver, AddRecord, AddAnother, AddWithoutPath, AddGarbage, AddAndDrop, EndOfList, Visit, Onward,
           DropInfos, FreeEnumeration, Return, BusChange, vars, contextVars
  <2> QED
    BY <1>2, <2>1
<1> QED
  BY <1>5, <1>6, <1>7, <1>8 DEF Next

-----------------------------------------------------------------------------
(***************************************************************************)
(* Every promised device is listed                                         *)
(***************************************************************************)
\* On mac no record of a device with a path has the empty one.
LEMMA RecordHasPath == \A e : backend = "mac" => Record(e).path # NoPath
BY DEF Record, Path, NoPath

\* While the bus stays, the loop adds a device that is described well, and
\* takes nothing for a device that is not there.
LEMMA WholeIsAdded ==
    ASSUME BusType, SeenInv, left # <<>>, ~disturbed, backend = "windows" => DriverFound
    PROVE  /\ Head(left)[2].make = "whole" => Does(Found(Head(left))) = {"add"}
           /\ "garbage" \notin Does(Found(Head(left)))
<1>1. backend \in AllBackends
  BY EnumerationAssumption DEF BusType
<1>2. Head(left)[2] \in Devices /\ bus[Head(left)[1]] = Head(left)[2]
  <2>1. Head(left) \in Places \X Devices /\ Seen(Head(left)[1], Head(left)[2])
    BY HeadListed
  <2> QED
    BY <2>1 DEF Seen
<1>3. Found(Head(left)) = Head(left)[2].make
  BY <1>2 DEF Found
<1>4. Found(Head(left)) \in {"whole", "bare", "odd"}
  BY <1>2, <1>3, EnumerationAssumption DEF Devices
<1>5. Found(Head(left)) = "whole" => Does(Found(Head(left))) = {"add"}
  BY <1>1 DEF AllBackends, Does, LinuxDoes, WindowsDoes, LibusbDoes, MacDoes
<1>6. "garbage" \notin Does(Found(Head(left)))
  BY <1>1, <1>4 DEF AllBackends, Does, LinuxDoes, WindowsDoes, LibusbDoes, MacDoes
<1> QED
  BY <1>3, <1>5, <1>6

\* A device that is not promised is passed over, or its record taken off again.
LEMMA FilledPassing ==
    ASSUME NEW l, NEW m, NEW s, NEW n \in Nat, Filled(l, s, n), ~Wanted(s[n + 1]),
           m.live = l.live, \A r \in l.live : m.recs[r] = l.recs[r]
    PROVE  Filled(m, s, n + 1)
<1>1. OfAsked(m) /\ InOrder(m, s)
  BY DEF Filled, OfAsked, InOrder
<1>2. OfVisited(m, s, n + 1)
  <2>1. \A k \in 1 .. Len(s) : Visited(k, n) => Visited(k, n + 1)
    BY DEF Visited
  <2> QED
    BY <2>1 DEF Filled, OfVisited
<1>3. AllWanted(m, s, n + 1)
  <2> SUFFICES ASSUME NEW k \in 1 .. n + 1, Wanted(s[k])
               PROVE  \E r \in m.live : m.recs[r] = Record(s[k])
    BY DEF AllWanted
  <2>1. k \in 1 .. n
    OBVIOUS
  <2> QED
    BY <2>1 DEF Filled, AllWanted
<1> QED
  BY <1>1, <1>2, <1>3 DEF Filled

\* m is l with one more record, r, for the device that follows the first n.
OneMore(l, m, s, n, r) ==
    /\ r \in Nat /\ m.live = l.live \cup {r}
    /\ \A q \in l.live : q \in Nat /\ q < r /\ m.recs[q] = l.recs[q]
    /\ Match(want, m.recs[r].id)
    /\ \/ m.recs[r] = Record(s[n + 1])
       \/ backend = "mac" /\ m.recs[r].path = NoPath /\ ~Wanted(s[n + 1])

\* A record is added behind those of the devices before, and on libusb perhaps
\* behind others of the same device.
LEMMA InOrderAdding ==
    ASSUME NEW l, NEW m, NEW s, NEW n \in Nat, Filled(l, s, n), n + 1 \in 1 .. Len(s),
           NEW r, OneMore(l, m, s, n, r), Apart(s)
    PROVE  InOrder(m, s)
<1> USE DEF OneMore
<1> SUFFICES ASSUME NEW p \in m.live, NEW q \in m.live,
                    NEW j \in 1 .. Len(s), NEW k \in 1 .. Len(s), p < q,
                    m.recs[p].path = Record(s[j]).path, m.recs[q].path = Record(s[k]).path
             PROVE  j < k \/ (j = k /\ backend = "libusb")
  BY Zenon DEF InOrder
<1>1. CASE q # r /\ p # r
  <2>1. p \in l.live /\ q \in l.live /\ m.recs[p] = l.recs[p] /\ m.recs[q] = l.recs[q]
    BY <1>1
  <2> QED
    BY <2>1 DEF Filled, InOrder
<1>2. CASE q = r
  <2>1. p \in l.live /\ l.recs[p].path = Record(s[j]).path
    BY <1>2
  <2>2. k = n + 1
    BY <1>2, RecordHasPath DEF Apart
  <2>3. PICK i \in 1 .. Len(s) : Visited(i, n) /\ l.recs[p] = Record(s[i])
    BY <2>1, RecordHasPath DEF Filled, OfVisited
  <2>4. i = j
    <3>1. Record(s[i]).path = Record(s[j]).path
      BY <2>1, <2>3
    <3> QED
      BY <3>1, Zenon DEF Apart
  <2> QED
    BY <2>2, <2>3, <2>4 DEF Visited
<1>3. CASE p = r /\ q # r
  BY <1>3
<1> QED
  BY <1>1, <1>2, <1>3

\* With its last record, the device is visited.
LEMMA FilledAdding ==
    ASSUME NEW l, NEW m, NEW s, NEW n \in Nat, Filled(l, s, n), n + 1 \in 1 .. Len(s),
           NEW r, OneMore(l, m, s, n, r), Apart(s)
    PROVE  Filled(m, s, n + 1)
<1>1. InOrder(m, s)
  BY InOrderAdding
<1> USE DEF OneMore
<1>2. OfAsked(m)
  BY DEF Filled, OfAsked
<1>3. OfVisited(m, s, n + 1)
  <2>1. /\ Visited(n + 1, n + 1)
        /\ \A k \in 1 .. Len(s) : Visited(k, n) => Visited(k, n + 1)
    BY DEF Visited
  <2> QED
    BY <2>1 DEF Filled, OfVisited
<1>4. AllWanted(m, s, n + 1)
  <2> SUFFICES ASSUME NEW k \in 1 .. n + 1, Wanted(s[k])
               PROVE  \E q \in m.live : m.recs[q] = Record(s[k])
    BY DEF AllWanted
  <2>1. CASE k = n + 1
    BY <2>1
  <2>2. CASE k \in 1 .. n
    BY <2>2 DEF Filled, AllWanted
  <2> QED
    BY <2>1, <2>2
<1> QED
  BY <1>1, <1>2, <1>3, <1>4 DEF Filled

\* With another before the last, it is not.
LEMMA FilledAnother ==
    ASSUME NEW l, NEW m, NEW s, NEW n \in Nat, Filled(l, s, n), n + 1 \in 1 .. Len(s),
           NEW r, OneMore(l, m, s, n, r), Apart(s), backend = "libusb"
    PROVE  Filled(m, s, n)
<1>1. InOrder(m, s)
  BY InOrderAdding
<1> USE DEF OneMore
<1>2. OfAsked(m)
  BY DEF Filled, OfAsked
<1>3. OfVisited(m, s, n)
  <2>1. Visited(n + 1, n)
    BY DEF Visited
  <2> QED
    BY <2>1 DEF Filled, OfVisited
<1>4. AllWanted(m, s, n)
  BY DEF Filled, AllWanted
<1> QED
  BY <1>1, <1>2, <1>3, <1>4 DEF Filled

\* What a record of a device is depends on the backend only.
LEMMA RecordStays == backend' = backend => \A e : Record(e)' = Record(e)
BY Zenon DEF Record, Path

LEMMA ApartStays == Apart(scan) /\ UNCHANGED <<backend, scan>> => Apart(scan)'
BY RecordStays DEF Apart

\* What the list promises does not depend on the bus.
LEMMA FilledStays ==
    ASSUME NEW l, NEW s, NEW n, Filled(l, s, n), backend' = backend, want' = want
    PROVE  Filled(l, s, n)'
<1>1. \A e : Record(e)' = Record(e) /\ (Wanted(e)' <=> Wanted(e))
  BY Zenon DEF Record, Path, Wanted, Match
<1> QED
  BY <1>1, Zenon DEF Filled, OfAsked, OfVisited, Visited, AllWanted, InOrder, Match

\* In particular the list there is after the step.
LEMMA FilledNext ==
    ASSUME NEW l, NEW s, NEW n, Filled(l, s, n), backend' = backend, want' = want,
           list' = l, scan' = s, Len(scan') - Len(left') = n
    PROVE  Filled(list, scan, Len(scan) - Len(left))'
<1>1. Filled(l, s, n)'
  BY FilledStays
<1>2. OfAsked(list)'
  BY <1>1, Zenon DEF Filled, OfAsked
<1>3. OfVisited(list, scan, Len(scan) - Len(left))'
  BY <1>1, Zenon DEF Filled, OfVisited
<1>4. AllWanted(list, scan, Len(scan) - Len(left))'
  BY <1>1, Zenon DEF Filled, AllWanted
<1>5. InOrder(list, scan)'
  <2>1. InOrder(l, s)'
    BY <1>1, Zenon DEF Filled
  <2> QED
    BY <2>1 DEF InOrder
<1> QED
  BY <1>2, <1>3, <1>4, <1>5, Zenon DEF Filled

\* The system lists a device once, and no two under one path.
LEMMA OrdersApart ==
    ASSUME BusType, ApartInv, NEW s \in Orders
    PROVE  Apart(s)
<1>1. PICK n \in Nat :
         /\ s \in [1 .. n -> Entries]
         /\ \A j, k \in 1 .. n : j # k => s[j] # s[k]
  BY EntriesFinite, Zenon DEF Orders
<1>2. Len(s) = n
  <2>1. DOMAIN s = 1 .. n
    BY <1>1
  <2> QED
    BY <2>1
<1>3. ASSUME NEW e \in Entries, NEW f \in Entries, Record(e).path = Record(f).path PROVE e = f
  <2>1. PICK p \in Places, q \in Places :
           e = <<p, bus[p]>> /\ f = <<q, bus[q]>> /\ bus[p] # Empty /\ bus[q] # Empty
    BY DEF Entries
  <2>2. Record(e).path = Path(p, bus[p]) /\ Record(f).path = Path(q, bus[q])
    BY <2>1 DEF Record
  <2>3. p = q
    BY <1>3, <2>1, <2>2, PathsApart
  <2> QED
    BY <2>1, <2>3
<1>4. ASSUME NEW j \in 1 .. n, NEW k \in 1 .. n, Record(s[j]).path = Record(s[k]).path
      PROVE  j = k
  <2>1. s[j] \in Entries /\ s[k] \in Entries
    BY <1>1
  <2>2. s[j] = s[k]
    BY <1>3, <1>4, <2>1
  <2> QED
    BY <1>1, <2>2, Zenon
<1> QED
  BY <1>2, <1>4 DEF Apart

\* The device that the loop comes to is the first it has not visited.
LEMMA HeadIsNext ==
    ASSUME ScanType, SeenInv, left # <<>>
    PROVE  \E n \in Nat :
               /\ n = Len(scan) - Len(left)
               /\ n + 1 \in 1 .. Len(scan) /\ Head(left) = scan[n + 1]
               /\ Len(scan) - Len(Tail(left)) = n + 1
<1>1. PICK n \in 0 .. Len(scan) : left = SubSeq(scan, n + 1, Len(scan))
  BY DEF ScanType
<1>2. scan \in Seq(Places \X Devices) /\ left \in Seq(Places \X Devices)
  BY DEF SeenInv
<1>3. left = [k \in 1 .. Len(scan) - n |-> scan[n + k]]
  BY <1>1, <1>2
<1>4. Len(left) = Len(scan) - n
  BY <1>2, <1>3
<1>5. n < Len(scan)
  BY <1>2, <1>4
<1>6. Head(left) = scan[n + 1]
  <2>1. Head(left) = left[1] /\ 1 \in 1 .. Len(scan) - n
    BY <1>2, <1>5
  <2> QED
    BY <1>3, <2>1
<1>7. Len(Tail(left)) = Len(left) - 1
  BY <1>2
<1>8. PICK a \in Nat, b \in Nat, c \in Nat : a = Len(scan) /\ b = Len(left) /\ c = Len(Tail(left))
  <2>1. Len(scan) \in Nat /\ Len(left) \in Nat
    BY <1>2, LenProperties
  <2>2. Tail(left) \in Seq(Places \X Devices)
    BY HeadListed
  <2>3. Len(Tail(left)) \in Nat
    BY <2>2, LenProperties
  <2> QED
    BY <2>1, <2>3
<1>9. b = a - n /\ c = b - 1 /\ n \in Nat /\ n < a
  BY <1>1, <1>4, <1>5, <1>7, <1>8
<1>10. n = a - b /\ a - c = n + 1 /\ n + 1 \in 1 .. a
  BY <1>9
<1> QED
  BY <1>6, <1>8, <1>9, <1>10, Zenon

\* Linked behind the last, and with the last link undone, it leads forward.
LEMMA AppendedForward ==
    ASSUME NEW l, ListType(l), Linked(l), l.live \subseteq 1 .. Len(l.recs), Forward(l),
           NEW rec \in [path : Paths, id : Ids]
    PROVE  Forward(Appended(l, rec))
<1> DEFINE r == Len(l.recs) + 1
<1>1. /\ Len(l.recs) \in Nat /\ l.cur \in 0 .. Len(l.recs)
      /\ l.recs \in Seq([path : Paths, id : Ids])
  BY DEF ListType, Linked
<1>2. /\ Appended(l, rec).recs = Append(l.recs, rec)
      /\ Appended(l, rec).next =
           [k \in 1 .. r |-> IF k = l.cur THEN r ELSE IF k = r THEN 0 ELSE l.next[k]]
  BY Zenon DEF Appended
<1>3. Len(Appended(l, rec).recs) = r
  BY <1>1, <1>2
<1>4. ASSUME NEW k \in 1 .. r
      PROVE  Appended(l, rec).next[k] = 0 \/ Appended(l, rec).next[k] > k
  <2>1. CASE k = r
    BY <1>1, <1>2, <2>1
  <2>2. CASE k # r
    <3>1. k \in 1 .. Len(l.recs) /\ r > k
      BY <1>1, <2>2
    <3> QED
      BY <1>2, <2>2, <3>1 DEF Forward
  <2> QED
    BY <2>1, <2>2
<1> QED
  BY <1>3, <1>4 DEF Forward

\* A record that leads forward only does not lead to one before it.
LEMMA ForwardOnly ==
    ASSUME ListType(list), list.live \subseteq 1 .. Len(list.recs), Forward(list),
           NEW q \in list.live, NEW r \in list.live, q < r
    PROVE  q \notin Reached(list, r)
<1> DEFINE S == {k \in 1 .. Len(list.recs) : k >= r}
<1>1. /\ Len(list.recs) \in Nat
      /\ list.next \in [1 .. Len(list.recs) -> 0 .. Len(list.recs)]
      /\ q \in 1 .. Len(list.recs) /\ r \in 1 .. Len(list.recs)
  BY DEF ListType
<1>2. S \in SUBSET DOMAIN list.next /\ r \in S /\ q \notin S
  BY <1>1
<1>3. ASSUME NEW k \in S PROVE list.next[k] = 0 \/ list.next[k] \in S
  <2>1. k \in 1 .. Len(list.recs) /\ list.next[k] \in 0 .. Len(list.recs)
    BY <1>1
  <2>2. list.next[k] = 0 \/ list.next[k] > k
    BY <2>1 DEF Forward
  <2> QED
    BY <1>1, <2>1, <2>2
<1>4. Closed(list, S)
  BY <1>3 DEF Closed
<1> QED
  BY <1>2, <1>4, Zenon DEF Reached

\* There is no list yet.
LEMMA CompleteInit == Init => CompleteInv
BY DEF Init, CompleteInv, Apart, Forward, NoList

\* A step that leaves the list and the way along it alone.
LEMMA CompleteStays ==
    ASSUME CompleteInv, UNCHANGED <<backend, want, list, scan, left>>, disturbed => disturbed',
           \/ pc' = pc
           \/ pc = "scan" /\ pc' = "listed" /\ left = <<>>
           \/ pc' = "opened"
    PROVE  CompleteInv'
<1>1. /\ Apart(scan)'
      /\ Forward(list)'
      /\ pc' = "listed" => left' = <<>>
  BY ApartStays DEF CompleteInv, Forward
<1>2. ASSUME pc' \in {"scan", "listed"}, ~disturbed', backend' = "windows" => DriverFound'
      PROVE  Filled(list, scan, Len(scan) - Len(left))'
  <2>1. pc \in {"scan", "listed"} /\ ~disturbed /\ (backend = "windows" => DriverFound)
    BY <1>2 DEF DriverFound
  <2>2. Filled(list, scan, Len(scan) - Len(left))
    BY <2>1, Zenon DEF CompleteInv
  <2>3. PICK l, s, n : l = list /\ s = scan /\ n = Len(scan) - Len(left)
    OBVIOUS
  <2>4. Filled(l, s, n)
    BY <2>2, <2>3
  <2>5. list' = l /\ scan' = s /\ Len(scan') - Len(left') = n
    BY <2>3
  <2> QED
    BY <2>4, <2>5, FilledNext
<1> QED
  BY <1>1, <1>2, Zenon DEF CompleteInv

\* A turn of the loop that makes l of the list, after which the records of the
\* first m devices are there.
LEMMA CompleteTurns ==
    ASSUME CompleteInv, NEW what, Visit(what), NEW l, list' = l, Forward(l),
           ASSUME ~disturbed, backend = "windows" => DriverFound,
                  Filled(list, scan, Len(scan) - Len(left))
           PROVE  Filled(l, scan, Len(scan) - Len(left'))
    PROVE  CompleteInv'
<1>1. /\ pc = "scan" /\ left # <<>>
      /\ UNCHANGED <<scan, disturbed, backend, pc, want>>
  BY Zenon DEF Visit, callVars
<1>2. /\ Apart(scan)'
      /\ Forward(list)'
      /\ pc' # "listed"
  BY <1>1, ApartStays DEF CompleteInv, Forward
<1>3. ASSUME ~disturbed', backend' = "windows" => DriverFound'
      PROVE  Filled(list, scan, Len(scan) - Len(left))'
  <2>1. ~disturbed /\ (backend = "windows" => DriverFound)
    BY <1>1, <1>3 DEF DriverFound
  <2>2. Filled(list, scan, Len(scan) - Len(left))
    BY <1>1, <2>1, Zenon DEF CompleteInv
  <2>3. Filled(l, scan, Len(scan) - Len(left'))
    BY <2>1, <2>2
  <2>4. PICK s, m : s = scan /\ m = Len(scan) - Len(left')
    OBVIOUS
  <2>5. Filled(l, s, m)
    BY <2>3, <2>4
  <2>6. list' = l /\ scan' = s /\ Len(scan') - Len(left') = m
    BY <1>1, <2>4
  <2> QED
    BY <1>1, <2>5, <2>6, FilledNext
<1> QED
  BY <1>2, <1>3, Zenon DEF CompleteInv

\* A turn that goes on to the next device.
LEMMA CompleteVisits ==
    ASSUME CompleteInv, SeenInv, ScanType, NEW what, Visit(what), Onward,
           NEW l, list' = l, Forward(l),
           ASSUME NEW n \in Nat, n + 1 \in 1 .. Len(scan), Head(left) = scan[n + 1],
                  Filled(list, scan, n), ~disturbed, backend = "windows" => DriverFound
           PROVE  Filled(l, scan, n + 1)
    PROVE  CompleteInv'
<1>1. left # <<>> /\ left' = Tail(left)
  BY Zenon DEF Visit, Onward
<1>2. ASSUME ~disturbed, backend = "windows" => DriverFound,
             Filled(list, scan, Len(scan) - Len(left))
      PROVE  Filled(l, scan, Len(scan) - Len(left'))
  <2>1. PICK n \in Nat : /\ n = Len(scan) - Len(left)
                         /\ n + 1 \in 1 .. Len(scan) /\ Head(left) = scan[n + 1]
                         /\ Len(scan) - Len(Tail(left)) = n + 1
    BY <1>1, HeadIsNext
  <2>2. Filled(l, scan, n + 1)
    BY <1>2, <2>1
  <2> QED
    BY <1>1, <2>1, <2>2
<1> QED
  BY <1>2, CompleteTurns

\* What a turn that adds a record of the device, or on mac one without a path,
\* makes of the list.
LEMMA CompleteGrows ==
    ASSUME CompleteInv, ListInv, SeenInv, ScanType, BusType, NEW what, Visit(what),
           NEW rec \in [path : Paths, id : Ids], NEW l, l = Appended(list, rec),
           Match(want, rec.id),
           \/ rec = Record(Head(left))
           \/ backend = "mac" /\ rec.path = NoPath /\ what # "add"
    PROVE  /\ Forward(l)
           /\ \A n \in Nat :
                (/\ n + 1 \in 1 .. Len(scan) /\ Head(left) = scan[n + 1]
                 /\ ~disturbed /\ (backend = "windows" => DriverFound))
                  => OneMore(list, l, scan, n, Len(list.recs) + 1)
<1>1. pc = "scan" /\ left # <<>> /\ what \in Does(Found(Head(left)))
  BY Zenon DEF Visit
<1>2. ListType(list) /\ list.live \subseteq 1 .. Len(list.recs) /\ Linked(list)
  BY <1>1, Zenon DEF ListInv
<1>3. Forward(l)
  BY <1>2, AppendedForward DEF CompleteInv
<1>4. ASSUME NEW n \in Nat, n + 1 \in 1 .. Len(scan), Head(left) = scan[n + 1],
             ~disturbed, backend = "windows" => DriverFound
      PROVE  OneMore(list, l, scan, n, Len(list.recs) + 1)
  <2> DEFINE r == Len(list.recs) + 1
  <2>1. list.recs \in Seq([path : Paths, id : Ids]) /\ Len(list.recs) \in Nat
    BY <1>2 DEF ListType
  <2>2. l.live = list.live \cup {r} /\ l.recs = Append(list.recs, rec)
    BY Zenon DEF Appended
  <2>3. r \in Nat /\ l.recs[r] = rec
    BY <2>1, <2>2
  <2>4. \A q \in list.live : q \in Nat /\ q < r /\ l.recs[q] = list.recs[q]
    BY <1>2, <2>1, <2>2
  <2>5. what # "add" => ~Wanted(scan[n + 1])
    BY <1>1, <1>4, WholeIsAdded DEF Wanted
  <2>6. \/ l.recs[r] = Record(scan[n + 1])
        \/ backend = "mac" /\ l.recs[r].path = NoPath /\ ~Wanted(scan[n + 1])
    BY <1>4, <2>3, <2>5
  <2> HIDE DEF r
  <2>7. OneMore(list, l, scan, n, r)
    BY <2>2, <2>3, <2>4, <2>6 DEF OneMore
  <2> QED
    BY <2>7 DEF r
<1> QED
  BY <1>3, <1>4

\* With the last record of a device the loop goes on.
LEMMA CompleteAdds ==
    ASSUME CompleteInv, ListInv, SeenInv, ScanType, BusType, NEW what, Visit(what), Onward,
           NEW rec \in [path : Paths, id : Ids], list' = Appended(list, rec),
           Match(want, rec.id),
           \/ rec = Record(Head(left))
           \/ backend = "mac" /\ rec.path = NoPath /\ what # "add"
    PROVE  CompleteInv'
<1>1. PICK l : l = Appended(list, rec)
  OBVIOUS
<1>2. Forward(l)
  BY <1>1, CompleteGrows
<1>3. ASSUME NEW n \in Nat, n + 1 \in 1 .. Len(scan), Head(left) = scan[n + 1],
             Filled(list, scan, n), ~disturbed, backend = "windows" => DriverFound
      PROVE  Filled(l, scan, n + 1)
  <2>1. OneMore(list, l, scan, n, Len(list.recs) + 1)
    BY <1>1, <1>3, CompleteGrows
  <2> QED
    BY <1>3, <2>1, FilledAdding DEF CompleteInv
<1> QED
  BY <1>1, <1>2, <1>3, CompleteVisits

\* With one before the last, on libusb, it stays.
LEMMA CompleteAddsAnother ==
    ASSUME CompleteInv, ListInv, SeenInv, ScanType, BusType, AddAnother,
           NEW rec \in [path : Paths, id : Ids], rec = Record(Head(left)), Match(want, rec.id)
    PROVE  CompleteInv'
<1>1. /\ Visit("add") /\ left # <<>> /\ left' = left /\ backend = "libusb"
      /\ list' = Appended(list, rec)
  BY Zenon DEF AddAnother, Visit
<1>2. PICK l : l = Appended(list, rec)
  OBVIOUS
<1>3. Forward(l)
  BY <1>1, <1>2, CompleteGrows
<1>4. ASSUME ~disturbed, backend = "windows" => DriverFound,
             Filled(list, scan, Len(scan) - Len(left))
      PROVE  Filled(l, scan, Len(scan) - Len(left'))
  <2>1. PICK n \in Nat : /\ n = Len(scan) - Len(left)
                         /\ n + 1 \in 1 .. Len(scan) /\ Head(left) = scan[n + 1]
    BY <1>1, HeadIsNext
  <2>2. OneMore(list, l, scan, n, Len(list.recs) + 1)
    BY <1>1, <1>2, <1>4, <2>1, CompleteGrows
  <2>3. Filled(l, scan, n)
    BY <1>1, <1>4, <2>1, <2>2, FilledAnother DEF CompleteInv
  <2> QED
    BY <1>1, <2>1, <2>3
<1> QED
  BY <1>1, <1>2, <1>3, <1>4, CompleteTurns

\* One case per action: the promised devices before the next have their records.
LEMMA CompleteStep == EnumerationInv /\ CompleteInv /\ [Next]_vars => CompleteInv'
<1> SUFFICES ASSUME EnumerationInv, CompleteInv, [Next]_vars PROVE CompleteInv'
  OBVIOUS
<1>1. ListInv /\ SeenInv /\ ScanType /\ BusType /\ ApartInv
  BY Zenon DEF EnumerationInv, TypeOK
<1>2. ASSUME NEW w \in Wallets, Begin(w) PROVE CompleteInv'
  <2>1. /\ list' = NoList /\ left' = scan'
        /\ scan' \in Orders \/ (scan' = <<>> /\ pc' = "listed")
        /\ pc' = "listed" => scan' = <<>>
        /\ backend' = backend
    BY <1>2 DEF Begin
  <2>2. Apart(scan)'
    <3>1. CASE scan' = <<>>
      BY <3>1 DEF Apart
    <3>2. CASE scan' \in Orders
      <4>1. Apart(scan')
        BY <1>1, <3>2, OrdersApart
      <4> QED
        BY <2>1, <4>1, RecordStays DEF Apart
    <3> QED
      BY <2>1, <3>1, <3>2
  <2>3. Len(scan') \in Nat
    <3>1. CASE scan' = <<>>
      BY <3>1
    <3>2. CASE scan' \in Orders
      BY <1>1, <3>2, OrdersListTheBus
    <3> QED
      BY <2>1, <3>1, <3>2
  <2>4. Len(scan') - Len(left') = 0
    BY <2>1, <2>3
  <2>5. Filled(list, scan, Len(scan) - Len(left))'
    BY <2>1, <2>4 DEF Filled, OfAsked, OfVisited, AllWanted, InOrder, NoList
  <2>6. Forward(list)'
    BY <2>1 DEF Forward, NoList
  <2> QED
    BY <2>1, <2>2, <2>5, <2>6, Zenon DEF CompleteInv
<1>3. ASSUME NEW w \in Wallets, Construct(w) \/ Destroy(w) \/ Close(w) PROVE CompleteInv'
  <2>1. UNCHANGED <<backend, want, list, scan, left, pc, disturbed>>
    BY <1>3, Zenon DEF Construct, Destroy, Close, callVars
  <2> QED
    BY <2>1, CompleteStays
<1>4. CASE PassOver
  <2>1. PICK what : Visit(what) /\ (what # "skip" => ~Asked) /\ Onward /\ list' = list
    BY <1>4 DEF PassOver
  <2>2. PICK l : l = list
    OBVIOUS
  <2>3. Forward(l)
    BY <2>2 DEF CompleteInv
  <2>4. ASSUME NEW n \in Nat, n + 1 \in 1 .. Len(scan), Head(left) = scan[n + 1],
               Filled(list, scan, n), ~disturbed, backend = "windows" => DriverFound
        PROVE  Filled(l, scan, n + 1)
    <3>1. left # <<>> /\ what \in Does(Found(Head(left)))
      BY <2>1, Zenon DEF Visit
    <3>2. Head(left)[2].make = "whole" => what = "add"
      BY <1>1, <2>4, <3>1, WholeIsAdded
    <3>3. ~Wanted(scan[n + 1])
      BY <2>1, <2>4, <3>2 DEF Wanted, Asked
    <3> QED
      BY <2>2, <2>4, <3>3, FilledPassing
  <2> QED
    BY <1>1, <2>1, <2>2, <2>3, <2>4, CompleteVisits
<1>5. ASSUME left # <<>>
      PROVE  /\ Record(Head(left)) \in [path : Paths, id : Ids]
             /\ Record(Head(left)).id = Head(left)[2].id
  BY <1>1, <1>5, HeadListed DEF Record
<1>6. CASE AddRecord \/ AddAnother
  <2>1. Visit("add") /\ left # <<>> /\ Match(want, Head(left)[2].id)
    BY <1>6, Zenon DEF AddRecord, AddAnother, Visit, Asked
  <2>2. Match(want, Record(Head(left)).id)
    BY <1>5, <2>1
  <2>3. CASE AddRecord
    <3>1. Onward /\ list' = Appended(list, Record(Head(left)))
      BY <2>3, Zenon DEF AddRecord
    <3> QED
      BY <1>1, <1>5, <2>1, <2>2, <3>1, CompleteAdds
  <2>4. CASE AddAnother
    BY <1>1, <1>5, <2>1, <2>2, <2>4, CompleteAddsAnother
  <2> QED
    BY <1>6, <2>3, <2>4
<1>7. CASE AddWithoutPath
  <2>1. PICK rec : rec = [Record(Head(left)) EXCEPT !.path = NoPath]
    OBVIOUS
  <2>2. /\ Visit("no_path") /\ Onward /\ left # <<>> /\ Match(want, Head(left)[2].id)
        /\ list' = Appended(list, rec)
    BY <1>7, <2>1, Zenon DEF AddWithoutPath, Visit, Asked
  <2>3. rec \in [path : Paths, id : Ids] /\ rec.path = NoPath /\ rec.id = Head(left)[2].id
    <3>1. NoPath \in Paths
      BY DEF Paths
    <3> QED
      BY <1>5, <2>1, <2>2, <3>1
  <2>4. backend = "mac" /\ Match(want, rec.id)
    BY <1>1, <1>7, <2>2, <2>3, PathlessOnMac
  <2> QED
    BY <1>1, <2>2, <2>3, <2>4, CompleteAdds
<1>8. CASE AddGarbage
  <2>1. PICK id \in Ids : Match(want, id) /\ list' = Appended(list, [Record(Head(left)) EXCEPT !.id = id])
    BY <1>8 DEF AddGarbage
  <2>2. PICK rec : rec = [Record(Head(left)) EXCEPT !.id = id]
    OBVIOUS
  <2>3. Visit("garbage") /\ Onward /\ left # <<>> /\ "garbage" \in Does(Found(Head(left)))
    BY <1>8, Zenon DEF AddGarbage, Visit
  <2>4. /\ rec \in [path : Paths, id : Ids] /\ rec.id = id
        /\ rec.path = Record(Head(left)).path
    BY <1>5, <2>2, <2>3
  <2>5. PICK l : l = Appended(list, rec)
    OBVIOUS
  <2>6. Forward(l)
    <3>1. pc = "scan"
      BY <2>3, Zenon DEF Visit
    <3>2. ListType(list) /\ list.live \subseteq 1 .. Len(list.recs) /\ Linked(list)
      BY <1>1, <3>1, Zenon DEF ListInv
    <3> QED
      BY <2>4, <2>5, <3>2, AppendedForward DEF CompleteInv
  <2>7. ~disturbed /\ (backend = "windows" => DriverFound) => FALSE
    BY <1>1, <2>3, WholeIsAdded
  <2> QED
    BY <1>1, <2>1, <2>2, <2>3, <2>5, <2>6, <2>7, CompleteVisits
<1>9. CASE AddAndDrop
  <2> DEFINE rec == Record(Head(left))
             m   == Appended(list, rec)
  <2>1. /\ Visit("drop") /\ Onward /\ left # <<>> /\ pc = "scan"
        /\ "drop" \in Does(Found(Head(left)))
    BY <1>9, Zenon DEF AddAndDrop, Visit
  <2>2. ListType(list) /\ list.live \subseteq 1 .. Len(list.recs) /\ Linked(list)
    BY <1>1, <2>1, Zenon DEF ListInv
  <2>3. PICK l : l = Dropped(m)
    OBVIOUS
  <2>4. /\ list.recs \in Seq([path : Paths, id : Ids]) /\ Len(list.recs) \in Nat
        /\ rec \in [path : Paths, id : Ids]
    BY <1>5, <2>1, <2>2 DEF ListType
  <2>5. /\ m.recs = Append(list.recs, rec) /\ m.cur = Len(list.recs) + 1
        /\ m.live = list.live \cup {Len(list.recs) + 1}
        /\ m.next \in [DOMAIN m.next -> Nat] /\ DOMAIN m.next = 1 .. Len(m.recs)
        /\ DOMAIN m = {"recs", "next", "live", "root", "cur", "prev"}
    <3>1. ListType(m)
      BY <2>2, <2>4, AppendedLinked
    <3>2. m.next \in [1 .. Len(m.recs) -> 0 .. Len(m.recs)] /\ Len(m.recs) \in Nat
      BY <3>1 DEF ListType
    <3>3. /\ m.recs = Append(list.recs, rec) /\ m.cur = Len(list.recs) + 1
          /\ m.live = list.live \cup {Len(list.recs) + 1}
          /\ DOMAIN m = {"recs", "next", "live", "root", "cur", "prev"}
      BY DEF Appended
    <3> HIDE DEF m
    <3> QED
      BY <3>2, <3>3
  <2>6. Forward(m)
    BY <2>2, <2>4, AppendedForward DEF CompleteInv
  <2> HIDE DEF m
  <2>7. /\ l.recs = m.recs /\ l.live = m.live \ {m.cur}
        /\ l.next = [k \in DOMAIN m.next |-> IF k = m.prev THEN 0 ELSE m.next[k]]
    BY <2>3, <2>5 DEF Dropped
  <2>8. Forward(l)
    BY <2>5, <2>6, <2>7 DEF Forward
  <2>9. l.live = list.live /\ \A q \in list.live : l.recs[q] = list.recs[q]
    BY <2>2, <2>4, <2>5, <2>7
  <2>10. ASSUME NEW n \in Nat, n + 1 \in 1 .. Len(scan), Head(left) = scan[n + 1],
                Filled(list, scan, n), ~disturbed, backend = "windows" => DriverFound
         PROVE  Filled(l, scan, n + 1)
    <3>1. Head(left)[2].make # "whole"
      BY <1>1, <2>1, <2>10, WholeIsAdded
    <3>2. ~Wanted(scan[n + 1])
      BY <2>10, <3>1 DEF Wanted
    <3> QED
      BY <2>9, <2>10, <3>2, FilledPassing
  <2>11. list' = l
    BY <1>9, <2>3, Zenon DEF AddAndDrop, m
  <2> QED
    BY <1>1, <2>1, <2>8, <2>10, <2>11, CompleteVisits
<1>10. CASE EndOfList
  BY <1>10, CompleteStays, Zenon DEF EndOfList
<1>11. CASE DropInfos \/ FreeEnumeration
  <2>1. PICK l : list' = [NoList EXCEPT !.live = l.live] /\ scan' = <<>> /\ pc' = "idle"
    BY <1>11 DEF DropInfos, FreeEnumeration, Return
  <2>2. list'.recs = <<>>
    BY <2>1 DEF NoList
  <2> QED
    BY <2>1, <2>2 DEF CompleteInv, Apart, Forward
<1>12. CASE OpenPath
  BY <1>12, CompleteStays, Zenon DEF OpenPath
<1>13. CASE BusChange
  BY <1>13, CompleteStays, Zenon DEF BusChange, callVars
<1>14. CASE UNCHANGED vars
  BY <1>14, CompleteStays, Zenon DEF vars, callVars
<1> QED
  BY <1>2, <1>3, <1>4, <1>6, <1>7, <1>8, <1>9, <1>10, <1>11, <1>12, <1>13, <1>14
     DEF Next, Scan

\* At the end of the loop all have been visited.
LEMMA CompleteAtEnd == EnumerationInv /\ CompleteInv => ListIsComplete
<1> SUFFICES ASSUME EnumerationInv, CompleteInv,
                    pc = "listed", ~disturbed, backend = "windows" => DriverFound
             PROVE  /\ \A r \in OnChain(list) : Match(want, list.recs[r].id)
                    /\ \A k \in Promised :
                         /\ RecordsOf(k) # {}
                         /\ \A q, r \in RecordsOf(k) :
                              list.recs[r] = Record(scan[k]) /\ (q = r \/ backend = "libusb")
                    /\ \A j, k \in Promised : j < k =>
                         \A q \in RecordsOf(j), r \in RecordsOf(k) : q \notin Reached(list, r)
  BY Zenon DEF ListIsComplete
<1>1. /\ ListType(list) /\ list.live \subseteq 1 .. Len(list.recs) /\ Linked(list)
      /\ scan \in Seq(Places \X Devices)
  BY Zenon DEF EnumerationInv, ListInv, SeenInv
<1>2. OnChain(list) = list.live
  BY <1>1, ChainIsLive
<1>3. list.live \subseteq Nat
  BY <1>1
<1>4. Len(scan) - Len(left) = Len(scan)
  BY <1>1 DEF CompleteInv
<1>5. Filled(list, scan, Len(scan))
  BY <1>4, Zenon DEF CompleteInv
<1>6. ASSUME NEW j \in 1 .. Len(scan), NEW k \in 1 .. Len(scan),
             NEW q \in RecordsOf(j), NEW r \in RecordsOf(k), q < r
      PROVE  j < k \/ (j = k /\ backend = "libusb")
  BY <1>2, <1>5, <1>6 DEF RecordsOf, Filled, InOrder
<1>7. \A r \in OnChain(list) : Match(want, list.recs[r].id)
  BY <1>2, <1>5, Zenon DEF Filled, OfAsked
<1>8. ASSUME NEW k \in Promised
      PROVE  /\ RecordsOf(k) # {}
             /\ \A q, r \in RecordsOf(k) :
                  list.recs[r] = Record(scan[k]) /\ (q = r \/ backend = "libusb")
  <2>1. k \in 1 .. Len(scan) /\ Wanted(scan[k])
    BY DEF Promised, Wanted
  <2>2. PICK r \in list.live : list.recs[r] = Record(scan[k])
    BY <1>5, <2>1, Zenon DEF Filled, AllWanted
  <2>3. r \in RecordsOf(k)
    BY <1>2, <2>2 DEF RecordsOf
  <2>4. ASSUME NEW q \in RecordsOf(k) PROVE list.recs[q] = Record(scan[k])
    <3>1. q \in list.live /\ list.recs[q].path = Record(scan[k]).path
      BY <1>2 DEF RecordsOf
    <3>2. PICK i \in 1 .. Len(scan) : list.recs[q] = Record(scan[i])
      BY <1>5, <3>1, RecordHasPath DEF Filled, OfVisited
    <3>3. i = k
      BY <2>1, <3>1, <3>2 DEF CompleteInv, Apart
    <3> QED
      BY <3>2, <3>3
  <2>5. ASSUME NEW p \in RecordsOf(k), NEW q \in RecordsOf(k), backend # "libusb" PROVE p = q
    <3>1. p \in Nat /\ q \in Nat
      BY <1>2, <1>3 DEF RecordsOf
    <3>2. ~(p < q) /\ ~(q < p)
      BY <1>6, <2>1, <2>5
    <3> QED
      BY <3>1, <3>2
  <2> QED
    BY <2>3, <2>4, <2>5
<1>9. ASSUME NEW j \in Promised, NEW k \in Promised, j < k,
             NEW q \in RecordsOf(j), NEW r \in RecordsOf(k)
      PROVE  q \notin Reached(list, r)
  <2>1. j \in 1 .. Len(scan) /\ k \in 1 .. Len(scan)
    BY DEF Promised
  <2>2. q \in list.live /\ r \in list.live
    BY <1>2 DEF RecordsOf
  <2>3. q # r
    <3>1. Record(scan[j]).path # Record(scan[k]).path
      BY <1>9, <2>1 DEF CompleteInv, Apart
    <3> QED
      BY <3>1, Zenon DEF RecordsOf
  <2>4. ~(r < q)
    BY <1>6, <1>9, <2>1
  <2>5. q < r
    BY <1>3, <2>2, <2>3, <2>4
  <2> QED
    BY <1>1, <2>2, <2>5, ForwardOnly DEF CompleteInv
<1> QED
  BY <1>7, <1>8, <1>9

-----------------------------------------------------------------------------
(***************************************************************************)
(* The theorems                                                            *)
(***************************************************************************)
\* The inductive invariant: the list is linked, its records are those of
\* devices that were seen, what was seen is on the bus unless the bus has
\* changed, and no two devices have one path.
THEOREM EnumerationInvariant == Spec => []EnumerationInv
<1>1. Init => EnumerationInv
  BY EnumerationInit
<1> QED
  BY <1>1, EnumerationNext, PTL DEF Spec

\* The state of an enumeration keeps its types, whatever the bus does.
THEOREM EnumerationTypeCorrect == Spec => []TypeOK
<1>1. EnumerationInv => TypeOK
  BY DEF EnumerationInv
<1> QED
  BY <1>1, EnumerationInvariant, PTL

\* What root leads to is what is allocated, and cur_dev is its end: also where
\* linux has taken the record off again that it had just linked.
THEOREM EnumerationListSound == Spec => []ListIsSound
<1>1. EnumerationInv => ListIsSound
  <2> SUFFICES ASSUME EnumerationInv, pc # "idle" PROVE ListIsSound
    BY Zenon DEF ListIsSound
  <2>1. OnChain(list) = list.live /\ Linked(list)
    BY ChainIsLive DEF EnumerationInv, ListInv
  <2>2. list.cur # 0 => list.cur \in list.live /\ list.next[list.cur] = 0
    BY <2>1 DEF Linked
  <2> QED
    BY <2>1, <2>2, Zenon DEF ListIsSound, Linked
<1> QED
  BY <1>1, EnumerationInvariant, PTL

\* hid_enumerate keeps the promise of hidapi.h on every bus that stays as it is
\* meanwhile: of the devices that the system lists and describes, each of the
\* asked id has a record, and only on libusb more than one; they lie in the
\* system's order, and no device of another id has one.
THEOREM EnumerationListComplete == Spec => []ListIsComplete
<1>1. CompleteInv /\ EnumerationInv => ListIsComplete
  BY CompleteAtEnd
<1>2. EnumerationInv /\ CompleteInv /\ [Next]_vars => CompleteInv'
  BY CompleteStep
<1> QED
  BY <1>1, <1>2, CompleteInit, EnumerationInvariant, PTL DEF Spec

\* hid_free_enumeration and the infos of enumerate_devices free every record.
THEOREM EnumerationRecordsFreed == Spec => []RecordsFreed
<1>1. EnumerationInv => RecordsFreed
  BY DEF EnumerationInv, ListInv, RecordsFreed, NoList
<1> QED
  BY <1>1, EnumerationInvariant, PTL

\* hid_open opens a device of the id it was asked for, unless the bus changed
\* between its list and its hid_open_path.
THEOREM EnumerationOpensAsked == Spec => []OpensAsked
<1>1. EnumerationInv => OpensAsked
  BY DEF EnumerationInv
<1> QED
  BY <1>1, EnumerationInvariant, PTL

\* In a process with one wallet, no handle of libusb outlives the global state
\* that its read thread runs on.
THEOREM EnumerationHandleHasContext ==
    ASSUME \A v, w \in Wallets : v = w
    PROVE  Spec => []HandleHasContext
<1>1. Init => ContextInv
  BY EnumerationInit
<1>2. EnumerationInv /\ ContextInv /\ [Next]_vars => ContextInv'
  BY ContextStep, Zenon DEF EnumerationInv, TypeOK
<1>3. ContextInv => HandleHasContext
  BY Zenon DEF ContextInv, HandleHasContext
<1> QED
  BY <1>1, <1>2, <1>3, EnumerationInvariant, PTL DEF Spec

=============================================================================
