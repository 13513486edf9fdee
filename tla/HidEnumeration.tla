--------------------------- MODULE HidEnumeration ---------------------------
(***************************************************************************)
(* How a wallet finds its device: hid_enumerate, hid_open and              *)
(* hid_free_enumeration of the four backends, hidpp's enumerate_devices    *)
(* over them, and the global state that hid_init makes, every call remakes *)
(* if it is missing, and the destructor of a hidpp ends.                   *)
(*                                                                         *)
(* An enumeration asks the system for a list once and for each device      *)
(* afterwards, while the bus goes on changing.  A device on the bus has a  *)
(* product id and is described by the system well ("whole"), poorly        *)
(* ("bare": no USB parent on linux, no driver on windows, no path on mac)  *)
(* or not at all ("odd"); vendor ids and strings are left out.  udev,      *)
(* SetupDi, libusb and IOKit are external.                                 *)
(***************************************************************************)
EXTENDS Naturals, Sequences, FiniteSets

CONSTANTS
    Backends,    \* the backends looked at; one is compiled in
    Places,      \* where a device can be plugged in, numbered in bus order
    Wallets,     \* objects of nanos_wallet in the process
    Descriptions,\* how a device may be described: of "whole", "bare", "odd"
    Addresses,   \* what libusb numbers the devices of the bus with, again and again
    MaxChanges,  \* bound: changes of the bus
    MaxContexts, \* bound: times the global state is made
    MaxRecords   \* bound: a device of many interfaces stops at so many records

AllBackends == {"linux", "windows", "libusb", "mac"}

ASSUME EnumerationAssumption ==
    /\ Backends \subseteq AllBackends
    /\ Places \subseteq Nat /\ IsFiniteSet(Places)
    /\ Places \subseteq Addresses /\ Addresses \subseteq Nat
    /\ "whole" \in Descriptions /\ Descriptions \subseteq {"whole", "bare", "odd"}
    /\ MaxChanges \in Nat /\ MaxContexts \in Nat /\ MaxRecords \in Nat

VARIABLES
    backend,
    bus, changes,        \* what is plugged in where; changes so far
    alive, handle,       \* wallets that exist; the handle of each
    context, contexts,   \* the global state, by number (0: none); made so far
    pc, caller, op, want,\* the call in progress, whose, which, for what id
    scan, left,          \* the system's list; what the loop has not visited
    list,                \* the list of records built from it
    disturbed            \* has the bus changed since the call began?

callVars == <<pc, caller, op, want>>
contextVars == <<context, contexts>>
vars == <<backend, bus, changes, alive, handle, contextVars, callVars,
          scan, left, list, disturbed>>

(***************************************************************************)
(* Devices                                                                 *)
(***************************************************************************)
Ids     == {"app", "root"}
Empty   == [id |-> "none", make |-> "none", since |-> 0, address |-> 0]
Devices == [id : Ids, make : Descriptions, since : 0 .. MaxChanges, address : Addresses]

\* A product id of 0 asks for any device of the vendor.
Any == "any"
Match(q, id) == q = Any \/ q = id

NoPath == <<0, "none">>

\* libusb has the address of the device in the path, and windows the ids; the
\* others use a path again for what is plugged in next.
Path(place, device) ==
    CASE backend = "libusb"  -> <<device.address, "address">>
      [] backend = "windows" -> <<place, device.id>>
      [] OTHER               -> <<place, "port">>

Entries == {<<p, bus[p]>> : p \in {q \in Places : bus[q] # Empty}}

\* The lists the system may give: in bus order; on mac, from a set, in any.
Orders ==
    LET n == Cardinality(Entries)
        Numberings == {s \in [1 .. n -> Entries] :
                         \A j, k \in 1 .. n : j # k => s[j] # s[k]}
    IN  {s \in Numberings :
           backend = "mac" \/ \A j, k \in 1 .. n : j < k => s[j][1] < s[k][1]}

(***************************************************************************)
(* The list of records: what each points to, which are allocated, and the  *)
(* local pointers root, cur_dev and prev_dev (0: NULL).                    *)
(***************************************************************************)
NoList == [recs |-> <<>>, next |-> <<>>, live |-> {}, root |-> 0, cur |-> 0, prev |-> 0]

\* calloc of a record, linked behind cur_dev; prev_dev exists on linux only.
Appended(l, rec) ==
    LET r == Len(l.recs) + 1
    IN  [recs |-> Append(l.recs, rec),
         next |-> [k \in 1 .. r |-> IF k = l.cur THEN r
                                    ELSE IF k = r THEN 0 ELSE l.next[k]],
         live |-> l.live \cup {r},
         root |-> IF l.cur = 0 THEN r ELSE l.root,
         cur  |-> r,
         prev |-> IF backend = "linux" THEN l.cur ELSE 0]

\* (Slip: linux: prev_dev->next keeps pointing to the record that was freed.)
Dropped_StillLinked(l) ==
    [l EXCEPT !.live = @ \ {l.cur},
              !.root = IF l.prev = 0 THEN 0 ELSE @,
              !.cur  = l.prev]

\* The record just appended is freed and taken off the list.
Dropped(l) ==
    [l EXCEPT !.live = @ \ {l.cur},
              !.next = [k \in DOMAIN @ |-> IF k = l.prev THEN 0 ELSE @[k]],
              !.root = IF l.prev = 0 THEN 0 ELSE @,
              !.cur  = l.prev]

\* The records that next leads to from r: those in every set that holds r and
\* what each of its members points to.
Closed(l, S) == \A k \in S : l.next[k] = 0 \/ l.next[k] \in S

Reached(l, r) ==
    {q \in DOMAIN l.next :
       \A S \in SUBSET DOMAIN l.next : (Closed(l, S) /\ r \in S) => q \in S}

OnChain(l) == IF l.root = 0 THEN {} ELSE Reached(l, l.root)

Freed(l) == [l EXCEPT !.live = @ \ OnChain(l)]

(***************************************************************************)
(* What the loop of hid_enumerate does with a device of the asked id, by   *)
(* how it is described: "gone" if it is no longer where the list says.     *)
(***************************************************************************)
\* A device without uevent is passed over, one without USB parent freed again.
LinuxDoes(how) ==
    CASE how = "whole" -> {"add"}
      [] how = "bare"  -> {"drop"}
      [] how = "odd"   -> {"skip"}
      [] how = "gone"  -> {"skip", "drop"}

\* The inner loop looks for a driver among all devices from the first on, not
\* at the device visited, and one without class ends it.  What
\* HidD_GetAttributes returns is not looked at: attrib may hold anything.
DriverFound ==
    \E k \in 1 .. Len(scan) : /\ scan[k][2].make = "whole"
                              /\ \A j \in 1 .. k : scan[j][2].make # "odd"
WindowsDoes(how) ==
    IF ~DriverFound THEN {"skip"}
    ELSE IF how = "whole" THEN {"add"}
    ELSE IF how = "gone" THEN {"skip", "garbage"}
    ELSE {"skip"}

\* libusb keeps the descriptors of a device that has gone.  A device with no HID
\* interface is passed over; one with several gets a record for each of them, and
\* for each alternate setting (AddAnother).
LibusbDoes(how) ==
    IF how = "odd" THEN {"skip"} ELSE IF how = "gone" THEN {"skip", "add"} ELSE {"add"}

\* Without a path in the registry the record gets an empty one.
MacDoes(how) ==
    CASE how = "whole" -> {"add"}
      [] how = "bare"  -> {"no_path"}
      [] how = "odd"   -> {"skip"}
      [] how = "gone"  -> {"skip", "no_path"}

Does(how) ==
    CASE backend = "linux"   -> LinuxDoes(how)
      [] backend = "windows" -> WindowsDoes(how)
      [] backend = "libusb"  -> LibusbDoes(how)
      [] backend = "mac"     -> MacDoes(how)

Found(entry) == IF bus[entry[1]] = entry[2] THEN entry[2].make ELSE "gone"

(***************************************************************************)
(* hid_init and hid_exit                                                   *)
(***************************************************************************)
HasContext == backend # "linux"

\* (Slip: hid_init makes the global state anew in every call.)
InitSucceeds_Remakes ==
    IF HasContext
    THEN context < MaxContexts /\ context' = context + 1 /\ UNCHANGED contexts
    ELSE UNCHANGED contextVars

\* hid_init succeeds: at once if the global state is there, else by making it.
InitSucceeds ==
    IF HasContext /\ context = 0
    THEN contexts < MaxContexts /\ contexts' = contexts + 1 /\ context' = contexts'
    ELSE UNCHANGED contextVars

\* hid_init fails: only where there is something to make.
InitFails == HasContext /\ context = 0 /\ UNCHANGED contextVars

\* The constructor of hidpp does not look at what hid_init returns.
Construct(w) ==
    /\ w \notin alive /\ alive' = alive \cup {w}
    /\ InitSucceeds \/ InitFails
    /\ UNCHANGED <<backend, bus, changes, handle, callVars, scan, left, list, disturbed>>

NoHandle == [id |-> "none", asked |-> "none", context |-> 0, disturbed |-> FALSE]

\* (Slip: nanos_wallet: a destructor that leaves the closing to that of hidpp_device.)
Destroy_Unclosed(w) ==
    /\ w \in alive /\ (pc = "idle" \/ caller # w)
    /\ alive' = alive \ {w} /\ context' = 0
    /\ UNCHANGED <<backend, bus, changes, contexts, handle, callVars, scan, left, list,
                   disturbed>>

\* close() in the destructor of nanos_wallet, then hid_exit in that of its hidpp.
Destroy(w) ==
    /\ w \in alive /\ (pc = "idle" \/ caller # w)
    /\ alive' = alive \ {w}
    /\ handle' = [handle EXCEPT ![w] = NoHandle]
    /\ context' = 0
    /\ UNCHANGED <<backend, bus, changes, contexts, callVars, scan, left, list, disturbed>>

(***************************************************************************)
(* hid_enumerate, for enumerate_devices and for hid_open                   *)
(***************************************************************************)
\* hid_open asks for one id; nanos_wallet opens once it has closed.
Calls(w) ==
    {<<"enumerate", q>> : q \in Ids \cup {Any}} \cup
    {<<"open", q>> : q \in {i \in Ids : handle[w] = NoHandle}}

\* udev_new, SetupDiGetClassDevs and libusb_get_device_list may fail; on mac
\* nothing that is looked at does.
ListFails == backend # "mac"

Begin(w) ==
    /\ pc = "idle" /\ w \in alive /\ caller' = w
    /\ \E c \in Calls(w) : op' = c[1] /\ want' = c[2]
    /\ list' = NoList /\ disturbed' = FALSE
    /\ \/ /\ InitSucceeds
          /\ pc' = "scan" /\ scan' \in Orders /\ left' = scan'
       \/ /\ InitFails \/ (InitSucceeds /\ ListFails)
          /\ pc' = "listed" /\ scan' = <<>> /\ left' = <<>>
    /\ UNCHANGED <<backend, bus, changes, alive, handle>>

\* The loop is at a device, for which it does what, and goes on to the next.
Visit(what) ==
    /\ pc = "scan" /\ left # <<>>
    /\ what \in Does(Found(Head(left)))
    /\ UNCHANGED <<backend, bus, changes, alive, handle, contextVars, callVars,
                   scan, disturbed>>

Onward == left' = Tail(left)

Asked == Match(want, Head(left)[2].id)

Record(entry) == [path |-> Path(entry[1], entry[2]), id |-> entry[2].id]

PassOver ==
    /\ \E what \in {"skip", "add", "drop", "no_path"} :
         Visit(what) /\ (what # "skip" => ~Asked)
    /\ Onward /\ UNCHANGED list

AddRecord ==
    /\ Visit("add") /\ Asked /\ Onward
    /\ list' = Appended(list, Record(Head(left)))

\* libusb: one interface or alternate setting of the device, and not the last;
\* the number of the interface, which ends the path, is left out.
AddAnother ==
    /\ backend = "libusb" /\ Len(list.recs) + Len(left) < MaxRecords
    /\ Visit("add") /\ Asked /\ UNCHANGED left
    /\ list' = Appended(list, Record(Head(left)))

AddWithoutPath ==
    /\ Visit("no_path") /\ Asked /\ Onward
    /\ list' = Appended(list, [Record(Head(left)) EXCEPT !.path = NoPath])

AddGarbage ==
    /\ Visit("garbage") /\ Onward
    /\ \E id \in {i \in Ids : Match(want, i)} :
         list' = Appended(list, [Record(Head(left)) EXCEPT !.id = id])

AddAndDrop ==
    /\ Visit("drop") /\ Asked /\ Onward
    /\ list' = Dropped(Appended(list, Record(Head(left))))

\* (Slip: mac: the loop runs to num_devices - 1.)
EndOfList_Early ==
    /\ pc = "scan" /\ Len(left) < 2 /\ pc' = "listed"
    /\ UNCHANGED <<backend, bus, changes, alive, handle, contextVars, caller, op, want,
                   scan, left, list, disturbed>>

EndOfList ==
    /\ pc = "scan" /\ left = <<>> /\ pc' = "listed"
    /\ UNCHANGED <<backend, bus, changes, alive, handle, contextVars, caller, op, want,
                   scan, left, list, disturbed>>

(***************************************************************************)
(* What becomes of the list                                                *)
(***************************************************************************)
\* The call returns; what it has not freed stays allocated.
Return(l) ==
    /\ pc' = "idle" /\ list' = [NoList EXCEPT !.live = l.live]
    /\ scan' = <<>> /\ left' = <<>>
    /\ UNCHANGED <<backend, bus, changes, alive, caller, op, want, disturbed>>

\* enumerate_devices puts each record into a hidpp_device_info, which frees it.
DropInfos ==
    /\ pc = "listed" /\ op = "enumerate"
    /\ Return(Freed(list))
    /\ UNCHANGED <<handle, contextVars>>

\* hid_open goes along the list for the first record of the id it was asked for.
Candidates   == {r \in OnChain(list) : list.recs[r].id = want}
First        == {r \in Candidates : Candidates \subseteq Reached(list, r)}
path_to_open == {list.recs[r].path : r \in First}  \* {}: NULL

\* The devices that hid_open_path can open, by how they are described.
LinuxOpens   == Descriptions            \* open() of the node is enough
WindowsOpens == {"whole"}               \* CreateFile, with or without access; caps
LibusbOpens  == {"whole"}               \* needs the active configuration, libusb_open
MacOpens     == {"whole"}               \* needs an entry in the registry

Opens ==
    CASE backend = "linux"   -> LinuxOpens
      [] backend = "windows" -> WindowsOpens
      [] backend = "libusb"  -> LibusbOpens
      [] backend = "mac"     -> MacOpens

\* (Slip: libusb: the path of each interface is made, but not compared.)
AtPath_Uncompared ==
    {d \in {bus[p] : p \in Places} : d # Empty /\ d.make \in Opens}

\* What hid_open_path finds at that path, now.
AtPath ==
    {d \in {bus[p] : p \in {q \in Places : Path(q, bus[q]) \in path_to_open}} :
       d # Empty /\ d.make \in Opens}

\* hid_open_path finds nothing there, is refused, or opens it.
OpenPath ==
    /\ pc = "listed" /\ op = "open" /\ pc' = "opened"
    /\ \/ First = {} /\ UNCHANGED <<handle, contextVars>>
       \/ First # {} /\ InitFails /\ UNCHANGED handle
       \/ /\ First # {} /\ InitSucceeds
          /\ \/ UNCHANGED handle
             \/ \E device \in AtPath :
                  handle' = [handle EXCEPT ![caller] =
                               [id |-> device.id, asked |-> want,
                                context |-> context', disturbed |-> disturbed]]
    /\ UNCHANGED <<backend, bus, changes, alive, caller, op, want, scan, left, list, disturbed>>

\* (Slip: hid_open: an early return where hid_open_path has failed.)
FreeEnumeration_IfOpened ==
    /\ pc = "opened"
    /\ Return(IF handle[caller] = NoHandle THEN list ELSE Freed(list))
    /\ UNCHANGED <<handle, contextVars>>

FreeEnumeration ==
    /\ pc = "opened"
    /\ Return(Freed(list))
    /\ UNCHANGED <<handle, contextVars>>

\* hid_close; the threads of the backend end (HidLibusb, HidMac).
Close(w) ==
    /\ handle[w] # NoHandle /\ (pc = "idle" \/ caller # w)
    /\ handle' = [handle EXCEPT ![w] = NoHandle]
    /\ UNCHANGED <<backend, bus, changes, alive, contextVars, callVars, scan, left,
                   list, disturbed>>

\* The addresses a device that comes to place p may get: on libusb, any that no
\* other device has now; the other backends do not look at it.
FreeAddresses(p) ==
    IF backend = "libusb" THEN Addresses \ {bus[q].address : q \in Places \ {p}} ELSE {p}

\* External: a place on the bus is left or taken, also by another in one change,
\* as by a Ledger whose user opens an application.
Leaves(p) == bus' = [bus EXCEPT ![p] = Empty]
Comes(p, id, address) ==
    bus' = [bus EXCEPT ![p] = [id |-> id, make |-> "whole", since |-> changes',
                               address |-> address]]

BusChange ==
    /\ changes < MaxChanges /\ changes' = changes + 1
    /\ disturbed' = TRUE
    /\ \E p \in Places :
         Leaves(p) \/ \E id \in Ids, address \in FreeAddresses(p) : Comes(p, id, address)
    /\ UNCHANGED <<backend, alive, handle, contextVars, callVars, scan, left, list>>

(***************************************************************************)
(* The specification                                                       *)
(***************************************************************************)
Init ==
    /\ backend \in Backends
    /\ \E there \in SUBSET Places, id \in [Places -> Ids], make \in [Places -> Descriptions] :
         bus = [p \in Places |->
                  IF p \in there
                  THEN [id |-> id[p], make |-> make[p], since |-> 0, address |-> p]
                  ELSE Empty]
    /\ changes = 0
    /\ alive = {} /\ handle = [w \in Wallets |-> NoHandle]
    /\ context = 0 /\ contexts = 0
    /\ pc = "idle" /\ caller \in Wallets /\ op = "enumerate" /\ want = Any
    /\ scan = <<>> /\ left = <<>> /\ list = NoList /\ disturbed = FALSE

Scan ==
    \/ PassOver \/ AddRecord \/ AddAnother \/ AddWithoutPath
    \/ AddGarbage \/ AddAndDrop \/ EndOfList

Next ==
    \/ \E w \in Wallets : Construct(w) \/ Destroy(w) \/ Begin(w) \/ Close(w)
    \/ Scan \/ DropInfos \/ OpenPath \/ FreeEnumeration
    \/ BusChange

Spec == Init /\ [][Next]_vars

(***************************************************************************)
(* Properties                                                              *)
(***************************************************************************)
BusType ==
    /\ backend \in Backends
    /\ bus \in [Places -> Devices \cup {Empty}] /\ changes \in 0 .. MaxChanges

HandleType ==
    /\ alive \subseteq Wallets
    /\ handle \in [Wallets -> [id : Ids \cup {"none"}, asked : Ids \cup {"none"},
                               context : 0 .. MaxContexts, disturbed : BOOLEAN]]
    /\ context \in 0 .. contexts /\ contexts \in 0 .. MaxContexts

CallType ==
    /\ pc \in {"idle", "scan", "listed", "opened"} /\ caller \in Wallets
    /\ op \in {"enumerate", "open"} /\ want \in Ids \cup {Any}
    /\ disturbed \in BOOLEAN

ScanType ==
    /\ \E n \in 0 .. Len(scan) : left = SubSeq(scan, n + 1, Len(scan))
    /\ {list.root, list.cur, list.prev} \subseteq 0 .. Len(list.recs)
    /\ DOMAIN list.next = 1 .. Len(list.recs)
    /\ list.live \subseteq Nat \ {0}

\* The state has its shape: the list is a record of the C variables, and what
\* is left to visit is the end of what the system listed.
TypeOK == BusType /\ HandleType /\ CallType /\ ScanType

\* The list that four loops link by hand is sound after each device, also where
\* linux takes the record it has just linked off again: what root leads to is
\* what is allocated, no freed record among it, and cur_dev is its end.
ListIsSound ==
    /\ pc # "idle" => list.live = OnChain(list)
    /\ pc = "scan" => IF list.root = 0 THEN list.cur = 0
                      ELSE list.cur \in OnChain(list) /\ list.next[list.cur] = 0

\* hidapi.h's promise for hid_enumerate, of the devices the system has listed (a
\* list that fails is an empty one): if the bus does not change meanwhile, every
\* device of the asked id that the system describes has a record, and on libusb
\* perhaps several; its records have its id and path, and lie in the system's
\* order; and no device of another id has one.  Windows is excepted when the
\* search for a driver fails for all.
Promised     == {k \in 1 .. Len(scan) : Match(want, scan[k][2].id) /\ scan[k][2].make = "whole"}
RecordsOf(k) == {r \in OnChain(list) : list.recs[r].path = Record(scan[k]).path}
ListIsComplete ==
    (pc = "listed" /\ ~disturbed /\ (backend = "windows" => DriverFound)) =>
        /\ \A r \in OnChain(list) : Match(want, list.recs[r].id)
        /\ \A k \in Promised :
             /\ RecordsOf(k) # {}
             /\ \A q, r \in RecordsOf(k) :
                  list.recs[r] = Record(scan[k]) /\ (q = r \/ backend = "libusb")
        /\ \A j, k \in Promised : j < k =>
             \A q \in RecordsOf(j), r \in RecordsOf(k) : q \notin Reached(list, r)

\* hid_open looks a path up and opens it afterwards, when another device may
\* have it, on libusb if the address is given out again: on a bus that stays as
\* it is, the handle is to a device of the id asked for.
OpensAsked ==
    \A w \in Wallets :
        handle[w] # NoHandle => handle[w].id = handle[w].asked \/ handle[w].disturbed

\* Neither of the ways the records are freed, hid_free_enumeration and the
\* infos of enumerate_devices, leaves one behind, whatever the list looks like.
RecordsFreed == pc = "idle" => list.live = {}

\* hidpp's destructor ends the global state of the process: the handles opened
\* in it have to be closed by then, as libusb's read threads run on it.
HandleHasContext ==
    \A w \in Wallets :
        (backend = "libusb" /\ handle[w] # NoHandle) => handle[w].context = context

=============================================================================
