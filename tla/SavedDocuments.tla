--------------------------- MODULE SavedDocuments ---------------------------
(***************************************************************************)
(* What store.json says, independently of its text: the document a save    *)
(* writes, what a load makes of it, and what it makes of one that was cut  *)
(* short.  The text itself is the subject of StoreFile.                    *)
(***************************************************************************)
EXTENDS Notifications

CONSTANT
    Broken          \* a file whose text makes loadFromDisk throw

(* What a parsed file says.                                                 *)
Document == [nextId: Handles, items: Stores]

(* None is a file that is missing or empty: loadFromDisk returns early.     *)
Files == Document \cup {None, Broken}

ASSUME DefaultTimeout   == -1 \in Timeouts
ASSUME BrokenAssumption == Broken # None /\ {Broken, None} \cap Document = {}

NoItems == [i \in Ids |-> None]
-----------------------------------------------------------------------------
Kept(m, S) == [i \in Ids |-> IF i \in S THEN m[i] ELSE None]

(* An item cut in the middle: a field that lost its end, a number that lost *)
(* digits, or the initial value of the fields that are missing.             *)
Cut(n) == [app: Apps, text: Texts, actions: SUBSET n.actions,
           timeout: Timeouts, urgency: {n.urgency, "NORMAL"}, state: {n.state}]

(* What a document cut short still says: nothing; a number without digits,  *)
(* which throws; a counter that lost digits; the counter and the items      *)
(* before the cut, the last one cut itself, perhaps in the digits of its id.*)
Torn(d) ==
    {None, Broken}
    \cup [nextId: 1..d.nextId, items: {NoItems}]
    \cup {[d EXCEPT !.items = Kept(@, S)] : S \in SUBSET Live(d.items)}
    \cup {[d EXCEPT !.items = Emplaced(Kept(@, S), i, n)] :
             S \in SUBSET Live(d.items), i \in {j \in Ids : j < d.nextId},
             n \in UNION {Cut(d.items[j]) : j \in Live(d.items)}}
-----------------------------------------------------------------------------
(* What loadFromDisk makes of a document: everything comes back as INBOX.   *)
Inboxed(m) == [i \in Ids |-> IF m[i] = None THEN None ELSE [m[i] EXCEPT !.state = "INBOX"]]

(* Seeded fault: the counter is not read back.                              *)
ReloadItemsOnly(d) == [nextId |-> 1, items |-> Inboxed(d.items)]

Reload(d) == [nextId |-> IF d.nextId > 1 THEN d.nextId ELSE 1, items |-> Inboxed(d.items)]
=============================================================================
