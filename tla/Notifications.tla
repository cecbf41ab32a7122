--------------------------- MODULE Notifications ---------------------------
(***************************************************************************)
(* The data the daemon is built on: notification ids, the arguments of a   *)
(* Notify call, the SNotification a slot of the store holds, and the pure  *)
(* effect of each CNotificationStore operation on the map m_byId.          *)
(*                                                                         *)
(* The map is a total function on Ids whose value is None at an id that is *)
(* not in the store.                                                       *)
(***************************************************************************)
EXTENDS Integers

CONSTANTS
    IdMax,      \* the largest uint32_t: an id is a number of 0..IdMax
    Apps,       \* app names
    Texts,      \* what summary, body and icon say, as one value
    Keys,       \* action keys
    Timeouts,   \* expire timeouts in ms: < 0 server default, 0 persistent
    Requests,   \* the Notify calls (without replaces_id) applications make
    None        \* no entry

Ids     == 1..IdMax                 \* id 0 is reserved
Handles == 0..IdMax                 \* what a caller may pass as an id

Urgencies == {"LOW", "NORMAL", "CRITICAL"}
States    == {"VISIBLE", "INBOX"}   \* CLOSED exists only inside close()

(* "hint" is the value of the urgency hint, or None when the hint is absent *)
(* or does not hold a byte.                                                 *)
Request == [app: Apps, text: Texts, actions: SUBSET Keys, timeout: Timeouts,
            hint: 0..255 \cup {None}]

Notification == [app: Apps, text: Texts, actions: SUBSET Keys,
                 timeout: Timeouts, urgency: Urgencies, state: States]

Stores == [Ids -> Notification \cup {None}]

ASSUME IdMaxAssumption   == IdMax \in Nat \ {0}
ASSUME TimeoutAssumption == Timeouts \subseteq Int
ASSUME RequestAssumption == Requests \subseteq Request
ASSUME NoneAssumption    == None \notin Notification /\ None \notin 0..255
-----------------------------------------------------------------------------
(* The urgency hint: any byte from 2 up is critical, no byte is normal.     *)
Urgency(hint) ==
    IF hint = None THEN "NORMAL"
    ELSE IF hint >= 2 THEN "CRITICAL"
    ELSE IF hint = 1 THEN "NORMAL"
    ELSE "LOW"

(* The SNotification onNotify builds; a new one starts out VISIBLE.         *)
FromRequest(req) ==
    [app |-> req.app, text |-> req.text, actions |-> req.actions,
     timeout |-> req.timeout, urgency |-> Urgency(req.hint),
     state |-> "VISIBLE"]
-----------------------------------------------------------------------------
(* Seeded fault: the counter runs past the width of an id.                  *)
BumpPastWidth(x) == x + 1

(* m_nextId++ on a uint32_t, with the guard that skips the reserved id 0.   *)
Bump(x)        == (x + 1) % (IdMax + 1)
AssignedId(nx) == IF nx = 0 THEN 1 ELSE nx

Live(m) == {i \in Ids : m[i] # None}

(* unordered_map::emplace: an id that is already there keeps its entry.     *)
Emplaced(m, id, v) == IF m[id] = None THEN [m EXCEPT ![id] = v] ELSE m

IsVisible(m, id) == id \in Live(m) /\ m[id].state = "VISIBLE"

(* CNotificationStore::demote                                               *)
Demoted(m, id) ==
    IF IsVisible(m, id) THEN [m EXCEPT ![id].state = "INBOX"] ELSE m

(* CNotificationStore::close for each of a set of ids.                      *)
Erased(m, ids) == [i \in Ids |-> IF i \in ids THEN None ELSE m[i]]
=============================================================================
