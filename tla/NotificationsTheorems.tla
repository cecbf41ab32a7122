----------------------- MODULE NotificationsTheorems -----------------------
(***************************************************************************)
(* Facts about the operators of Notifications, used by the proofs about    *)
(* the daemon and the store.                                               *)
(***************************************************************************)
EXTENDS Notifications, TLAPS

(* The id counter stays within its width, and an id it assigns is not 0.    *)
LEMMA CounterWidth ==
    ASSUME NEW x \in Handles
    PROVE  /\ Bump(x) \in Handles
           /\ AssignedId(x) \in Ids
BY IdMaxAssumption DEF Bump, AssignedId, Handles, Ids

(* What onNotify builds is a notification, VISIBLE.                         *)
LEMMA FromRequestType ==
    ASSUME NEW req \in Requests
    PROVE  /\ FromRequest(req) \in Notification
           /\ FromRequest(req).state = "VISIBLE"
           /\ FromRequest(req).app \in Apps
<1>1. req \in Request
    BY RequestAssumption
<1>2. Urgency(req.hint) \in Urgencies
    BY <1>1 DEF Request, Urgency, Urgencies
<1> QED
    BY <1>1, <1>2 DEF Request, FromRequest, Notification, States

(* The map operations of the store keep it a store.                         *)
LEMMA EmplacedType ==
    ASSUME NEW m \in Stores, NEW id \in Ids, NEW v \in Notification
    PROVE  Emplaced(m, id, v) \in Stores
BY DEF Emplaced, Stores

LEMMA LiveEntry ==
    ASSUME NEW m \in Stores, NEW id \in Live(m)
    PROVE  id \in Ids /\ m[id] \in Notification
BY DEF Live, Stores

LEMMA DemotedType ==
    ASSUME NEW m \in Stores, NEW id
    PROVE  Demoted(m, id) \in Stores
<1>1. CASE IsVisible(m, id)
    <2>1. id \in Ids /\ m[id] \in Notification
        BY <1>1, LiveEntry DEF IsVisible
    <2>2. [m[id] EXCEPT !.state = "INBOX"] \in Notification
        BY <2>1 DEF Notification, States
    <2> QED
        BY <1>1, <2>1, <2>2 DEF Demoted, Stores
<1>2. CASE ~IsVisible(m, id)
    BY <1>2 DEF Demoted
<1> QED
    BY <1>1, <1>2

LEMMA ErasedType ==
    ASSUME NEW m \in Stores, NEW S
    PROVE  Erased(m, S) \in Stores
BY DEF Erased, Stores
=============================================================================
