---------------------------- MODULE MCStoreFile -----------------------------
(***************************************************************************)
(* Documents of no, one and two items; ids, a counter and a timeout of two *)
(* digits; strings with every kind of escape.                              *)
(***************************************************************************)
EXTENDS StoreFile

MCChars == {"a", "n", "u", Quote, Backslash, "LF", "TAB", "US", "SOH"}

Plain == <<"a">>
Mixed == <<"a", Quote, Backslash, "u", "LF">>
Bells == <<Backslash, "n", "US", "TAB", "SOH">>

Item(id, app, txt, timeout, urgency, state, actions) ==
    [id |-> id, app |-> app, text |-> txt, timeout |-> timeout,
     urgency |-> urgency, state |-> state, actions |-> actions]

Short == Item(11, Plain, <<>>, -1, 1, 0, <<>>)
Long  == Item(2, Mixed, Plain, 50, 2, 1, <<Plain, Bells, Mixed, Plain>>)

MCSaved == {[nextId |-> 1,  items |-> <<>>],
            [nextId |-> 0,  items |-> <<>>],
            [nextId |-> 12, items |-> <<Long>>],
            [nextId |-> 12, items |-> <<Item(1, Plain, Bells, 0, 0, 0, <<Plain, Plain>>)>>],
            [nextId |-> 12, items |-> <<Short, Item(1, Plain, Plain, 5, 0, 1, <<Plain>>)>>],
            [nextId |-> 12, items |-> <<Item(1, Plain, <<>>, -1, 1, 0, <<Bells, Plain>>), Short>>]}

(* Every string those of the documents can be cut to.                       *)
MCStrings == UNION {Pieces(s) : s \in {<<>>, Plain, Mixed, Bells}}

MCTimeouts == {-1, 0, 5, 50}
=============================================================================
