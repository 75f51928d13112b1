-------------------------- MODULE MCLocationImport --------------------------
(* Two Locations, with and without a version. A file updates one, by its   *)
(* number written with a leading zero, empties its inbox, finds the other  *)
(* unchanged and has a row that something else is wrong with; another adds *)
(* a store and has it share an inbox with one that is there; a third adds  *)
(* two stores. In the form one Location is given the inbox, one a number   *)
(* that means the store of the other, and a store is added.                *)
EXTENDS LocationImport

CONSTANTS x, y, v, w, i, adds, updates, shares, c

Store(zeros, digits) == <<zeros, digits>>
Row(location, number, value, inbox) ==
    [location |-> location, number |-> number, value |-> value, inbox |-> inbox, sound |-> TRUE]

Adds    == <<Row(None, Store(0, 3), v, None), Row(None, Store(0, 4), v, None)>>
Updates == <<Row(None, Store(1, 1), w, Clear), Row(y, None, v, None),
             [Row(None, Store(0, 4), v, None) EXCEPT !.sound = FALSE]>>
Shares  == <<Row(None, Store(0, 3), v, i), Row(y, Store(0, 2), None, i)>>

AFile == [f \in {adds} |-> Adds]
TwoFiles == [f \in {updates, shares} |-> IF f = updates THEN Updates ELSE Shares]
SomeNumbers == {Store(0, 1), Store(1, 1), Store(0, 2), Store(0, 3), Store(0, 4)}

Kept(number, version) == [data |-> [number |-> number, value |-> v, inbox |-> None], version |-> version]
SomeStarts == {[l \in Existing |-> IF l = x THEN Kept(Store(0, 1), 0) ELSE Kept(Store(0, 2), 1)]}

SomeForms ==
    {[id |-> x, fields |-> [inbox |-> i]], [id |-> y, fields |-> [number |-> Store(1, 1)]],
     [id |-> c, fields |-> [number |-> Store(0, 3), value |-> v, inbox |-> i]]}
=============================================================================
