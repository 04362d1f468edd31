---------------------------- MODULE StorageMove ----------------------------
(***************************************************************************)
(* What migrate-storage promises, without locks, manifests or crashes:     *)
(* the data of a legacy home moves to the destination as a whole or not at *)
(* all, only into a destination that holds no data, and once.  What is     *)
(* recorded there is the home the data came from.  Nothing is merged, lost *)
(* or moved away again.                                                    *)
(***************************************************************************)
CONSTANTS Homes, Dest, Copies

VARIABLES contents,   \* the origins of the data at each place
          recorded    \* the homes named by the migration record

moveVars == <<contents, recorded>>

Legacy(h) == {<<h, n>> : n \in Copies}
Fresh == <<Dest, 1>>

MoveInit == /\ contents \in [Homes \cup {Dest} -> {{}} \cup {{o} : o \in {Fresh}} \cup
                                                {{o} : o \in UNION {Legacy(h) : h \in Homes}}]
            /\ contents[Dest] \subseteq {Fresh}
            /\ \A h \in Homes : contents[h] \subseteq Legacy(h)
            /\ recorded = {}

\* The data of a home moves to the destination, with its record or without.
Move(h) == /\ contents[h] # {}
           /\ contents[Dest] = {}
           /\ contents' = [contents EXCEPT ![Dest] = contents[h], ![h] = {}]
           /\ recorded' \in {recorded, {h}}

\* The move is put on record.
Record(h) == /\ recorded = {}
             /\ contents[Dest] # {} /\ contents[Dest] \subseteq Legacy(h)
             /\ recorded' = {h}
             /\ UNCHANGED contents

\* A daemon, old or new, begins to store data where there is none.
Create(p, o) == /\ contents[p] = {}
                /\ \A q \in Homes \cup {Dest} : o \notin contents[q]
                /\ contents' = [contents EXCEPT ![p] = {o}]
                /\ UNCHANGED recorded

MoveNext == \/ \E h \in Homes : Move(h) \/ Record(h)
            \/ \E h \in Homes : \E o \in Legacy(h) : Create(h, o)
            \/ Create(Dest, Fresh)

MoveSpec == MoveInit /\ [][MoveNext]_moveVars
=============================================================================
