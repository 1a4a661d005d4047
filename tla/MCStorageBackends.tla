------------------------- MODULE MCStorageBackends -------------------------
(* StorageBackends for TLC. *)
EXTENDS StorageBackends

CONSTANTS a, b

\* The clock stands still, runs, or is set back between two records of an id.
MCClocks ==
  {[r \in Records |-> IF <<r.id, r.version>> \in late THEN 2 ELSE 1] :
     late \in {{}, {<<a, 2>>, <<b, 2>>}, {<<a, 2>>, <<b, 1>>}, {<<a, 1>>, <<b, 2>>}}}

\* No filter, each filter alone, and two of them together; the range of one
\* that ends at 2, and its bounds given explicitly.
MCQuestions ==
  {[device |-> q[1], status |-> q[2]] @@ TimeFilter(q[3], q[4], q[5], 2) :
     q \in {<<NotGiven, NotGiven, NotGiven, NotGiven, NotGiven>>,
            <<a, NotGiven, NotGiven, NotGiven, NotGiven>>,
            <<NotGiven, 1, NotGiven, NotGiven, NotGiven>>,
            <<b, 2, NotGiven, NotGiven, 1>>,
            <<NotGiven, NotGiven, 1, 2, NotGiven>>,
            <<NotGiven, 1, 1, NotGiven, 1>>}}
=============================================================================
