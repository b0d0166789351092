----------------------------- MODULE TcRegistry -----------------------------
(***************************************************************************)
(* What the Stage-4 store promises of test-case identities: a logical key  *)
(* gets one number and keeps it, a number belongs to one key, and what is  *)
(* accepted under a number is never changed or forgotten.                  *)
(***************************************************************************)
CONSTANTS Keys, Ids, Records
VARIABLES owners,   \* rows [id, key]
          accepted  \* rows [id, record]

Init == owners = {} /\ accepted = {}

Assign(id, key) ==
  /\ \A row \in owners : row.id # id /\ row.key # key
  /\ owners' = owners \cup {[id |-> id, key |-> key]}
  /\ UNCHANGED accepted

Accept(id, record) ==
  /\ \E row \in owners : row.id = id
  /\ \A row \in accepted : row.id # id
  /\ accepted' = accepted \cup {[id |-> id, record |-> record]}
  /\ UNCHANGED owners

Next == \E id \in Ids : \/ \E key \in Keys : Assign(id, key)
                        \/ \E record \in Records : Accept(id, record)

Spec == Init /\ [][Next]_<<owners, accepted>>
=============================================================================
