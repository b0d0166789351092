------------------------------- MODULE TestData -------------------------------
(***************************************************************************)
(* The test-data document of a Stage-4 run, seen from one scenario and     *)
(* execution profile: the gates it passes when the run freezes it          *)
(* (services/test_data_validator.py), the variant that is frozen, and the  *)
(* binding that retrieval selects later (services/scenario_data_binder.py).*)
(* A document has two functions of record ids, status and refs (the ids in *)
(* a record's payload), and one, bindings, of binding ids.                 *)
(***************************************************************************)
EXTENDS FiniteSets, Integers

CONSTANTS
  Records,
  Variants, NoVariant,
  Default, Unnamed      \* variant_id "default", and the empty one, which is not refused

Statuses == {"APPROVED", "unapproved", "missing"}
\* Whose data a binding is: the case's, or of another profile, or another scenario.
Scopes == {"case", "profile", "scenario"}
Rows == [scope : Scopes, variant : Variants, priority : Int, approved : BOOLEAN,
         records : SUBSET Records,    \* what it references, but for the action sequence
         action : SUBSET Records, steps : SUBSET Records]   \* the sequence and its steps

\* The records of a sequence's steps are found by looking through the records.
IsDocument(d) ==
  /\ d.status \in [Records -> Statuses] /\ d.refs \in [Records -> SUBSET Records]
  /\ IsFiniteSet(DOMAIN d.bindings) /\ d.bindings \in [DOMAIN d.bindings -> Rows]
  /\ \A b \in DOMAIN d.bindings : \A r \in d.bindings[b].steps : d.status[r] # "missing"

ASSUME VariantAssumption ==
  /\ NoVariant \notin Variants /\ {Default, Unnamed} \subseteq Variants /\ Default # Unnamed

Approved(d, S) == \A r \in S : d.status[r] = "APPROVED"
Bound(d, scopes) ==
  {b \in DOMAIN d.bindings : d.bindings[b].scope \in scopes /\ d.bindings[b].approved}

\* _validate_binding_references: of every binding, approved or not.
ReferencesHold(d) ==
  \A b \in DOMAIN d.bindings : Approved(d, d.bindings[b].records \cup d.bindings[b].action)
\* _validate_coverage: the scenario has an approved binding, of whatever profile.
Covered(d) == Bound(d, {"case", "profile"}) # {}

\* Mutant: bindings are only counted.
ReadyByCoverage(d) == Covered(d)
\* ingest_document
Ready(d) == ReferencesHold(d) /\ Covered(d)

\* _resolve_variant_selection: an empty variant counts as the default.
Named(v) == IF v = Unnamed THEN Default ELSE v
Available(d) == {Named(d.bindings[b].variant) : b \in Bound(d, {"case"})}
Selected(d, explicit) ==
  IF explicit # NoVariant THEN IF explicit \in Available(d) THEN explicit ELSE NoVariant
  ELSE IF Cardinality(Available(d)) = 1 THEN CHOOSE v \in Variants : v \in Available(d)
  ELSE NoVariant

\* resolve_binding: one binding applies, or one has the highest priority.  The variant of
\* a binding is compared as it is, so that an empty one applies to nothing.
Applicable(d, v) == {b \in Bound(d, {"case"}) : d.bindings[b].variant = v}
Top(d, v) ==
  {b \in Applicable(d, v) : \A o \in Applicable(d, v) : d.bindings[o].priority <= d.bindings[b].priority}

\* _resolved_records: where the closure of references starts.
Roots(d, b) == d.bindings[b].records \cup d.bindings[b].steps
\* _record_id_references: ids of records that the document has.
Mentioned(d, S) == {r \in UNION {d.refs[s] : s \in S} : d.status[r] # "missing"}
Closed(d, S) == Mentioned(d, S) \subseteq S
=============================================================================
