----------------------------- MODULE LivePatterns -----------------------------
(***************************************************************************)
(* The plans djogi emits (live_migrate/patterns/mod.rs dispatch_pattern):  *)
(* one pattern for each kind of schema operation, as its step kinds.       *)
(***************************************************************************)
EXTENDS Integers, Sequences

\* AlterColumn to another type.
ReplacementColumn ==
  <<"expand_schema", "begin_compatibility_window", "backfill_chunked",
    "validate_backfill", "cutover_reads", "cutover_writes",
    "finalize_constraints", "cleanup_legacy_state">>

\* AlterColumn to NOT NULL.
NullableNotNull ==
  <<"expand_schema", "validate_backfill", "finalize_constraints">>

\* AddForeignKey.
BackfillThenTighten ==
  <<"expand_schema", "backfill_chunked", "validate_backfill",
    "finalize_constraints">>

\* AddIndex, unique, alone or in place of another index; and not unique.
UniqueViaIndex ==
  LET steps == <<"expand_schema", "validate_backfill", "finalize_constraints">>
  IN  {steps, Append(steps, "cleanup_legacy_state")}
IndexDependent == <<"expand_schema", "validate_backfill">>

\* AddTable with n foreign keys: a gate behind each.
MultiFkStaging(n) ==
  [i \in 1..2*n |-> IF i % 2 = 1 THEN "expand_schema" ELSE "validate_backfill"]

\* AddColumn with a volatile default.
ThreeStepDefault ==
  <<"expand_schema", "begin_compatibility_window", "backfill_chunked",
    "validate_backfill", "finalize_constraints", "cleanup_legacy_state">>

Patterns == {ReplacementColumn, NullableNotNull, BackfillThenTighten,
             IndexDependent, ThreeStepDefault}
              \cup UniqueViaIndex \cup {MultiFkStaging(n) : n \in Nat \ {0}}
===============================================================================
