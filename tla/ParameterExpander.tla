------------------------- MODULE ParameterExpander -------------------------
(***************************************************************************)
(* BenchmarkRunner.generate_parameter_combinations: the cross product of a *)
(* test's parameter schema, skipping value entries of an unsupported      *)
(* type.  A schema is a list of [name, values], each value entry a        *)
(* [type, value].                                                          *)
(* BenchmarkPipeline expands the configured tests with it.                 *)
(***************************************************************************)
EXTENDS Integers, Sequences, SequencesExt, FiniteSets

(* The four type tags the if/elif chain accepts; any other `continue's.   *)
Supported(vd) == vd.type \in {"Integer", "Float", "String", "Boolean"}

(* new_combo = existing_combo.copy(); new_combo[param['name']] = value   *)
WithValue(c, name, v) == [x \in DOMAIN c \cup {name} |-> IF x = name THEN v ELSE c[x]]

(* One pass of `for param in parameters': for each value entry (outer),  *)
(* for each existing combination (inner), a copy with the value set.      *)
extend(param, combos) ==
    FoldLeft(LAMBDA acc, vd :
               IF Supported(vd)
               THEN acc \o [k \in 1..Len(combos) |-> WithValue(combos[k], param.name, vd.value)]
               ELSE acc,
             <<>>, param.values)

EmptyCombo == [x \in {} |-> "none"]

RECURSIVE expand(_, _)
expand(params, combos) ==
    IF params = <<>> THEN combos ELSE expand(Tail(params), extend(Head(params), combos))

(* `if not parameters: return [{}]', else the loop from [{}].             *)
generate_parameter_combinations(params) ==
    IF params = <<>> THEN <<EmptyCombo>> ELSE expand(params, <<EmptyCombo>>)

=============================================================================
