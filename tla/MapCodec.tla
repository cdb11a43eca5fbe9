------------------------------ MODULE MapCodec ------------------------------
(***************************************************************************)
(* Maps of struct fields as contracts write and read them through the host: *)
(* the dense functions (m.9, m.a) and the sparse ones of CAP-0086 (m.b,     *)
(* m.c).  The host is no part of the repository.  A `host` record says what *)
(* it does where the runtime witness has an expectation; Claimed is the     *)
(* host that the witness reports.  Names that end in _Slip are mistaken     *)
(* variants, see the README.                                                *)
(***************************************************************************)
EXTENDS Naturals

Void == <<>>
Val(x) == <<x>>

\* missing, extra: a dense read of a map with a field less, or one more.
\* sparse_missing: a sparse read of a map with a field less; "untouched"
\* leaves in the caller's slot what was there.
\* sparse_void: a sparse write of a Void value.
\* gate: a guest built for the sparse functions is refused by older protocols.
Hosts ==
  [missing : {"trap", "void"}, extra : {"trap", "ignore"},
   sparse_missing : {"void", "trap", "untouched"}, sparse_void : {"omit", "keep"},
   gate : BOOLEAN]

Claimed ==
  [missing |-> "trap", extra |-> "trap", sparse_missing |-> "void",
   sparse_void |-> "omit", gate |-> TRUE]

EncodeAll_Slip(host, how, values) == values
\* map_new_from_slices and sparse_map_new_from_slices.
Encode(host, how, values) ==
  LET omitted == how = "sparse" /\ host.sparse_void = "omit"
  IN  [f \in {g \in DOMAIN values : ~(omitted /\ values[g] = Void)} |-> values[f]]

DecodeLenient_Slip(host, how, map, fields) ==
  how = "dense" /\ fields \ DOMAIN map # {} /\ host.missing = "trap"
\* map_unpack_to_slice and sparse_map_unpack_to_slice.
DecodeTraps(host, how, map, fields) ==
  LET missing == fields \ DOMAIN map # {}
      extra == DOMAIN map \ fields # {}
  IN  IF how = "sparse"
      THEN missing /\ host.sparse_missing = "trap"
      ELSE \/ missing /\ host.missing = "trap"
           \/ extra /\ host.extra = "trap"

Decoded(host, how, map, slots) ==
  [f \in DOMAIN slots |->
     IF f \in DOMAIN map THEN map[f]
     ELSE IF how = "sparse" /\ host.sparse_missing = "untouched" THEN slots[f]
     ELSE Void]
=============================================================================
