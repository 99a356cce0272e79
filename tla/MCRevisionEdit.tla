--------------------------- MODULE MCRevisionEdit ---------------------------
(* A small instance of RevisionEdit: two forms, which differ in every        *)
(* column and list, two requests at a time, and one kind of trouble in a     *)
(* behaviour, or a crash after two edits at once.                            *)
EXTENDS RevisionEdit, TLC

Form(text, class, required, others, values) ==
  [text |-> text, class |-> class, required |-> required, informed |-> others,
   hostnames |-> others, approvers |-> others, addresses |-> values, ds |-> values]

MCForms ==
  {Form("first", "parked", {2}, {1}, {"x"}),
   Form("second", "inuse", {2, 3}, {1, 2}, {"x", "y"})}

AnyRequest == Permutations(Requests)

FewTroubles == Cardinality(trouble) <= 1 \/ trouble = {"edits", "crash"}
=============================================================================
